---------------------------- MODULE MCCompiledRun ----------------------------
EXTENDS CompiledRun

CONSTANT MaxLen   \* bound: words of a source

\* Every undef has something to remove.
Balanced(s) ==
    \A n \in 1..Len(s) : Cardinality({i \in 1..n : s[i] = "undef"})
                            <= Cardinality({i \in 1..n : s[i] = "def"})

MCSources == {s \in SeqOf(Vocabulary, MaxLen) : Balanced(s)}
=============================================================================
