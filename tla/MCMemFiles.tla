------------------------------ MODULE MCMemFiles ------------------------------
EXTENDS MemFiles

\* Two directories with a child of the same name and a file beside them: files
\* over files, files over directories, trees over trees, in and out of
\* directories.
MCPath == {<<"a">>, <<"b">>, <<"c">>, <<"a", "c">>, <<"b", "c">>}
MCMoves == {<<<<"a">>, <<"b">>>>, <<<<"b">>, <<"a">>>>, <<<<"c">>, <<"a">>>>,
            <<<<"c">>, <<"a", "c">>>>, <<<<"a", "c">>, <<"c">>>>,
            <<<<"a", "c">>, <<"b">>>>, <<<<"b">>, <<"a", "c">>>>,
            <<<<"a", "c">>, <<"b", "c">>>>}

\* Bound of the model: a run ends where the file beside the directories is
\* there while a handle is open; the directories and their children have
\* links, trees and replaced files enough for a handle.
HandleBound == \A h \in Handles : handle[h].open => <<"c">> \notin Names(fs)

\* A path moved to itself: what the code does with it is no rename.
SelfMoves == {<<<<"a">>, <<"a">>>>, <<<<"b">>, <<"a">>>>}
===============================================================================
