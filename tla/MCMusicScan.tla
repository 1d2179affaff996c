----------------------------- MODULE MCMusicScan -----------------------------
\* Instances of the music scan for TLC: a root with a song and a directory
\* holding a song and a directory, and a second root.
EXTENDS MusicScan

MCRoots == <<<<"r">>, <<"q">>>>
MCPaths == {<<"r">>, <<"r", "s">>, <<"r", "a">>, <<"r", "a", "s">>, <<"r", "a", "b">>, <<"q">>}

MCInteresting == {<<"r", "s">>, <<"r", "a", "s">>}

\* All but the outer song: its artist or album may be new.
MCTagged == MCPaths \ {<<"r", "s">>}

NoPath == {}
==============================================================================
