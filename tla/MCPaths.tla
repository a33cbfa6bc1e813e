-------------------------------- MODULE MCPaths --------------------------------
(* Chains of up to six imports from every kind of starting path: with `..`*)
(* first, between names and last, alone, twice and more often than there are*)
(* directories, into the working directory by name, and with `.`.           *)
EXTENDS ImportPaths

MCCwd == <<"w">>
MCHome == <<"h">>
MCStarts ==
    {<<"a">>, <<".", "a">>, <<"..", "a">>, <<"a", "..", "b", "a">>,
     <<"..", "..", "..", "a">>, <<"/", "a">>, <<"/", "a", "b">>, <<"~", "a">>}
MCPathsOf ==
    {<<"a">>, <<"b", "a">>, <<"w", "a">>, <<".", "b">>, <<"..", "a">>,
     <<"..", "..", "a">>, <<"b", "..", "a">>, <<"b", "..", "..", "a">>,
     <<"b", "a", "..">>}
MCImports == [prefix : FilePrefix, path : MCPathsOf]
=============================================================================
