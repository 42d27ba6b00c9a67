------------------------------ MODULE MCShell ------------------------------
(* Values of the constants of Shell for TLC.                               *)
EXTENDS ShellProperties

MCLines == {<< >>, <<":q">>, <<"ls", ">", "f">>, <<"cat", "<", "f", "|", "wc", ">", "g", ">">>,
            <<":q", "|", "ls", "-l">>, <<"ls", ">", "|", "wc">>}
=============================================================================
