-------------------------------- MODULE MCFs --------------------------------
(* Instances of Fs for TLC.                                                 *)
EXTENDS Fs
CONSTANTS p1, p2

(* The first process fills the tree, the second takes it apart.             *)
MCCalls(p) ==
    IF p = p1
    THEN {<<"creat", <<"f">>>>, <<"mkdir", <<"/", "d">>>>, <<"link", <<"f">>, <<"d", "f">>>>,
          <<"mkdir", <<"d", "f">>>>, <<"chdir", <<"d", "f">>>>, <<"chdir", <<"..">>>>, <<"unlink", <<"d", "..">>>>,
          <<"write">>, <<"dup">>}
    ELSE {<<"openw", <<"d", "f">>>>, <<"unlink", <<"d">>>>, <<"unlink", <<"f">>>>, 
          <<"unlink", <<"d", "f">>>>,  <<"mknod", <<"d", "f">>>>}

(* The calls meet the hypothesis of PanicsCorrect.                          *)
ASSUME MCDotDotFirst == DotDotFirst
=============================================================================
