------------------------------ MODULE MCCodeRun ------------------------------
(***************************************************************************)
(* Programs that loop or not, in one language of each kind; none starts    *)
(* processes of its own.                                                   *)
(***************************************************************************)
EXTENDS CodeRun

MCPrograms ==
  [language : {"python", "go", "cpp"}, builds : BOOLEAN, forks : {FALSE}, loops : BOOLEAN]
=============================================================================
