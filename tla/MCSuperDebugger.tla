-------------------------- MODULE MCSuperDebugger --------------------------
(***************************************************************************)
(* Two programs in the directory, p in three versions: long and short      *)
(* dumps with line numbers, main in different places, and one without -g;  *)
(* and another p in directory d, whose dump goes to the file of the first. *)
(* "p" is too short to name a dump file.                                   *)
(***************************************************************************)
EXTENDS SuperDebugger, TLC

MCToken == {"-f", "-x", "./p", "./q", "d/p", "p"}
MCForceFlag == {"-f"}
MCDashed == {"-f", "-x"}
MCDotted == {"./p", "./q"}
MCFound == {"./p", "./q", "d/p"}  \* no "p" on the PATH
MCDumpFile == "./p" :> "p_copy.asm" @@ "d/p" :> "p_copy.asm" @@ "./q" :> "q_copy.asm"

MCVersion == {"long", "short", "no_g"}
MCVersions == "./p" :> MCVersion @@ "./q" :> {"short"} @@ "d/p" :> {"short"}
MCDump == "long" :> <<"other", "other", "main">> @@ "short" :> <<"main", "other">>
            @@ "no_g" :> <<"other", "main">>
MCWithLines == {"long", "short"}
=============================================================================
