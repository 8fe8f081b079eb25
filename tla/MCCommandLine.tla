--------------------------- MODULE MCCommandLine ---------------------------
(***************************************************************************)
(* Arguments for CommandLine: numbers at the edges of the parsers (0, a    *)
(* sign, 256: one past a byte and the minimum window), hex strings of odd  *)
(* and even length, a source mode, and a name that is none of these.       *)
(***************************************************************************)
EXTENDS CommandLine, TLC

MCTokens == {"0", "+1", "256", "0d0a", "windowed", "data"}
MCNumber == "0" :> 0 @@ "+1" :> 1 @@ "256" :> 256
MCDecimal == {"0", "256"}
MCHexDigits == "0" :> <<0>> @@ "256" :> <<2, 5, 6>> @@ "0d0a" :> <<0, 13, 0, 10>>
MCFileNames == {"data"}
============================================================================
