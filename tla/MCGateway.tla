----------------------------- MODULE MCGateway -----------------------------
(***************************************************************************)
(* Command lines of at most two arguments.                                 *)
(***************************************************************************)
EXTENDS Gateway

Arg(name, values) == {[name |-> name, value |-> v] : v \in values}
Numbers == {0, 1, 2}

MCArguments ==
  UNION {Arg("--messages=", {0, 2, NaN}), Arg("--log-payload=", Numbers \cup {NaN}),
         Arg("--log-normalized=", {0, 1}), Arg("--max-attempts=", {0, 2, NaN}),
         Arg("--backoff-ms=", {U64 - 1}), Arg("--max-backoff-ms=", {U64 - 1}),
         Arg("--symbol=", {"ALL"}),
         Arg("--symbols=", {"two", "ALL", "ALL among others", "none"}),
         Arg("--feed=", {"trade", "depth", "other"}), Arg("--unknown", {0}),
         Arg("--normalize", {0}), Arg("--log-payload", {0}), Arg("--reconnect", {0}),
         Arg("--log-normalized", {0}), Arg("--reconnect-completed", {0})}

MCCommandLines ==
  {<<>>} \cup {<<a>> : a \in MCArguments} \cup {<<a, b>> : a, b \in MCArguments}

\* --max-attempts at the width of uint32.
MCWideLines == {<<[name |-> "--max-attempts=", value |-> n]>> : n \in 1 .. 9}
=============================================================================
