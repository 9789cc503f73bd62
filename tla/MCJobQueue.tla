---------------------------- MODULE MCJobQueue ----------------------------
(* Two jobs of four kinds of pairs, and three accounts.                    *)
EXTENDS JobQueue

CONSTANTS j1, j2, sender, hash, a, b, c

MCJobs == {j1, j2}

Log(kind, needs, args, key, names) ==
    [kind |-> kind, needs |-> needs, args |-> args, key |-> key, names |-> names]
Pair(first, second) == [j \in MCJobs |-> IF j = j1 THEN first ELSE second]

(* Two documents of one account a, each with another receiver; an owner,   *)
(* whose splits need it; two accounts seen with one hash; two sets of      *)
(* splits of an identity.                                                  *)
MCScenarios ==
    {Pair(Log("metadata", {}, {a}, sender, {b}),
          Log("metadata", {}, {a}, sender, {c})),
     Pair(Log("owner", {}, {a, b}, sender, {}),
          Log("plain", {j1}, {a}, sender, {})),
     Pair(Log("seen", {}, {a}, hash, {a}),
          Log("seen", {}, {b}, hash, {b})),
     Pair(Log("identity", {}, {a}, sender, {b}),
          Log("plain", {}, {a, c}, sender, {}))}
===========================================================================
