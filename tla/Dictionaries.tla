---------------------------- MODULE Dictionaries ----------------------------
(***************************************************************************)
(* Dictionaries and directories of the tools: functions that grow by one   *)
(* entry at a time.                                                        *)
(***************************************************************************)

\* d[key] = v, or the file `key` written with the contents v
Put(d, key, v) == [k \in DOMAIN d \cup {key} |-> IF k = key THEN v ELSE d[k]]

\* for k in e: if k not in d: d[k] = e[k]
Updated(e, d) == [k \in DOMAIN d \cup DOMAIN e |-> IF k \in DOMAIN d THEN d[k] ELSE e[k]]
=============================================================================
