------------------------------ MODULE ExchangeLog ------------------------------
(***************************************************************************)
(* What a reader of the live view may rely on (storage/request_store.go     *)
(* 36-41): the last Max exchanges in the order of their first record, each  *)
(* with the latest request, response and timing recorded for it.  It is the *)
(* abstract specification RequestStore implements: one sequence, in place   *)
(* of a queue and a map that must agree.                                    *)
(***************************************************************************)
EXTENDS Naturals, Sequences

CONSTANTS Ids, Records, Absent, Max

Parts == {"request", "response", "timing"}

VARIABLE log   \* oldest exchange first

Exchanges == [id: Ids, parts: [Parts -> Records \cup {Absent}]]

Init == log = <<>>

(* A record of an exchange in the log replaces the part it has. *)
Amend(id, part, record) ==
  \E i \in DOMAIN log :
    /\ log[i].id = id
    /\ log' = [log EXCEPT ![i].parts[part] = record]

(* A record of any other exchange starts it, at the expense of the oldest   *)
(* one when the log is full.                                                *)
Begin(id, part, record) ==
  LET exchange == [id |-> id,
                   parts |-> [p \in Parts |-> IF p = part THEN record ELSE Absent]]
  IN  /\ \A i \in DOMAIN log : log[i].id # id
      /\ log' = IF Len(log) = Max THEN Append(Tail(log), exchange)
                                  ELSE Append(log, exchange)

Clear == log' = <<>>

Next ==
  \/ \E id \in Ids, part \in Parts, record \in Records :
       Amend(id, part, record) \/ Begin(id, part, record)
  \/ Clear

Spec == Init /\ [][Next]_log
=============================================================================
