---------------------------- MODULE TemplateGate ----------------------------
(***************************************************************************)
(* What ServerlessAppPlugin promises of a series of translations: URLs of  *)
(* nested templates are handed out one by one, and a translation that      *)
(* waits is reported good only while every URL handed out so far, by it or *)
(* by an earlier one, is that of a template seen ready.  It may be         *)
(* reported bad at any time.                                               *)
(***************************************************************************)
CONSTANT Keys  \* what a template is requested for

VARIABLES
  waits,   \* whether a translation waits for its templates
  handed,  \* keys a URL has been handed out for
  ready,   \* keys whose template has been seen ready
  verdict  \* of the current translation

vars == <<waits, handed, ready, verdict>>

Init == waits \in BOOLEAN /\ handed = {} /\ ready = {} /\ verdict = "pending"

HandOut(k) ==
  /\ verdict = "pending"
  /\ handed' = handed \cup {k}
  /\ ready' \in {ready, ready \cup {k}}
  /\ UNCHANGED <<waits, verdict>>

BecomeReady(k) ==
  /\ verdict = "pending"
  /\ k \in handed
  /\ ready' = ready \cup {k}
  /\ UNCHANGED <<waits, handed, verdict>>

ReportGood ==
  /\ verdict = "pending"
  /\ waits => handed \subseteq ready
  /\ verdict' = "ok"
  /\ UNCHANGED <<waits, handed, ready>>

ReportBad ==
  /\ verdict = "pending"
  /\ verdict' \in {"failed", "crashed"}
  /\ UNCHANGED <<waits, handed, ready>>

Again ==
  /\ verdict # "pending"
  /\ verdict' = "pending"
  /\ UNCHANGED <<waits, handed, ready>>

Next ==
  \/ \E k \in Keys : HandOut(k) \/ BecomeReady(k)
  \/ ReportGood \/ ReportBad \/ Again

Spec == Init /\ [][Next]_vars
=============================================================================
