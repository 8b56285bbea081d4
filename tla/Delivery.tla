------------------------------ MODULE Delivery ------------------------------
(***************************************************************************)
(* What the client promises the application about a publication or a       *)
(* subscription, whatever the connection does meanwhile:                   *)
(*   - its callback reports success only for a message that reached the    *)
(*     server, when the quality of service is "at least once";             *)
(*   - the callback is called at most once;                                *)
(*   - a message that was written in a continued session ("stored") is not *)
(*     forgotten: it stays stored until it is answered, or until the       *)
(*     application itself asks for a clean session.                        *)
(* A message that was never written may be dropped without a word.         *)
(***************************************************************************)
CONSTANTS Messages, AtLeastOnce

VARIABLES status,     \* per message, how far it got
          delivered,  \* the messages the server has received
          session     \* the session type of the latest connection request

vars == <<status, delivered, session>>

Statuses == {"idle", "accepted", "stored", "ok", "failed", "dropped"}

Init ==
  /\ status = [m \in Messages |-> "idle"]
  /\ delivered = {}
  /\ session = "CLEAN"

Step(m, from, to) ==
  /\ status[m] \in from
  /\ status' = [status EXCEPT ![m] = to]
  /\ UNCHANGED <<delivered, session>>

Accept(m) == Step(m, {"idle"}, "accepted")

\* A written message keeps its place for the next connection.
Store(m) == m \in AtLeastOnce /\ Step(m, {"accepted"}, "stored")

\* The server may get a message after its publisher gave up on it.
Deliver(m) ==
  /\ status[m] # "idle"
  /\ delivered' = delivered \cup {m}
  /\ UNCHANGED <<status, session>>

Succeed(m) ==
  /\ m \in AtLeastOnce => m \in delivered
  /\ Step(m, {"accepted", "stored"}, "ok")

Fail(m) == Step(m, {"accepted", "stored"}, "failed")

\* The end of a connection may take several messages at once, some without a
\* word (S), some with an error (F).
Abandon(S, F) ==
  /\ \A m \in S : \/ status[m] = "accepted"
                  \/ status[m] = "stored" /\ session = "CLEAN"
  /\ \A m \in F : status[m] = "accepted"
  /\ status' = [m \in Messages |-> IF m \in S THEN "dropped"
                                  ELSE IF m \in F THEN "failed" ELSE status[m]]
  /\ UNCHANGED <<delivered, session>>

Connect(s) == session' = s /\ UNCHANGED <<status, delivered>>

Next ==
  \/ \E m \in Messages : Accept(m) \/ Store(m) \/ Deliver(m) \/ Succeed(m) \/ Fail(m)
  \/ \E S, F \in SUBSET Messages : Abandon(S, F)
  \/ \E s \in {"CLEAN", "CONTINUE"} : Connect(s)

Spec == Init /\ [][Next]_vars

-----------------------------------------------------------------------------
TypeInv ==
  /\ status \in [Messages -> Statuses]
  /\ delivered \in SUBSET Messages
  /\ session \in {"CLEAN", "CONTINUE"}

\* A publication whose callback reported success (do_mqtt_publish_q1 after
\* the PUBACK) reached the server.
SuccessMeansDelivered ==
  \A m \in Messages \cap AtLeastOnce : status[m] = "ok" => m \in delivered

\* In a continued session a stored message leaves that state only with a
\* verdict for the application (xi_mqtt_logic_layer_close_externally moves
\* it to the copy of the queue, it is never freed).
StoredIsKept ==
  [][\A m \in Messages :
       status[m] = "stored" /\ session = "CONTINUE" =>
         status'[m] \in {"stored", "ok", "failed"}]_vars
=============================================================================
