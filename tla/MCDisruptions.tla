---------------------------- MODULE MCDisruptions ----------------------------
(* Disruptions on small instances.                                         *)
EXTENDS Disruptions, TLC

BothLanes == {"general", "priority"}

(* The instances start where the life of the branch leads at once: every   *)
(* customer is waiting in the general lane, having walked in, or having    *)
(* checked in early for slot b; and the counters are staffed and open.     *)
WaitingInit ==
  /\ now = 0
  /\ bookingStatus = [b \in Bookings |-> "pending"]
  /\ source \in [Bookings -> {"online", "walk_in"}]
  /\ customer \in [Bookings -> Customers \cup {Guest}]
  /\ \A b \in Bookings :
       source[b] = "online" =>
         customer[b] # Guest /\ b \in Slots /\ b <= CheckInWindow /\ DateOf(b) = 0
  /\ \A x, y \in Bookings :
       /\ source[x] = "walk_in" /\ source[y] = "walk_in"
       /\ customer[x] = customer[y] /\ customer[x] # Guest
       => x = y
  /\ appointment = [b \in Bookings |-> IF source[b] = "online" THEN b ELSE 0]
  /\ checkedInAt = [b \in Bookings |-> 0]
  /\ ticketStatus = [b \in Bookings |-> "waiting"]
  /\ queueType = [b \in Bookings |-> "general"]
  /\ queueNumber = [b \in Bookings |-> b]
  /\ assignedCounter = [b \in Bookings |-> None]
  /\ lastNumber = [s \in Scopes |-> IF s = <<0, "general">> THEN Cardinality(Bookings) ELSE 0]
  /\ counterStatus = [c \in Counters |-> "open"]
  /\ counterType = [c \in Counters |-> "general"]
  /\ assignedStaff \in [Counters -> Staff]
  /\ request = [r \in Requests |-> None]
  /\ NoDisruptions

(* The branch's business while pauses are dealt with: customers are        *)
(* called, served, cancel, reschedule in the priority lane and check in    *)
(* again.  Today is paused, and everybody waiting has come early for an    *)
(* appointment.  QueueLifecycle's runs cover the rest of a day's events.   *)
BusyInit == WaitingInit /\ source = [b \in Bookings |-> "online"]

Business ==
  /\ UNCHANGED disruptionVars
  /\ \/ Tick
     \/ \E r \in Requests, c \in Counters :
          UNCHANGED <<now, bookingVars, ticketVars>> /\ Desk!BeginCall(r, c)
     \/ \E r \in Requests : CallNext(r)
     \/ \E c \in Counters : Complete(c)
     \/ \E b \in Bookings :
          \/ Cancel(b) \/ CheckIn(b, "general")
          \/ \E at \in Slots : Reschedule(b, at, "priority")

BusyStep ==
  /\ pauseDate' \in [Pauses -> {0, None}]
  /\ \/ Select
     \/ \E m \in Managers :
          PauseStep(m) \/ ResumeStep(m) \/ \E p \in Pauses : BeginResume(m, p)

BusySpec == BusyInit /\ [][Business \/ BusyStep]_allVars

(* Overlapping requests of the managers on a queue that waits.  Those in   *)
(* Failing may fail at any time; the server runs the others to their end.  *)
CONSTANT Failing

ResumingStep ==
  \/ Tick /\ UNCHANGED disruptionVars
  \/ \E m \in Managers :
       PauseStep(m) \/ ResumeStep(m) \/ \E p \in Pauses : BeginResume(m, p)
  \/ \E m \in Failing : Fail(m)

ResumingSpec ==
  /\ WaitingInit /\ [][ResumingStep]_allVars
  /\ \A m \in Managers \ Failing : WF_allVars(ResumeStep(m))

(* A resume that runs to its end reaches every registered customer its     *)
(* pause has affected so far, whatever overlapping requests do, or leave   *)
(* undone when they fail; unless two of those have inserted a notification *)
(* of the same impact, which ends every later get_or_create of it.         *)
CustomersNotified ==
  \A m \in Managers \ Failing, i \in Impacts :
    /\ task[m] # None /\ task[m].phase = "find" /\ task[m].pause = i[1]
    /\ i \in impacts /\ Registered(i)
    ~> i \in notified \/ \E j \in Impacts : j[1] = i[1] /\ notices[j] > 1
=============================================================================
