----------------------------- MODULE RateLimiter -----------------------------
(***************************************************************************)
(* RateLimiter (components/addons/rate_limiter.py) as addon_get uses it:   *)
(* the threads of the addon search share one host.  A request holds the    *)
(* host's lock from the first check to the answer, waits for the gap and   *)
(* the cap inside it, and is refused while the host is cooling down after  *)
(* a 429.  Hosts share nothing, so one stands for all.                     *)
(*                                                                         *)
(* Time is counted in ticks; every time stamp is kept as its age, up to    *)
(* the age from which the code no longer tells two of them apart.  A       *)
(* thread whose sleep is over runs before the next tick: the code's        *)
(* guarantees are about sleeps that take what they were asked for.         *)
(***************************************************************************)
EXTENDS Integers, Sequences, FiniteSets

CONSTANTS
    Threads,        \* the search threads
    MinGap,         \* MIN_GAP
    CooldownBase,   \* COOLDOWN_BASE
    MaxCooldown,    \* _MAX_COOLDOWN
    Cap,            \* _MAX_REQUESTS_PER_HOST
    Window,         \* _WINDOW_SECONDS
    MaxSleep        \* _MAX_SLEEP_ON_CAP

ASSUME PacingAssumption ==
    /\ MinGap \in Nat \ {0} /\ CooldownBase \in Nat /\ MaxCooldown \in Nat
    /\ Cap \in Nat \ {0} /\ Window \in Nat \ {0} /\ MaxSleep \in Nat
    /\ MinGap < Window

VARIABLES
    pc,         \* where each thread is
    nap,        \* what is left of the lock holder's sleep
    cooldown,   \* cooldown_until, as the time left
    nextBan,    \* what the next 429 costs: COOLDOWN_BASE, doubled for each of
                \* the consecutive_429s
    last,       \* the age of last_request, MinGap for that age and above
    stamps,     \* the ages of request_timestamps, Window for that and above
    sent        \* the ages of the requests sent within the last Window (not in the
                \* code: what its guarantees are about)

vars == <<pc, nap, cooldown, nextBan, last, stamps, sent>>

Sleeping == {"capSleep", "gapSleep"}
WithLock == Sleeping \cup {"inFlight"}
LockFree == \A t \in Threads : pc[t] \notin WithLock

Least(a, b) == IF a < b THEN a ELSE b
Greatest(a, b) == IF a > b THEN a ELSE b

TypeOK ==
    /\ pc \in [Threads -> {"idle", "queued"} \cup WithLock]
    /\ nap \in 0 .. Greatest(MaxSleep, MinGap)
    /\ cooldown \in 0 .. MaxCooldown
    /\ nextBan \in 0 .. MaxCooldown
    /\ last \in 0 .. MinGap
    /\ stamps \in Seq(0 .. Window) /\ Len(stamps) <= Cap
    /\ sent \in SUBSET (0 .. (Window - 1))

Init ==
    /\ pc = [t \in Threads |-> "idle"]
    /\ nap = 0
    /\ cooldown = 0
    /\ nextBan = Least(CooldownBase, MaxCooldown)
    /\ last = MinGap
    /\ stamps = << >>
    /\ sent = {}

----------------------------------------------------------------------------
\* popleft(), as long as the oldest stamp, the first, has that age.
DropOlder(s, age) ==
    SubSeq(s, 1 + Cardinality({i \in DOMAIN s : s[i] >= age}), Len(s))

\* Slip: a stamp is dropped one tick too soon.
TrimEarly(s) == DropOlder(s, Window - 1)

\* _trim_window: only stamps strictly younger than the window stay.
Trim(s) == DropOlder(s, Window)

Call(t) ==
    /\ pc[t] = "idle"
    /\ pc' = [pc EXCEPT ![t] = "queued"]
    /\ UNCHANGED <<nap, cooldown, nextBan, last, stamps, sent>>

\* The request goes out, with the lock held.
Send(t) ==
    /\ pc' = [pc EXCEPT ![t] = "inFlight"]
    /\ nap' = 0
    /\ last' = 0
    /\ sent' = sent \cup {0}

\* Slip: the gap is measured from the stamp of the last request.
StampAndSendUngapped(t, recent) ==
    /\ stamps' = Append(recent, 0)
    /\ IF recent = << >> \/ recent[Len(recent)] >= MinGap THEN Send(t)
       ELSE /\ pc' = [pc EXCEPT ![t] = "gapSleep"]
            /\ nap' = MinGap - recent[Len(recent)]
            /\ UNCHANGED <<last, sent>>
    /\ UNCHANGED <<cooldown, nextBan>>

\* Below the cap: the request is stamped now, and sent after the gap.
StampAndSend(t, recent) ==
    /\ stamps' = Append(recent, 0)
    /\ IF last >= MinGap THEN Send(t)
       ELSE /\ pc' = [pc EXCEPT ![t] = "gapSleep"]
            /\ nap' = MinGap - last
            /\ UNCHANGED <<last, sent>>
    /\ UNCHANGED <<cooldown, nextBan>>

\* Slip: the caller sleeps however long it takes.
WaitForWindowForever(t, recent) ==
    /\ stamps' = recent
    /\ pc' = [pc EXCEPT ![t] = "capSleep"]
    /\ nap' = Window - recent[1]
    /\ UNCHANGED <<cooldown, nextBan, last, sent>>

\* At the cap: the caller sleeps until the oldest stamp leaves the window, or is
\* refused if that takes too long.
WaitForWindow(t, recent) ==
    LET wait == Window - recent[1]
    IN /\ stamps' = recent
       /\ IF wait > MaxSleep THEN pc' = [pc EXCEPT ![t] = "idle"] /\ nap' = 0
          ELSE pc' = [pc EXCEPT ![t] = "capSleep"] /\ nap' = wait
       /\ UNCHANGED <<cooldown, nextBan, last, sent>>

CheckCap(t) ==
    LET recent == Trim(stamps)
    IN IF Len(recent) < Cap THEN StampAndSend(t, recent) ELSE WaitForWindow(t, recent)

\* Slip: the ban is forgotten.
EnterBanned(t) == pc[t] = "queued" /\ LockFree /\ CheckCap(t)

\* request(): the lock is taken, and a banned host refused at once.
Enter(t) ==
    /\ pc[t] = "queued" /\ LockFree
    /\ IF cooldown > 0
       THEN /\ pc' = [pc EXCEPT ![t] = "idle"]
            /\ UNCHANGED <<nap, cooldown, nextBan, last, stamps, sent>>
       ELSE CheckCap(t)

\* Slip: after the sleep the window is not trimmed again.
CapWakeUntrimmed(t) ==
    /\ pc[t] = "capSleep" /\ nap = 0
    /\ IF Len(stamps) < Cap THEN StampAndSend(t, stamps) ELSE WaitForWindow(t, stamps)

\* After the sleep the clock is read and the window trimmed once more.
CapWake(t) == pc[t] = "capSleep" /\ nap = 0 /\ CheckCap(t)

GapWake(t) ==
    /\ pc[t] = "gapSleep" /\ nap = 0
    /\ Send(t)
    /\ UNCHANGED <<cooldown, nextBan, stamps>>

\* report_429: each 429 in a row doubles the ban, up to its maximum.
Respond429(t) ==
    /\ pc[t] = "inFlight"
    /\ pc' = [pc EXCEPT ![t] = "idle"]
    /\ cooldown' = nextBan
    /\ nextBan' = Least(2 * nextBan, MaxCooldown)
    /\ last' = 0
    /\ UNCHANGED <<nap, stamps, sent>>

\* report_success below 400; any other answer or a transport error reports
\* nothing.
Respond(t) ==
    /\ pc[t] = "inFlight"
    /\ pc' = [pc EXCEPT ![t] = "idle"]
    /\ nextBan' \in {Least(CooldownBase, MaxCooldown), nextBan}
    /\ UNCHANGED <<nap, cooldown, last, stamps, sent>>

\* is_saturated takes the lock and trims the window, too.
IsSaturated(t) ==
    /\ pc[t] = "idle" /\ LockFree
    /\ stamps' = Trim(stamps)
    /\ UNCHANGED <<pc, nap, cooldown, nextBan, last, sent>>

Tick ==
    /\ ~ \E t \in Threads : pc[t] \in Sleeping /\ nap = 0
    /\ nap' = Greatest(nap - 1, 0)
    /\ cooldown' = Greatest(cooldown - 1, 0)
    /\ last' = Least(last + 1, MinGap)
    /\ stamps' = [i \in 1 .. Len(stamps) |-> Least(stamps[i] + 1, Window)]
    /\ sent' = {age + 1 : age \in sent} \cap 0 .. (Window - 1)
    /\ UNCHANGED <<pc, nextBan>>

Next ==
    \/ \E t \in Threads :
          \/ Call(t) \/ Enter(t) \/ CapWake(t) \/ GapWake(t)
          \/ Respond429(t) \/ Respond(t) \/ IsSaturated(t)
    \/ Tick

Spec == Init /\ [][Next]_vars

\* Clocks advance, sleeps and HTTP requests end (addon_get passes a timeout),
\* and a thread that keeps asking for the lock gets it in the end.
Fairness ==
    /\ WF_vars(Tick)
    /\ \A t \in Threads :
          /\ WF_vars(CapWake(t)) /\ WF_vars(GapWake(t))
          /\ WF_vars(Respond(t) \/ Respond429(t))
          /\ SF_vars(Enter(t))

FairSpec == Spec /\ Fairness

----------------------------------------------------------------------------
Sends(t) == pc[t] # "inFlight" /\ pc'[t] = "inFlight"

\* "The maximum number of requests in any rolling window": although a request
\* is stamped before it sleeps for the gap, no window sees more than the cap.
WindowCap == Cardinality(sent) <= Cap

\* Two requests to the host are at least the gap apart, whichever threads send
\* them and whatever they slept for in between.
GapRespected ==
    [][\A t \in Threads : Sends(t) => \A age \in sent : age >= MinGap]_vars

\* A banned host is not asked, also by a thread that was already waiting for the
\* lock, the window or the gap when the 429 came.
CooldownRespected == [][\A t \in Threads : Sends(t) => cooldown = 0]_vars

\* No search thread is parked for ever: each call is refused or gets its answer.
CallEnds == \A t \in Threads : pc[t] = "queued" ~> pc[t] = "idle"
============================================================================
