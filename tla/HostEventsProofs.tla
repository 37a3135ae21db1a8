---------------------------- MODULE HostEventsProofs ---------------------------
(***************************************************************************)
(* Theorems about HostEvents, for any number of events and of faults.      *)
(***************************************************************************)
EXTENDS HostEvents, FiniteSetTheorems, SequenceTheorems, WellFoundedInduction, TLAPS

(* A thread on its way to read counts for one.                             *)
Counts(t) == IF pc[t] \in {"flush", "poll", "read"} THEN 1 ELSE 0

(* The readers, counted thread by thread.                                  *)
LEMMA ReadingCount == Cardinality(Reading) = Counts("main") + Counts("event")
<1>1. Reading = {} \/ Reading = {"main"} \/ Reading = {"event"} \/ Reading = {"main", "event"}
    BY DEF Reading, Thread
<1>2. /\ Cardinality({}) = 0 /\ Cardinality({"main"}) = 1 /\ Cardinality({"event"}) = 1
      /\ Cardinality({"main", "event"}) = 2
  <2>1. IsFiniteSet({"main"}) /\ Cardinality({"main"}) = 1 /\ Cardinality({"event"}) = 1
      BY FS_Singleton
  <2>2. {"main", "event"} = {"main"} \union {"event"} /\ "event" \notin {"main"}
      OBVIOUS
  <2>3. Cardinality({"main"} \union {"event"}) = Cardinality({"main"}) + 1
      BY <2>1, <2>2, FS_AddElement
  <2> QED
      BY <2>1, <2>2, <2>3, FS_EmptySet
<1>3. Reading = {} => Counts("main") = 0 /\ Counts("event") = 0
    BY DEF Reading, Thread, Counts
<1>4. Reading = {"main"} => Counts("main") = 1 /\ Counts("event") = 0
    BY DEF Reading, Thread, Counts
<1>5. Reading = {"event"} => Counts("main") = 0 /\ Counts("event") = 1
    BY DEF Reading, Thread, Counts
<1>6. Reading = {"main", "event"} => Counts("main") = 1 /\ Counts("event") = 1
    BY DEF Reading, Thread, Counts
<1> QED
    BY <1>1, <1>2, <1>3, <1>4, <1>5, <1>6

--------------------------------------------------------------------------------
(* The invariant.  A poll that was interrupted leaves its reader counted,  *)
(* so the count is of those on their way and of those lost; whoever goes   *)
(* to sleep leaves one behind that will wake it, and the last to read, or  *)
(* to cancel, wakes all.  Under X nobody uses libwayland.                  *)
Placed == pc \in [Thread -> Place] /\ lost \in Nat
Counted == winsys = "wayland" => reader_count = Counts("main") + Counts("event") + lost
NotAlone == \A t \in Thread : pc[t] = "wait" => Counts("main") + Counts("event") + lost > 0
OfX == winsys # "wayland" => pc["main"] = "out" /\ pc["event"] \in {"poll", "XPending", "next"}

Readers == Placed /\ Counted /\ NotAlone /\ OfX

(* At first no thread has asked to read.                                   *)
LEMMA ReadersInit == Init => Readers
<1> SUFFICES ASSUME Init PROVE Readers
    OBVIOUS
<1>1. CASE winsys = "wayland"
  <2>1. pc = [main |-> "prepare", event |-> "prepare"] /\ lost = 0 /\ reader_count = 0
      BY <1>1 DEF Init, FirstCall
  <2>2. pc["main"] = "prepare" /\ pc["event"] = "prepare"
      BY <2>1
  <2>3. pc \in [Thread -> Place]
    <3>1. pc = [t \in Thread |-> IF t = "main" THEN "prepare" ELSE "prepare"]
        BY <2>1 DEF Thread
    <3>2. "prepare" \in Place /\ "prepare" \in Place
        BY DEF Place
    <3> QED
        BY <3>1, <3>2
  <2> QED
      BY <1>1, <2>1, <2>2, <2>3 DEF Readers, Placed, Counted, NotAlone, OfX, Counts, Thread
<1>2. CASE winsys # "wayland"
  <2>1. pc = [main |-> "out", event |-> "poll"] /\ lost = 0
      BY <1>2 DEF Init
  <2>2. pc["main"] = "out" /\ pc["event"] = "poll"
      BY <2>1
  <2>3. pc \in [Thread -> Place]
    <3>1. pc = [t \in Thread |-> IF t = "main" THEN "out" ELSE "poll"]
        BY <2>1 DEF Thread
    <3>2. "out" \in Place /\ "poll" \in Place
        BY DEF Place
    <3> QED
        BY <3>1, <3>2
  <2> QED
      BY <1>2, <2>1, <2>2, <2>3 DEF Readers, Placed, Counted, NotAlone, OfX, Counts, Thread
<1> QED
    BY <1>1, <1>2

(* Where thread t goes by itself, and the readers are unchanged.           *)
LEMMA Moves ==
  ASSUME Readers, NEW t \in Thread, NEW to \in Place, Goto(t, to), UNCHANGED <<winsys, lost>>,
         \/ /\ winsys = "wayland" /\ to # "wait"
            /\ \/ pc[t] \in {"flush", "poll", "read"} /\ to \in {"flush", "poll", "read"}
                  /\ UNCHANGED reader_count
               \/ pc[t] \notin {"flush", "poll", "read"} /\ to \notin {"flush", "poll", "read"}
                  /\ UNCHANGED reader_count
               \/ pc[t] \notin {"flush", "poll", "read"} /\ to \in {"flush", "poll", "read"}
                  /\ reader_count' = reader_count + 1
         \/ winsys # "wayland" /\ t = "event" /\ to \in {"poll", "XPending", "next"}
  PROVE  Readers'
<1> USE DEF Readers, Goto, Counts, Thread
<1>1. /\ Placed' /\ pc'[t] = to /\ \A u \in Thread : u # t => pc'[u] = pc[u]
      /\ t = "main" \/ t = "event"
    BY DEF Placed
<1>2. Counted' /\ NotAlone' /\ OfX'
    BY <1>1 DEF Placed, Counted, NotAlone, OfX
<1> QED
    BY <1>1, <1>2

(* A step that moves no thread.                                            *)
LEMMA Stays == Readers /\ UNCHANGED <<winsys, reader_count, pc, lost>> => Readers'
BY DEF Readers, Placed, Counted, NotAlone, OfX, Counts

(* wl_display_read_events: a reader leaves, or the last one reads for all. *)
LEMMA ReadKeepsReaders ==
  ASSUME Readers, NEW t \in Thread, Read(t)
  PROVE  Readers'
<1>1. /\ pc[t] = "read" /\ reader_count' = reader_count - 1 /\ UNCHANGED <<winsys, lost>>
      /\ winsys = "wayland"
      /\ t = "main" \/ t = "event"
    BY DEF Read, configVars, Readers, OfX, Thread
<1>2. /\ ReadDone(t) \in Place \ {"wait", "flush", "poll", "read"}
      /\ \A u \in Thread : ReadDone(u) \in Place \ {"wait", "flush", "poll", "read"}
      /\ \A u \in Thread : ReadFailed(u) \in Place \ {"wait", "flush", "poll", "read"}
    BY DEF ReadDone, ReadFailed, DispatchPending, Place
<1>3. \/ reader_count = 1 /\ pc' = [u \in Thread |-> IF u = t \/ pc[u] = "wait" THEN ReadFailed(u)
                                                    ELSE pc[u]]
      \/ reader_count = 1 /\ pc' = [u \in Thread |-> IF u = t \/ pc[u] = "wait" THEN ReadDone(u)
                                                    ELSE pc[u]]
      \/ reader_count # 1 /\ pc' = [pc EXCEPT ![t] = ReadFailed(t)]
      \/ reader_count # 1 /\ pc' = [pc EXCEPT ![t] = "wait"]
  <2>1. reader_count \in Nat /\ reader_count >= 1
    <3>1. Counts(t) = 1 /\ Counts("main") \in {0, 1} /\ Counts("event") \in {0, 1}
        BY <1>1 DEF Counts
    <3> QED
        BY <1>1, <3>1 DEF Readers, Placed, Counted
  <2>2. reader_count > 1 <=> reader_count # 1
      BY <2>1
  <2>3. \/ reader_count = 1 /\ Woken(t, ReadFailed)
        \/ reader_count = 1 /\ Woken(t, ReadDone)
        \/ reader_count # 1 /\ Goto(t, ReadFailed(t))
        \/ reader_count # 1 /\ Goto(t, "wait")
      BY <2>2 DEF Read
  <2> QED
      BY <2>3 DEF Woken, Goto
<1>4. PICK u \in Thread : u # t /\ Thread = {t, u} /\ (t = "main" <=> u = "event")
    BY <1>1 DEF Thread
<1>5. /\ Counts(t) = 1 /\ Counts(u) \in {0, 1} /\ lost \in Nat
      /\ reader_count = 1 + Counts(u) + lost
      /\ Counts("main") + Counts("event") = Counts(t) + Counts(u)
      /\ Counts("main")' + Counts("event")' = Counts(t)' + Counts(u)'
  <2>1. Counts(t) = 1 /\ Counts(u) \in {0, 1} /\ Counts(t)' \in {0, 1} /\ Counts(u)' \in {0, 1}
      BY <1>1 DEF Counts
  <2>2. (t = "main" /\ u = "event") \/ (t = "event" /\ u = "main")
      BY <1>1, <1>4 DEF Thread
  <2>3. Counts("main") + Counts("event") = Counts(t) + Counts(u)
      BY <2>1, <2>2
  <2>4. Counts("main")' + Counts("event")' = Counts(t)' + Counts(u)'
      BY <2>1, <2>2
  <2> QED
      BY <1>1, <2>1, <2>3, <2>4 DEF Readers, Placed, Counted
<1>6. Placed'
    BY <1>1, <1>2, <1>3, <1>4 DEF Readers, Placed, Place
<1>7. pc'[t] \in Place \ {"flush", "poll", "read"} /\ Counts(t)' = 0
    BY <1>2, <1>3, <1>4 DEF Readers, Placed, Counts, Place
<1>8. Counts(u)' = Counts(u)
    BY <1>2, <1>3, <1>4 DEF Readers, Placed, Counts
<1>9. Counted'
    BY <1>1, <1>5, <1>7, <1>8 DEF Counted, Counts
<1>10. NotAlone'
  <2>1. CASE reader_count = 1
    <3>1. pc'[t] # "wait" /\ pc'[u] # "wait"
        BY <1>2, <1>3, <1>4, <2>1 DEF Readers, Placed
    <3> QED
        BY <1>4, <3>1 DEF NotAlone
  <2>2. CASE reader_count # 1
    <3>1. Counts(u)' + lost' > 0
        BY <1>1, <1>5, <1>8, <2>2
    <3> QED
        BY <1>1, <1>5, <1>7, <1>8, <3>1 DEF NotAlone
  <2> QED
      BY <2>1, <2>2
<1> QED
    BY <1>1, <1>6, <1>9, <1>10 DEF Readers, OfX

(* wl_display_cancel_read takes one reader off the count.                  *)
LEMMA CancelKeepsReaders ==
  ASSUME Readers, winsys = "wayland", pc["event"] = "poll", NEW place \in {"ended", "prepare"},
         Cancel(place), UNCHANGED <<winsys, lost>>
  PROVE  Readers'
<1>1. /\ reader_count' = reader_count - 1
      /\ pc' = [u \in Thread |-> IF u = "event" THEN place
                                 ELSE IF pc[u] = "wait" /\ reader_count = 1 THEN "pending"
                                 ELSE pc[u]]
    BY DEF Cancel, Cancelled, ReadDone, DispatchPending
<1>2. /\ Counts("event") = 1 /\ pc["main"] \in Place /\ lost \in Nat
      /\ reader_count = Counts("main") + 1 + lost
    BY DEF Readers, Placed, Counted, Counts, Thread
<1>3. /\ pc'["event"] = place
      /\ pc'["main"] = IF pc["main"] = "wait" /\ reader_count = 1 THEN "pending" ELSE pc["main"]
      /\ pc' \in [Thread -> Place]
    BY <1>1, <1>2 DEF Readers, Placed, Thread, Place
<1>4. Counts("event")' = 0 /\ Counts("main")' = Counts("main")
    BY <1>3 DEF Counts
<1>5. Counted'
    BY <1>1, <1>2, <1>4 DEF Counted, Counts
<1>6. NotAlone'
    BY <1>2, <1>3, <1>4 DEF NotAlone, Thread, Counts
<1> QED
    BY <1>2, <1>3, <1>5, <1>6 DEF Readers, Placed, OfX

(* The count of readers stays the number of threads that prepared to read. *)
LEMMA ReadersStep == Readers /\ [Next]_vars => Readers'
<1> SUFFICES ASSUME Readers, [Next]_vars PROVE Readers'
    OBVIOUS
<1> USE DEF configVars, libVars, windowVars, pastVars
<1>1. CASE Host
    BY <1>1, Stays DEF Host, Announce, Answer, HostInput, HostPing, HostHangsUp, HostOnly
<1>2. ASSUME NEW t \in Thread, Wayland(t) PROVE Readers'
  <2> USE DEF Readers, OfX, Thread
  <2>1. CASE Prepare(t)
    <3>1. winsys = "wayland" /\ pc[t] = "prepare" /\ UNCHANGED <<winsys, lost>>
        BY <2>1 DEF Prepare
    <3>2. CASE queue = <<>>
        BY <2>1, <3>1, <3>2, Moves DEF Prepare, Prepared, Place
    <3>3. CASE queue # <<>>
        BY <2>1, <3>1, <3>3, Moves DEF Prepare, Unprepared, DispatchPending, Place
    <3> QED
        BY <3>2, <3>3
  <2>2. CASE FlushForRead(t)
      BY <2>2, Moves DEF FlushForRead, Place
  <2>3. CASE Poll(t)
      BY <2>3, Moves DEF Poll, Place
  <2>4. CASE Read(t)
      BY <2>4, ReadKeepsReaders
  <2>5. CASE Take(t) \/ Handle(t) \/ Store(t) \/ Tell(t)
      BY <2>5, Stays DEF Take, Handle, Store, Tell
  <2>6. CASE DispatchEnds(t)
      BY <2>6, Moves DEF DispatchEnds, Dispatching, DispatchPending, Place, Flush
  <2> QED
      BY <1>2, <2>1, <2>2, <2>3, <2>4, <2>5, <2>6 DEF Wayland
<1>3. CASE PollInterrupted
  <2>1. /\ winsys = "wayland" /\ pc["event"] = "poll" /\ pc' = [pc EXCEPT !["event"] = "prepare"]
        /\ lost' = lost + 1 /\ UNCHANGED <<winsys, reader_count>>
      BY <1>3 DEF PollInterrupted, Goto, FaultOnly
  <2>2. /\ Counts("event") = 1 /\ Counts("event")' = 0 /\ Counts("main")' = Counts("main")
        /\ Counts("main") \in {0, 1} /\ lost \in Nat /\ Placed'
    <3>1. pc'["event"] = "prepare" /\ pc'["main"] = pc["main"] /\ pc' \in [Thread -> Place]
        BY <2>1 DEF Readers, Placed, Thread, Place
    <3>2. lost' \in Nat
        BY <2>1 DEF Readers, Placed
    <3> QED
        BY <2>1, <3>1, <3>2 DEF Readers, Placed, Counts
  <2>3. Counted' /\ NotAlone'
      BY <2>1, <2>2 DEF Readers, Counted, NotAlone
  <2> QED
      BY <2>1, <2>2, <2>3 DEF Readers, OfX
<1>4. CASE PollFails
    BY <1>4, CancelKeepsReaders DEF PollFails, FaultOnly
<1>5. CASE CreateWindow \/ SetFunction \/ ReadReply
    BY <1>5, Stays DEF CreateWindow, SetFunction, ReadReply, XOnly
<1>6. CASE Swap
    BY <1>6, Moves DEF Swap, DispatchPending, Place, Thread
<1>7. CASE XPoll \/ XPending \/ XNext \/ XcbDrained
    BY <1>7, Moves DEF XPoll, XPending, XNext, XcbDrained, XOnly, AfterOne, XcbAfterEvent, Place,
                       Thread
<1>8. CASE UNCHANGED vars
    BY <1>8, Stays DEF vars
<1> QED
    BY <1>1, <1>2, <1>3, <1>4, <1>5, <1>6, <1>7, <1>8 DEF Next

(* The readers are counted exactly, but for those that interrupted polls   *)
(* have lost, and no thread sleeps in wl_display_read_events without one.  *)
THEOREM SleepersAreWoken == Spec => []SleepersHaveReader
<1>1. Readers => SleepersHaveReader
  <2> SUFFICES ASSUME Readers PROVE SleepersHaveReader
      OBVIOUS
  <2>1. winsys = "wayland" => reader_count = Cardinality(Reading) + lost
      BY ReadingCount DEF Readers, Counted
  <2>2. Reading = {} => Counts("main") + Counts("event") = 0
      BY DEF Reading, Counts, Thread
  <2>3. ASSUME NEW t \in Thread, pc[t] = "wait" PROVE Reading # {} \/ lost > 0
      BY <2>2, <2>3 DEF Readers, NotAlone, Placed, Counts
  <2> QED
      BY <2>1, <2>3 DEF SleepersHaveReader
<1> QED
    BY <1>1, ReadersInit, ReadersStep, PTL DEF Spec

--------------------------------------------------------------------------------
(* Types.                                                                  *)
LEMMA EventFacts ==
  /\ Inputs \subseteq Event
  /\ \A kind \in Global \union {"capabilities", "ping"} : Plain(kind) \in Event
  /\ \A e \in Event : /\ e.n \in Nat /\ (e.n > 0 <=> e \in Inputs)
                      /\ e \in Inputs <=> e.kind \in Input
                      /\ e.n = 0 => e = Plain(e.kind) /\ e.kind \in Global \union {"capabilities", "ping"}
                      /\ e \in Inputs => e.n \in 1..MaxEvents
<1>1. ASSUME NEW e \in Inputs PROVE e.kind \in Input /\ e.n \in 1..MaxEvents /\ e.n \in Nat /\ e.n > 0
    BY DEF Inputs
<1>2. ASSUME NEW e \in [kind : Global \union {"capabilities", "ping"}, n : {0}]
      PROVE  /\ e.n = 0 /\ e.kind \notin Input /\ e \notin Inputs /\ e = Plain(e.kind)
             /\ e.kind \in Global \union {"capabilities", "ping"}
    BY <1>1 DEF Global, Input, Plain
<1>3. \A kind \in Global \union {"capabilities", "ping"} : Plain(kind) \in Event
    BY DEF Event, Plain
<1> QED
    BY <1>1, <1>2, <1>3 DEF Event

(* The registry is asked for once, and as long as the host has not         *)
(* announced all of its globals it owes the rest.                          *)
Asking == /\ "get_registry" \in received => announced < Len(Announcement)
          /\ "get_registry" \in unsent => announced = 0 /\ "get_registry" \notin received

(* What the host sends for a request.                                      *)
LEMMA Answers ==
  ASSUME TypeOK, Asking, Announce \/ \E r \in Request : Answer(r)
  PROVE  \E p \in Seq(Event) : wire' = wire \o p /\ \A i \in DOMAIN p : p[i].n = 0
<1>1. \A kind \in Global \union {"capabilities", "ping"} : Plain(kind) \in Event /\ Plain(kind).n = 0
    BY EventFacts DEF Plain
<1>2. wire \in Seq(Event) /\ announced \in 0..3
    BY DEF TypeOK
<1>3. ASSUME NEW kind \in Global \union {"capabilities"}, wire' = Append(wire, Plain(kind))
      PROVE  \E p \in Seq(Event) : wire' = wire \o p /\ \A i \in DOMAIN p : p[i].n = 0
  <2> DEFINE p == <<Plain(kind)>>
  <2>1. p \in Seq(Event) /\ \A i \in DOMAIN p : p[i].n = 0
      BY <1>1
  <2>2. wire' = wire \o p
      BY <1>1, <1>2, <1>3, AppendIsConcat
  <2> QED
      BY <2>1, <2>2
<1>4. CASE Announce
  <2>1. announced \in {0, 1, 2} /\ Announcement[announced + 1] \in Global
      BY <1>2, <1>4 DEF Announce, Asking, Announcement, Global
  <2> QED
      BY <1>3, <1>4, <2>1 DEF Announce
<1>5. CASE wire' = wire
  <2>1. wire' = wire \o <<>> /\ <<>> \in Seq(Event) /\ DOMAIN <<>> = {}
      BY <1>2, <1>5, EmptySeq
  <2> QED
      BY <2>1
<1>6. ASSUME NEW r \in Request, Answer(r)
      PROVE  wire' = Append(wire, Plain("capabilities")) \/ wire' = wire
    BY <1>6 DEF Answer
<1> QED
    BY <1>3, <1>4, <1>5, <1>6

(* The first event of a queue, and the rest.                               *)
LEMMA FrontOfSeq ==
  ASSUME NEW S, NEW q \in Seq(S), q # <<>>
  PROVE  /\ Len(q) \in Nat /\ Len(q) > 0 /\ q[1] \in S /\ Head(q) = q[1] /\ Head(q) \in S
         /\ Tail(q) \in Seq(S) /\ Len(Tail(q)) = Len(q) - 1
         /\ \A i \in 1..(Len(q) - 1) : Tail(q)[i] = q[i + 1]
<1>1. Len(q) \in Nat /\ Len(q) > 0
    BY LenProperties, EmptySeq
<1>2. q[1] \in S
    BY <1>1, ElementOfSeq
<1>3. Head(q) = q[1]
    BY <1>1
<1> QED
    BY <1>1, <1>2, <1>3, HeadTailProperties

(* An input event of the host is one of the numbered ones.                 *)
LEMMA Inputted ==
  ASSUME TypeOK, HostInput
  PROVE  /\ Len(sent) \in Nat /\ Len(sent) < MaxEvents
         /\ \E e \in Inputs : /\ e \in Event /\ e.n = Len(sent) + 1
                              /\ wire' = Append(wire, e) /\ sent' = Append(sent, e)
                              /\ winsys # "wayland" => e.kind \in {"motion", "button", "key"}
                              /\ winsys = "wayland" /\ ~Entered => e.kind \in {"enter", "key"}
<1>1. PICK kind \in IF winsys # "wayland" THEN {"motion", "button", "key"}
                    ELSE IF Entered THEN {"motion", "button", "leave", "key"} ELSE {"enter", "key"} :
             LET e == [kind |-> kind, n |-> Len(sent) + 1]
             IN wire' = Append(wire, e) /\ sent' = Append(sent, e)
    BY DEF HostInput
<1> DEFINE e == [kind |-> kind, n |-> Len(sent) + 1]
<1>2. kind \in Input
    BY DEF Input
<1>3. Len(sent) \in Nat /\ Len(sent) < MaxEvents
    BY LenProperties, BoundsAssumption DEF HostInput, Unprompted, TypeOK
<1>4. e \in Inputs /\ e \in Event
    BY <1>2, <1>3, BoundsAssumption, EventFacts DEF Inputs
<1>5. e.n = Len(sent) + 1 /\ e.kind = kind /\ wire' = Append(wire, e) /\ sent' = Append(sent, e)
    BY <1>1
<1> HIDE DEF e
<1> QED
    BY <1>1, <1>3, <1>4, <1>5

(* What a step does with the two sequences.                                *)
Moved ==
  \/ UNCHANGED <<wire, queue>>
  \/ queue' = queue \o wire /\ wire' = <<>>
  \/ queue # <<>> /\ queue' = Tail(queue) /\ wire' = wire
  \/ queue \o wire # <<>> /\ queue' = Tail(queue \o wire) /\ wire' = <<>>

(* What a thread reads or hands over stays a list of events.               *)
LEMMA MovedTypes ==
  ASSUME NEW S, wire \in Seq(S), queue \in Seq(S), Moved
  PROVE  wire' \in Seq(S) /\ queue' \in Seq(S)
<1>1. <<>> \in Seq(S) /\ queue \o wire \in Seq(S)
    BY EmptySeq, ConcatProperties
<1>2. /\ queue # <<>> => Tail(queue) \in Seq(S)
      /\ queue \o wire # <<>> => Tail(queue \o wire) \in Seq(S)
    BY <1>1, FrontOfSeq
<1> QED
    BY <1>1, <1>2 DEF Moved

(* The numbers of events are numbers.                                      *)
LEMMA NumbersAre == \A q \in Seq(Event) : Numbers(q) \subseteq Nat
<1> SUFFICES ASSUME NEW q \in Seq(Event), NEW i \in DOMAIN q PROVE q[i].n \in Nat
    BY DEF Numbers
<1>1. q[i] \in Event
    BY ElementOfSeq, LenProperties
<1> QED
    BY <1>1, EventFacts

(* Reading puts what is on the wire behind what is in the queue.           *)
LEMMA ReadMoves ==
  ASSUME NEW t \in Thread, Read(t)
  PROVE  \/ UNCHANGED <<wire, frame, queue>>
         \/ queue' = queue \o wire /\ wire' = <<>> /\ frame' = FALSE
  BY DEF Read

(* Under X there is nothing but input, and no use of libwayland.           *)
XInputs == [kind : {"motion", "button", "key"}, n : 1..MaxEvents]
XPlain ==
  winsys # "wayland" =>
    /\ wire \in Seq(XInputs) /\ queue \in Seq(XInputs) /\ sent \in Seq(XInputs)
    /\ received = {} /\ unsent = {} /\ \A t \in Thread : handling[t] = <<>>

(* An interrupted poll is a fault, too.                                    *)
TypeInv == TypeOK /\ lost <= faults /\ XPlain /\ Asking

(* The types hold at first.                                                *)
LEMMA TypeInit == Init => TypeInv
<1> SUFFICES ASSUME Init PROVE TypeInv
    OBVIOUS
<1>1. pc \in [Thread -> Place]
    BY ReadersInit DEF Readers, Placed
<1>2. /\ frame \in BOOLEAN /\ gone \in BOOLEAN /\ last_error \in BOOLEAN /\ seated \in BOOLEAN
  <2>1. frame = FALSE /\ gone = FALSE /\ last_error = FALSE /\ seated = FALSE
      BY DEF Init
  <2> QED
      BY ONLY <2>1, Zenon
<1>11. reader_count \in Nat /\ announced \in 0..3
    BY DEF Init
<1>10. granted \in BOOLEAN
  <2>1. granted = (winsys # "wayland")
      BY DEF Init
  <2> QED
      BY ONLY <2>1, Zenon
<1>8. /\ received \subseteq Request /\ functions \subseteq Function /\ strayed \subseteq Nat
      /\ bound \subseteq Global /\ odd \subseteq Oddity
    BY DEF Init
<1>9. /\ phase \in {"display", "window", "serve", "failed"} /\ ping \in {"none", "sent", "answered"}
    BY DEF Init
<1>7. /\ winsys \in {"wayland", "x11", "xcb"} /\ vsync \in BOOLEAN /\ unsent \subseteq Request
    BY DEF Init, Request
<1>3. faults \in 0..MaxFaults /\ lost \in 0..MaxFaults /\ lost <= faults /\ early \in 0..MaxEvents
    BY BoundsAssumption DEF Init
<1>4. /\ wire \in Seq(Event) /\ queue \in Seq(Event) /\ handling \in [Thread -> Seq(Event)]
      /\ sent \in Seq(Inputs) /\ told \in Seq((1..MaxEvents) \X (Int \X Int))
    BY EmptySeq DEF Init
<1>5. cur_pointer \in Int \X Int
    BY DEF Init, Unplaced
<1>6. XPlain /\ Asking
    BY EmptySeq DEF Init, XPlain, Asking, Announcement
<1> QED
    BY <1>1, <1>2, <1>3, <1>4, <1>5, <1>6, <1>7, <1>8, <1>9, <1>10, <1>11 DEF TypeInv, TypeOK

(* The window system and the interval of its swaps never change.           *)
LEMMA ConfigStays == [Next]_vars => UNCHANGED configVars
  BY DEF Next, Host, Announce, Answer, HostInput, HostPing, HostHangsUp, HostOnly, Wayland, Prepare,
         FlushForRead, Poll, Read, Take, Handle, Store, Tell, DispatchEnds, PollInterrupted,
         PollFails, FaultOnly, CreateWindow, SetFunction, Swap, ReadReply, XPoll, XPending,
         XNext, XcbDrained, XOnly, vars

(* Under X11 and XCB there is nothing but input, as XPlain says.           *)
LEMMA XStep == TypeInv /\ Readers /\ [Next]_vars => XPlain'
<1> SUFFICES ASSUME TypeInv, Readers, [Next]_vars PROVE XPlain'
    OBVIOUS
<1> SUFFICES ASSUME winsys # "wayland"
             PROVE  /\ wire' \in Seq(XInputs) /\ queue' \in Seq(XInputs) /\ sent' \in Seq(XInputs)
                    /\ received' = {} /\ unsent' = {}
                    /\ \A t \in Thread : handling'[t] = <<>>
  <2>1. winsys' = winsys
      BY ConfigStays DEF configVars
  <2> QED
      BY <2>1 DEF XPlain
<1> USE DEF configVars, hostVars, libVars, windowVars, pastVars
<1>1. /\ wire \in Seq(XInputs) /\ queue \in Seq(XInputs) /\ sent \in Seq(XInputs)
      /\ received = {} /\ unsent = {} /\ \A t \in Thread : handling[t] = <<>>
      /\ pc["main"] = "out" /\ pc["event"] \in {"poll", "XPending", "next"} /\ Thread = {"main", "event"}
    BY DEF TypeInv, XPlain, Readers, OfX, Thread
<1>2. CASE Host
  <2>1. CASE HostInput
    <3>1. PICK e \in Inputs : /\ wire' = Append(wire, e) /\ sent' = Append(sent, e)
                             /\ e.kind \in {"motion", "button", "key"}
        BY <2>1, Inputted DEF TypeInv
    <3>2. e \in XInputs
        BY <3>1 DEF Inputs, XInputs
    <3>4. wire' \in Seq(XInputs) /\ sent' \in Seq(XInputs)
        BY <1>1, <3>1, <3>2, AppendProperties
    <3> QED
        BY <1>1, <2>1, <3>4 DEF HostInput, HostOnly
  <2> QED
      BY <1>1, <1>2, <2>1 DEF Host, Announce, Answer, HostPing, HostHangsUp
<1>3. ASSUME NEW t \in Thread PROVE ~Wayland(t)
    BY <1>1 DEF Wayland, Prepare, FlushForRead, Poll, Read, Take, Handle, Store, Tell, DispatchEnds,
                InHand, Dispatching, DispatchPending
<1>4. CASE ReadReply \/ XPoll \/ XPending \/ XNext \/ XcbDrained
  <2>1. Moved
      BY <1>4 DEF Moved, ReadReply, XPoll, XPending, XNext, XcbDrained, Reads
  <2>2. queue' \in Seq(XInputs) /\ wire' \in Seq(XInputs)
      BY <1>1, <2>1, MovedTypes
  <2> QED
      BY <1>1, <1>4, <2>2 DEF ReadReply, XPoll, XPending, XNext, XcbDrained, XOnly
<1>5. CASE PollInterrupted \/ PollFails \/ CreateWindow \/ SetFunction \/ Swap
    BY <1>1, <1>5 DEF PollInterrupted, PollFails, CreateWindow, SetFunction, Swap
<1>6. CASE UNCHANGED vars
    BY <1>1, <1>6 DEF vars
<1> QED
    BY <1>2, <1>3, <1>4, <1>5, <1>6 DEF Next

(* No other request is the registry's.                                     *)
LEMMA AskingStep == TypeInv /\ [Next]_vars => Asking'
<1> SUFFICES ASSUME TypeInv, [Next]_vars PROVE Asking'
    OBVIOUS
<1> USE DEF configVars, hostVars, libVars, windowVars, pastVars
<1>1. Asking /\ announced \in 0..3 /\ Len(Announcement) = 3
    BY DEF TypeInv, TypeOK, Announcement
<1>2. CASE UNCHANGED <<announced, received, unsent>>
    BY <1>1, <1>2 DEF Asking
<1>3. CASE UNCHANGED announced /\ Flush
    BY <1>1, <1>3 DEF Asking, Flush
<1>4. CASE Announce
    BY <1>1, <1>4 DEF Asking, Announce, HostOnly
<1>5. ASSUME NEW r \in Request, Answer(r) PROVE Asking'
    BY <1>1, <1>5 DEF Asking, Answer, HostOnly
<1>6. ASSUME NEW t \in Thread, Handle(t) PROVE Asking'
  <2>1. UNCHANGED <<announced, received>> /\ ("get_registry" \in unsent' => "get_registry" \in unsent)
      BY <1>6 DEF Handle
  <2> QED
      BY <1>1, <2>1 DEF Asking
<1>7. CASE CreateWindow \/ Swap
    BY <1>1, <1>7 DEF Asking, CreateWindow, Swap
<1>8. CASE HostInput \/ HostPing \/ HostHangsUp
    BY <1>2, <1>8 DEF HostInput, HostPing, HostHangsUp, HostOnly
<1>9. ASSUME NEW t \in Thread, Wayland(t) PROVE Asking'
  <2>1. CASE DispatchEnds(t)
      BY <1>2, <1>3, <2>1 DEF DispatchEnds
  <2>2. CASE FlushForRead(t)
      BY <1>3, <2>2 DEF FlushForRead
  <2>3. CASE Prepare(t) \/ Poll(t) \/ Read(t) \/ Take(t) \/ Store(t) \/ Tell(t)
      BY <1>2, <2>3 DEF Prepare, Poll, Read, Take, Store, Tell
  <2> QED
      BY <1>6, <1>9, <2>1, <2>2, <2>3 DEF Wayland
<1>10. CASE PollInterrupted \/ PollFails \/ SetFunction
    BY <1>2, <1>10 DEF PollInterrupted, PollFails, FaultOnly, SetFunction
<1>11. CASE ReadReply \/ XPoll \/ XPending \/ XNext \/ XcbDrained
    BY <1>2, <1>11 DEF ReadReply, XPoll, XPending, XNext, XcbDrained, XOnly
<1>12. CASE UNCHANGED vars
    BY <1>2, <1>12 DEF vars
<1> QED
    BY <1>4, <1>5, <1>7, <1>8, <1>9, <1>10, <1>11, <1>12 DEF Next, Host

(* Every step keeps the types.                                             *)
LEMMA TypeStep == TypeInv /\ Readers /\ [Next]_vars => TypeInv'
<1> SUFFICES ASSUME TypeInv, Readers, [Next]_vars PROVE TypeOK' /\ (lost <= faults)'
    BY XStep, AskingStep DEF TypeInv
<1> USE DEF configVars, hostVars, libVars, windowVars, pastVars
<1>0. Readers' /\ TypeOK /\ Asking
    BY ReadersStep DEF TypeInv
<1>1. pc' \in [Thread -> Place] /\ lost' \in Nat /\ lost \in Nat
    BY <1>0 DEF Readers, Placed
<1>a. CASE Host
  <2>1. ASSUME NEW r \in Request, Answer(r) PROVE TypeOK' /\ (lost <= faults)'
    <3>1. PICK p \in Seq(Event) : wire' = wire \o p
        BY <1>0, <2>1, Answers
    <3>2. wire' \in Seq(Event)
        BY <1>0, <3>1, ConcatProperties DEF TypeOK
    <3> QED
        BY <1>0, <1>1, <2>1, <3>2 DEF Answer, HostOnly, TypeInv, TypeOK
  <2>0. CASE Announce
    <3>1. PICK p \in Seq(Event) : wire' = wire \o p
        BY <1>0, <2>0, Answers
    <3>2. wire' \in Seq(Event)
        BY <1>0, <3>1, ConcatProperties DEF TypeOK
    <3>3. announced' \in 0..3
        BY <1>0, <2>0 DEF Announce, Asking, Announcement, TypeOK
    <3>4. received' \subseteq Request
        BY <1>0, <2>0 DEF Announce, TypeOK
    <3> QED
        BY <1>0, <1>1, <2>0, <3>2, <3>3, <3>4 DEF Announce, HostOnly, TypeInv, TypeOK
  <2>2. CASE HostInput
    <3>1. PICK e \in Inputs : e \in Event /\ wire' = Append(wire, e) /\ sent' = Append(sent, e)
        BY <1>0, <2>2, Inputted
    <3>4. wire' \in Seq(Event) /\ sent' \in Seq(Inputs)
        BY <1>0, <3>1, AppendProperties DEF TypeOK
    <3>5. early' \in 0..MaxEvents
      <4>1. /\ Len(sent) \in Nat /\ Len(sent) < MaxEvents /\ Len(sent') = Len(sent) + 1
            /\ early \in 0..MaxEvents
          BY <1>0, <2>2, <3>1, Inputted, AppendProperties DEF TypeOK
      <4> QED
          BY <2>2, <4>1, BoundsAssumption DEF HostInput
    <3> QED
        BY <1>0, <1>1, <2>2, <3>4, <3>5 DEF HostInput, HostOnly, TypeInv, TypeOK
  <2>3. CASE HostPing
    <3>1. wire' \in Seq(Event)
        BY <1>0, <2>3, EventFacts, AppendProperties DEF HostPing, TypeOK
    <3> QED
        BY <1>0, <1>1, <2>3, <3>1 DEF HostPing, HostOnly, TypeInv, TypeOK
  <2>4. CASE HostHangsUp
    <3>1. faults' \in 0..MaxFaults /\ lost' \in 0..MaxFaults /\ lost' <= faults'
        BY <1>0, <2>4, BoundsAssumption DEF HostHangsUp, HostOnly, TypeInv, TypeOK
    <3> QED
        BY <1>0, <1>1, <2>4, <3>1 DEF HostHangsUp, HostOnly, TypeInv, TypeOK
  <2> QED
      BY <1>a, <2>0, <2>1, <2>2, <2>3, <2>4 DEF Host
<1>b. ASSUME NEW t \in Thread, Wayland(t) PROVE TypeOK' /\ (lost <= faults)'
  <2> USE <1>0, <1>1 DEF TypeInv, TypeOK
  <2>1. CASE Prepare(t)
      BY <2>1 DEF Prepare
  <2>2. CASE FlushForRead(t)
      BY <2>2 DEF FlushForRead, Flush
  <2>3. CASE Poll(t)
      BY <2>3 DEF Poll
  <2>4. CASE Read(t)
    <3>1. reader_count' \in Nat
      <4>1. /\ pc[t] = "read" /\ winsys = "wayland" /\ reader_count' = reader_count - 1
            /\ t = "main" \/ t = "event"
          BY <2>4 DEF Read, Readers, OfX, Thread
      <4>2. Counts(t) = 1 /\ Counts("main") \in {0, 1} /\ Counts("event") \in {0, 1}
          BY <4>1 DEF Counts
      <4>3. reader_count = Counts("main") + Counts("event") + lost /\ lost \in Nat
          BY <4>1 DEF Readers, Counted
      <4>4. CASE t = "main"
          BY ONLY <4>1, <4>2, <4>3, <4>4
      <4>5. CASE t = "event"
          BY ONLY <4>1, <4>2, <4>3, <4>5
      <4> QED
          BY ONLY <4>1, <4>4, <4>5
    <3>2. queue' \in Seq(Event) /\ wire' \in Seq(Event)
      <4>1. Moved
          BY <2>4, ReadMoves DEF Moved
      <4> QED
          BY <4>1, MovedTypes
    <3>3. odd' \subseteq Oddity
        BY <2>4 DEF Read, Oddity
    <3>4. frame' \in BOOLEAN /\ last_error' \in BOOLEAN
        BY <2>4 DEF Read
    <3>5. UNCHANGED <<configVars, received, announced, granted, gone, unsent, handling, windowVars,
                      sent, early, told, ping, faults, lost, strayed>>
        BY <2>4 DEF Read
    <3> QED
        BY <3>1, <3>2, <3>3, <3>4, <3>5
  <2>5. CASE Take(t)
    <3>1. Head(queue) \in Event /\ Tail(queue) \in Seq(Event)
        BY <2>5, FrontOfSeq DEF Take
    <3>2. handling' \in [Thread -> Seq(Event)] /\ queue' \in Seq(Event)
        BY <2>5, <3>1 DEF Take
    <3>3. odd' \subseteq Oddity
        BY <2>5 DEF Take, Oddity
    <3> QED
        BY <2>5, <3>2, <3>3 DEF Take
  <2>6. CASE Handle(t)
    <3>1. handling' \in [Thread -> Seq(Event)]
        BY <2>6, EmptySeq DEF Handle, Handled
    <3>2. bound' \subseteq Global /\ unsent' \subseteq Request /\ seated' \in BOOLEAN
        BY <2>6 DEF Handle, Request
    <3> QED
        BY <2>6, <3>1, <3>2 DEF Handle
  <2>7. CASE Store(t)
    <3>1. handling[t] \in Seq(Event) /\ handling[t] # <<>> /\ Len(handling[t]) < 3
        BY <2>7 DEF Store, InHand
    <3>2. Len(handling[t]) \in {1, 2} /\ handling[t][1] \in Event
      <4>1. Len(handling[t]) \in Nat /\ Len(handling[t]) > 0 /\ handling[t][1] \in Event
          BY <3>1, FrontOfSeq
      <4>2. \A n \in Nat : n > 0 /\ n < 3 => n \in {1, 2}
          OBVIOUS
      <4> QED
          BY <3>1, <4>1, <4>2
    <3>3. handling' \in [Thread -> Seq(Event)]
      <4>1. Append(handling[t], handling[t][1]) \in Seq(Event)
          BY <3>1, <3>2, AppendProperties
      <4> QED
          BY <2>7, <4>1 DEF Store
    <3>4. cur_pointer' \in Int \X Int
      <4>1. handling[t][1].n \in Int
          BY <3>2, EventFacts
      <4>2. KeptAt(handling[t][1]) \in Int \X Int
          BY <4>1, BoundsAssumption DEF KeptAt, Point
      <4>3. cur_pointer' = [cur_pointer EXCEPT ![Len(handling[t])] = KeptAt(handling[t][1])[Len(handling[t])]]
          BY <2>7 DEF Store
      <4>4. cur_pointer \in Int \X Int
          OBVIOUS
      <4> HIDE DEF TypeInv, TypeOK
      <4> QED
          BY ONLY <3>2, <4>2, <4>3, <4>4
    <3> QED
        BY <2>7, <3>3, <3>4 DEF Store
  <2>8. CASE Tell(t)
    <3> DEFINE e == handling[t][1]
               where == CASE ~IsSet(e.kind) -> Untold
                          [] IsSet(e.kind) /\ e.kind = "leave" -> Outside
                          [] IsSet(e.kind) /\ e.kind = "key" -> Unplaced
                          [] OTHER -> cur_pointer
    <3>1. handling[t] \in Seq(Event) /\ handling[t] # <<>> /\ e.kind \in Input
        BY <2>8 DEF Tell, InHand
    <3>2. e \in Event /\ e.n \in 1..MaxEvents
      <4>1. e \in Event
          BY <3>1, FrontOfSeq
      <4> QED
          BY <3>1, <4>1, EventFacts
    <3>3. where \in Int \X Int
        BY DEF Outside, Unplaced, Untold
    <3>4. told' = Append(told, <<e.n, where>>)
        BY <2>8 DEF Tell
    <3> HIDE DEF e, where
    <3>5. told' \in Seq((1..MaxEvents) \X (Int \X Int))
        BY <3>2, <3>3, <3>4, AppendProperties
    <3>6. handling' \in [Thread -> Seq(Event)]
        BY <2>8, EmptySeq DEF Tell, Handled
    <3> QED
        BY <2>8, <3>5, <3>6 DEF Tell
  <2>9. CASE DispatchEnds(t)
    <3>1. received' \subseteq Request /\ unsent' \subseteq Request
        BY <2>9 DEF DispatchEnds, Flush
    <3>2. UNCHANGED <<configVars, announced, granted, gone, frame, wire, queue, reader_count,
                      last_error, handling, windowVars, pastVars>>
        BY <2>9 DEF DispatchEnds
    <3> QED
        BY <3>1, <3>2
  <2> QED
      BY <1>b, <2>1, <2>2, <2>3, <2>4, <2>5, <2>6, <2>7, <2>8, <2>9 DEF Wayland
<1>c. CASE PollInterrupted \/ PollFails
  <2>1. /\ faults' \in 0..MaxFaults /\ lost' \in 0..MaxFaults /\ lost' <= faults'
        /\ reader_count' \in Nat
    <3>1. faults < MaxFaults /\ faults' = faults + 1 /\ lost' \in {lost, lost + 1}
        BY <1>c DEF PollInterrupted, PollFails, Fault
    <3>2. faults' \in 0..MaxFaults /\ lost' \in 0..MaxFaults /\ lost' <= faults'
        BY <1>0, <1>1, <3>1, BoundsAssumption DEF TypeInv, TypeOK
    <3>3. reader_count' \in Nat
      <4>1. /\ winsys = "wayland" /\ pc["event"] = "poll" /\ UNCHANGED winsys
            /\ reader_count' = reader_count \/ reader_count' = reader_count - 1
          BY <1>c DEF PollInterrupted, PollFails, Cancel, Cancelled, FaultOnly
      <4>2. Counts("event") = 1 /\ Counts("main") \in {0, 1}
          BY <4>1 DEF Counts
      <4> QED
          BY <1>1, <4>1, <4>2 DEF Readers, Counted
    <3> QED
        BY <3>2, <3>3
  <2>2. FaultOnly
      BY <1>c DEF PollInterrupted, PollFails
  <2> QED
      BY <1>0, <1>1, <2>1, <2>2 DEF FaultOnly, TypeInv, TypeOK
<1>d. CASE CreateWindow \/ SetFunction
  <2>1. CASE CreateWindow
      BY <1>0, <1>1, <2>1 DEF CreateWindow, Request, TypeInv, TypeOK
  <2>2. CASE SetFunction
    <3>1. functions' \subseteq Function /\ phase' \in {"display", "window", "serve", "failed"}
        BY <1>0, <2>2 DEF SetFunction, Function, TypeOK
    <3> QED
        BY <1>0, <1>1, <2>2, <3>1 DEF SetFunction, TypeInv, TypeOK
  <2> QED
      BY <1>d, <2>1, <2>2
<1>e. CASE Swap
    BY <1>0, <1>1, <1>e DEF Swap, Request, TypeInv, TypeOK
<1>f. CASE ReadReply \/ XPoll \/ XPending
  <2>1. queue' \in Seq(Event) /\ wire' \in Seq(Event) /\ strayed' \subseteq Nat
    <3>1. Moved
        BY <1>f DEF ReadReply, XPoll, XPending, Reads, Moved
    <3>2. strayed' \subseteq Nat
      <4>1. Numbers(wire) \subseteq Nat
          BY <1>0, NumbersAre DEF TypeOK
      <4>2. wire # <<>> => Numbers(Tail(wire)) \subseteq Nat
          BY <1>0, NumbersAre, FrontOfSeq DEF TypeOK
      <4> QED
          BY <1>0, <1>f, <4>1, <4>2 DEF ReadReply, XPoll, XPending, TypeOK
    <3> QED
        BY <1>0, <3>1, <3>2, MovedTypes DEF TypeOK
  <2>2. CASE ReadReply
      BY <1>0, <1>1, <2>1, <2>2 DEF ReadReply, XOnly, TypeInv, TypeOK
  <2>3. CASE XPoll
      BY <1>0, <1>1, <2>1, <2>3 DEF XPoll, XOnly, TypeInv, TypeOK
  <2>4. CASE XPending
      BY <1>0, <1>1, <2>1, <2>4 DEF XPending, XOnly, TypeInv, TypeOK
  <2> QED
      BY <1>f, <2>2, <2>3, <2>4
<1>g. CASE XNext
  <2> DEFINE e == Head(queue \o wire)
             where == CASE ~IsSet(e.kind) -> Untold
                        [] IsSet(e.kind) /\ e.kind = "key" -> Unplaced
                        [] OTHER -> Point(e.n)
  <2>1. queue \in Seq(XInputs) /\ wire \in Seq(XInputs) /\ queue \o wire # <<>>
      BY <1>g DEF XNext, TypeInv, XPlain
  <2>2. queue \o wire \in Seq(XInputs) /\ queue \o wire # <<>>
      BY <2>1, ConcatProperties
  <2>3. e \in XInputs
      BY <2>2, FrontOfSeq
  <2>4. e.n \in 1..MaxEvents /\ where \in Int \X Int
    <3> HIDE DEF e
    <3>1. e.n \in 1..MaxEvents /\ e.n \in Int /\ e.n + MaxEvents \in Int
        BY <2>3, BoundsAssumption DEF XInputs
    <3> QED
        BY <3>1 DEF Unplaced, Untold, Point
  <2>5. told' = Append(told, <<e.n, where>>)
      BY <1>g DEF XNext
  <2> HIDE DEF e, where
  <2>6. told' \in Seq((1..MaxEvents) \X (Int \X Int))
      BY <1>0, <2>4, <2>5, AppendProperties DEF TypeOK
  <2>7. queue' \in Seq(Event) /\ wire' \in Seq(Event) /\ strayed' \subseteq Nat
    <3>1. Moved
        BY <1>g DEF XNext, Moved
    <3>2. strayed' \subseteq Nat
      <4>1. Numbers(wire) \subseteq Nat
          BY <1>0, NumbersAre DEF TypeOK
      <4> QED
          BY <1>0, <1>g, <4>1 DEF XNext, TypeOK
    <3> QED
        BY <1>0, <3>1, <3>2, MovedTypes DEF TypeOK
  <2> QED
      BY <1>0, <1>1, <1>g, <2>6, <2>7 DEF XNext, XOnly, TypeInv, TypeOK
<1>h. CASE XcbDrained
    BY <1>0, <1>1, <1>h DEF XcbDrained, XOnly, TypeInv, TypeOK
<1>i. CASE UNCHANGED vars
    BY <1>0, <1>i DEF vars, TypeInv, TypeOK
<1> QED
    BY <1>a, <1>b, <1>c, <1>d, <1>e, <1>f, <1>g, <1>h, <1>i DEF Next

(* Every variable keeps its type.                                          *)
THEOREM TypeCorrect == Spec => []TypeOK
<1>1. TypeInv => TypeOK
    BY DEF TypeInv
<1> QED
    BY <1>1, TypeInit, TypeStep, ReadersInit, ReadersStep, PTL DEF Spec

--------------------------------------------------------------------------------
(* As long as poll does not fail nothing is lost: who is about to read     *)
(* finds something.                                                        *)
Sound ==
  faults = 0 => /\ ~gone /\ ~last_error
                /\ \A t \in Thread : pc[t] = "read" => wire # <<>> \/ frame

(* The way of the two globals: the registry is asked for them; the host    *)
(* announces one after the other, and nobody dispatches before someone has *)
(* read what is on the wire; then each is in the queue or in hand until it *)
(* is bound, and the main thread does not stop dispatching before, but for *)
(* those that such a read has cut off.                                     *)
Announced == {"wl_compositor", "wl_shell"}

Idle(places) == /\ queue = <<>>
                /\ \A t \in Thread : handling[t] = <<>> /\ pc[t] \in places
Unasked == /\ received \union unsent = {"get_registry"} /\ announced = 0 /\ ~frame /\ wire = <<>>
           /\ Idle({"prepare", "flush", "poll"})
OnWire == /\ announced > 0 /\ (announced < Len(Announcement) => "get_registry" \in received)
          /\ \A g \in Announced : Has(wire, g) \/ ToCome(g)
          /\ Idle({"prepare", "flush", "poll", "read", "wait"})
OnWay == \A g \in Announced :
           \/ g \in bound \/ handling["event"] = <<Plain(g)>>
           \/ pc["main"] # "out" /\ (handling["main"] = <<Plain(g)>> \/ Has(queue, g))
           \/ "cut" \in odd /\ UnderWay(g)

Registered == winsys = "wayland" /\ phase = "display" /\ faults = 0 => Unasked \/ OnWire \/ OnWay

GlobalsInv == Sound /\ Registered

(* At first nobody has asked for the registry.                             *)
LEMMA GlobalsInit == Init => GlobalsInv
<1> SUFFICES ASSUME Init PROVE GlobalsInv
    OBVIOUS
<1>1. /\ winsys = "wayland" => pc = [main |-> "prepare", event |-> "prepare"]
      /\ winsys # "wayland" => pc = [main |-> "out", event |-> "poll"]
      /\ ~gone /\ ~last_error
    BY DEF Init, FirstCall
<1>2. Sound
    BY <1>1 DEF Sound, Thread
<1>3. CASE winsys = "wayland"
  <2>1. \A t \in Thread : pc[t] = "prepare" /\ handling[t] = <<>>
      BY <1>1, <1>3 DEF Init, Thread
  <2>2. Unasked
      BY <1>3, <2>1 DEF Init, Unasked, Idle
  <2> QED
      BY <1>2, <2>2 DEF GlobalsInv, Registered
<1>4. CASE winsys # "wayland"
    BY <1>2, <1>4 DEF Init, GlobalsInv, Registered
<1> QED
    BY <1>3, <1>4

(* Without a fault no read fails: it finds events on the wire.             *)
LEMMA SoundStep == TypeInv /\ Readers /\ Sound /\ [Next]_vars => Sound'
<1> SUFFICES ASSUME TypeInv, Readers, Sound, [Next]_vars PROVE Sound'
    OBVIOUS
<1> USE DEF configVars, hostVars, libVars, windowVars, pastVars
<1>1. /\ faults \in Nat /\ lost \in Nat /\ lost <= faults /\ pc \in [Thread -> Place]
      /\ Thread = {"main", "event"} /\ wire \in Seq(Event)
    BY DEF TypeInv, TypeOK, Thread
<1>2. CASE Host
  <2>1. CASE HostHangsUp
      BY <1>1, <2>1 DEF HostHangsUp, Sound
  <2>2. wire # <<>> => \A p \in Seq(Event) : wire \o p # <<>>
      BY <1>1, ConcatEqualIffEmpty
  <2>3. ASSUME Announce \/ \E r \in Request : Answer(r) PROVE Sound'
    <3>1. PICK p \in Seq(Event) : wire' = wire \o p
        BY <2>3, Answers DEF TypeInv
    <3>2. wire # <<>> => wire' # <<>>
        BY <2>2, <3>1
    <3>3. frame => frame'
        BY <2>3 DEF Announce, Answer
    <3> QED
        BY <1>1, <2>3, <3>2, <3>3 DEF Announce, Answer, HostOnly, Sound
  <2>4. CASE HostInput
    <3>1. PICK e \in Event : wire' = Append(wire, e)
        BY <2>4, Inputted DEF TypeInv
    <3>2. wire' # <<>>
        BY <1>1, <3>1, AppendProperties
    <3> QED
        BY <1>1, <2>4, <3>2 DEF HostInput, HostOnly, Sound
  <2>5. CASE HostPing
    <3>1. wire' # <<>>
        BY <1>1, <2>5, EventFacts, AppendProperties DEF HostPing
    <3> QED
        BY <1>1, <2>5, <3>1 DEF HostPing, HostOnly, Sound
  <2> QED
      BY <1>2, <2>1, <2>3, <2>4, <2>5 DEF Host
<1>3. ASSUME NEW t \in Thread, Wayland(t) PROVE Sound'
  <2>1. CASE Read(t)
    <3>1. pc[t] = "read" /\ winsys = "wayland" /\ UNCHANGED <<winsys, faults, lost, gone, received>>
        BY <2>1 DEF Read, Readers, OfX, Thread
    <3>2. \A u \in Thread : ReadDone(u) # "read" /\ ReadFailed(u) # "read"
        BY DEF ReadDone, ReadFailed, DispatchPending
    <3>3. CASE reader_count > 1 \/ last_error
        BY <1>1, <2>1, <3>1, <3>2, <3>3 DEF Read, Goto, Woken, Sound
    <3>4. CASE ~(reader_count > 1) /\ ~last_error /\ (wire # <<>> \/ frame)
      <4>1. /\ pc' = [u \in Thread |-> IF u = t \/ pc[u] = "wait" THEN ReadDone(u) ELSE pc[u]]
            /\ UNCHANGED last_error
          BY <2>1, <3>4 DEF Read, Woken
      <4>2. ASSUME NEW u \in Thread, faults = 0 PROVE pc'[u] # "read"
        <5>1. CASE u = t
            BY <3>2, <4>1, <5>1
        <5>2. CASE u # t
          <6>1. Counts(t) = 1 /\ Counts("main") + Counts("event") = Counts(t) + Counts(u)
            <7>1. Counts("main") \in {0, 1} /\ Counts("event") \in {0, 1}
                BY DEF Counts
            <7> QED
                BY <1>1, <3>1, <5>2, <7>1 DEF Counts
          <6>2. Counts(u) \in {0, 1} /\ reader_count = 1 + Counts(u) + lost
              BY <3>1, <6>1 DEF Readers, Counted, Counts
          <6>3. Counts(u) = 0
              BY <1>1, <3>4, <4>2, <6>2
          <6>4. pc[u] # "read"
              BY <6>3 DEF Counts
          <6> QED
              BY <3>2, <4>1, <6>4
        <5> QED
            BY <5>1, <5>2
      <4> QED
          BY <3>1, <4>1, <4>2 DEF Sound
    <3>5. CASE ~last_error /\ ~(wire # <<>> \/ frame)
        BY <1>1, <3>1, <3>5 DEF Sound
    <3> QED
        BY <3>3, <3>4, <3>5
  <2>2. CASE Prepare(t) \/ FlushForRead(t)
    <3>1. /\ UNCHANGED <<faults, gone, last_error, wire, frame>>
          /\ \E to \in Place \ {"read"} : pc' = [pc EXCEPT ![t] = to]
        BY <2>2 DEF Prepare, FlushForRead, Goto, Prepared, Unprepared, DispatchPending, Place
    <3> QED
        BY <1>1, <3>1 DEF Sound
  <2>3. CASE Poll(t)
      BY <1>1, <2>3 DEF Poll, Goto, Sound
  <2>4. CASE Take(t) \/ Handle(t) \/ Store(t) \/ Tell(t)
      BY <1>1, <2>4 DEF Take, Handle, Store, Tell, Sound
  <2>5. CASE DispatchEnds(t)
      BY <1>1, <2>5 DEF DispatchEnds, Flush, Goto, Sound
  <2> QED
      BY <1>3, <2>1, <2>2, <2>3, <2>4, <2>5 DEF Wayland
<1>4. CASE PollInterrupted \/ PollFails
    BY <1>1, <1>4 DEF PollInterrupted, PollFails, Fault, Sound
<1>5. CASE CreateWindow \/ SetFunction
    BY <1>1, <1>5 DEF CreateWindow, SetFunction, Sound
<1>6. CASE Swap
    BY <1>1, <1>6 DEF Swap, Goto, Sound, DispatchPending
<1>7. CASE ReadReply \/ XPoll \/ XPending \/ XNext \/ XcbDrained
  <2>1. winsys' # "wayland" /\ Readers' /\ faults' = faults /\ gone' = gone /\ last_error' = last_error
      BY <1>7, ReadersStep DEF ReadReply, XPoll, XPending, XNext, XcbDrained, XOnly
  <2>2. \A t \in Thread : pc'[t] # "read"
      BY <1>1, <2>1 DEF Readers, OfX
  <2> QED
      BY <2>1, <2>2 DEF Sound
<1>8. CASE UNCHANGED vars
    BY <1>8 DEF vars, Sound
<1> QED
    BY <1>2, <1>3, <1>4, <1>5, <1>6, <1>7, <1>8 DEF Next

(* An event that is in a list is in a longer one.                          *)
LEMMA HasGrows ==
  ASSUME NEW q \in Seq(Event), NEW p \in Seq(Event), NEW g
  PROVE  /\ Has(q, g) => Has(q \o p, g)
         /\ Has(p, g) => Has(q \o p, g)
<1>1. /\ q \o p \in Seq(Event) /\ Len(q \o p) = Len(q) + Len(p) /\ Len(q) \in Nat /\ Len(p) \in Nat
      /\ DOMAIN q = 1..Len(q) /\ DOMAIN p = 1..Len(p) /\ DOMAIN (q \o p) = 1..Len(q \o p)
      /\ \A i \in 1..(Len(q) + Len(p)) : (q \o p)[i] = IF i <= Len(q) THEN q[i] ELSE p[i - Len(q)]
    BY ConcatProperties, LenProperties
<1>2. \A i \in DOMAIN q : i \in DOMAIN (q \o p) /\ (q \o p)[i] = q[i]
    BY <1>1
<1>3. \A i \in DOMAIN p : i + Len(q) \in DOMAIN (q \o p) /\ (q \o p)[i + Len(q)] = p[i]
    BY <1>1
<1> QED
    BY <1>2, <1>3 DEF Has

(* An event that is appended is in the list.                               *)
LEMMA HasAppended ==
  ASSUME NEW q \in Seq(Event), NEW e \in Event, NEW g, Has(q, g)
  PROVE  Has(Append(q, e), g)
<1>1. /\ DOMAIN q = 1..Len(q) /\ Len(q) \in Nat /\ DOMAIN Append(q, e) = 1..(Len(q) + 1)
      /\ \A i \in 1..Len(q) : Append(q, e)[i] = q[i]
    BY AppendProperties, LenProperties
<1> QED
    BY <1>1 DEF Has

(* An event of a list is its head or in its tail.                          *)
LEMMA HasHead ==
  ASSUME NEW q \in Seq(Event), q # <<>>, NEW g, Has(q, g)
  PROVE  Head(q) = Plain(g) \/ Has(Tail(q), g)
<1>1. /\ DOMAIN q = 1..Len(q) /\ Len(q) \in Nat /\ Head(q) = q[1] /\ Len(Tail(q)) = Len(q) - 1
      /\ DOMAIN Tail(q) = 1..Len(Tail(q)) /\ \A i \in 1..(Len(q) - 1) : Tail(q)[i] = q[i + 1]
    BY FrontOfSeq, LenProperties
<1>2. PICK i \in 1..Len(q) : q[i] = Plain(g)
    BY <1>1 DEF Has
<1>3. CASE i = 1
    BY <1>1, <1>2, <1>3
<1>4. CASE i # 1
  <2>1. i - 1 \in 1..(Len(q) - 1) /\ (i - 1) + 1 = i
      BY <1>1, <1>4
  <2>2. Tail(q)[i - 1] = Plain(g) /\ i - 1 \in DOMAIN Tail(q)
      BY <1>1, <1>2, <2>1
  <2> QED
      BY <2>2 DEF Has
<1> QED
    BY <1>3, <1>4

(* The steps of the two threads at start-up.                               *)
LEMMA RegisteredDispatch ==
  ASSUME TypeInv, Sound, faults = 0, OnWay, NEW t \in Thread,
         Take(t) \/ Handle(t) \/ Store(t) \/ Tell(t) \/ DispatchEnds(t)
  PROVE  OnWay'
<1> USE DEF configVars, hostVars, libVars, windowVars, pastVars
<1>1. /\ queue \in Seq(Event) /\ handling \in [Thread -> Seq(Event)] /\ pc \in [Thread -> Place]
      /\ Thread = {"main", "event"} /\ bound \subseteq bound'
      /\ UNCHANGED <<wire, announced>> /\ ("cut" \in odd => "cut" \in odd')
    BY DEF TypeInv, TypeOK, Thread, Take, Handle, Store, Tell, DispatchEnds
<1>2. SUFFICES ASSUME NEW g \in Announced
               PROVE  \/ g \in bound' \/ handling'["event"] = <<Plain(g)>>
                      \/ pc'["main"] # "out" /\ (handling'["main"] = <<Plain(g)>> \/ Has(queue', g))
                      \/ "cut" \in odd' /\ (ToCome(g) \/ Has(wire, g) \/ Has(queue', g))
    BY <1>1 DEF OnWay, UnderWay, ToCome, Has
<1>3. \/ g \in bound \/ handling["event"] = <<Plain(g)>>
      \/ pc["main"] # "out" /\ (handling["main"] = <<Plain(g)>> \/ Has(queue, g))
      \/ "cut" \in odd /\ (ToCome(g) \/ Has(wire, g) \/ Has(queue, g))
    BY DEF OnWay, UnderWay
<1>4. CASE Take(t)
  <2>1. /\ handling[t] = <<>> /\ queue # <<>> /\ queue' = Tail(queue) /\ pc' = pc /\ pc[t] # "out"
        /\ handling' = [handling EXCEPT ![t] = <<Head(queue)>>]
      BY <1>4 DEF Take, Dispatching, DispatchPending
  <2>2. Has(queue, g) => Head(queue) = Plain(g) \/ Has(queue', g)
      BY <1>1, <2>1, HasHead
  <2>3. \A u \in Thread : handling[u] = <<Plain(g)>> => handling'[u] = <<Plain(g)>>
      BY <1>1, <2>1
  <2>4. Head(queue) = Plain(g) => handling'[t] = <<Plain(g)>>
      BY <1>1, <2>1
  <2> QED
      BY <1>1, <1>3, <2>1, <2>2, <2>3, <2>4
<1>5. CASE Handle(t)
  <2>1. /\ handling' = [handling EXCEPT ![t] = <<>>] /\ UNCHANGED <<queue, pc>>
        /\ bound' = bound \union ({handling[t][1].kind} \intersect Global)
      BY <1>5 DEF Handle, Handled
  <2>2. handling[t] = <<Plain(g)>> => g \in bound'
    <3>1. <<Plain(g)>>[1].kind = g /\ g \in Global
        BY DEF Plain, Announced, Global
    <3> QED
        BY <2>1, <3>1
  <2> QED
      BY <1>1, <1>3, <2>1, <2>2
<1>6. CASE Store(t) \/ Tell(t)
  <2>1. handling[t][1].kind \in Input /\ UNCHANGED <<queue, pc, bound, odd>>
      BY <1>6 DEF Store, Tell, InHand, Input, Movers
  <2>2. handling[t] # <<Plain(g)>>
      BY <2>1 DEF Plain, Announced, Input
  <2>3. \A u \in Thread : u # t => handling'[u] = handling[u]
      BY <1>1, <1>6 DEF Store, Tell, Handled
  <2> QED
      BY <1>1, <1>3, <2>1, <2>2, <2>3
<1>7. CASE DispatchEnds(t)
  <2>1. /\ handling[t] = <<>> /\ queue = <<>> /\ UNCHANGED <<queue, handling, bound>>
        /\ UNCHANGED odd
        /\ \A u \in Thread : u # t => pc'[u] = pc[u]
      BY <1>1, <1>7 DEF DispatchEnds, Sound, Goto
  <2>2. ~Has(queue, g) /\ <<>> # <<Plain(g)>>
      BY <2>1 DEF Has
  <2>3. CASE t = "main"
      BY <1>3, <2>1, <2>2, <2>3
  <2>4. CASE t = "event"
    <3>1. pc'["main"] = pc["main"]
        BY <1>1, <2>1, <2>4
    <3> QED
        BY <1>3, <2>1, <2>2, <2>4, <3>1
  <2> QED
      BY <1>1, <2>3, <2>4
<1> QED
    BY <1>4, <1>5, <1>6, <1>7

(* Reading the globals puts both in the queue.                             *)
LEMMA RegisteredRead ==
  ASSUME TypeInv, Sound, faults = 0, OnWire \/ OnWay, NEW t \in Thread, Read(t)
  PROVE  OnWire' \/ OnWay'
<1> USE DEF configVars, hostVars, libVars, windowVars, pastVars
<1>1. /\ queue \in Seq(Event) /\ wire \in Seq(Event) /\ pc \in [Thread -> Place]
      /\ Thread = {"main", "event"} /\ pc[t] = "read"
      /\ UNCHANGED <<bound, handling, announced, received>>
    BY DEF TypeInv, TypeOK, Thread, Read
<1>2. \/ pc' = [pc EXCEPT ![t] = "wait"] /\ UNCHANGED <<wire, queue, odd>>
      \/ /\ pc' = [u \in Thread |-> IF u = t \/ pc[u] = "wait" THEN "pending" ELSE pc[u]]
         /\ queue' = queue \o wire
         /\ ("cut" \in odd \/ "get_registry" \in received => "cut" \in odd')
  <2>1. ~last_error /\ (wire # <<>> \/ frame)
      BY <1>1 DEF Sound
  <2> QED
      BY <2>1 DEF Read, Goto, Woken, ReadDone, DispatchPending
<1>3. pc["main"] # "out" => pc'["main"] # "out"
    BY <1>1, <1>2
<1>4. CASE OnWay
  <2> SUFFICES ASSUME NEW g \in Announced
               PROVE  \/ g \in bound \/ handling["event"] = <<Plain(g)>>
                      \/ pc'["main"] # "out" /\ (handling["main"] = <<Plain(g)>> \/ Has(queue', g))
                      \/ "cut" \in odd' /\ (ToCome(g) \/ Has(wire', g) \/ Has(queue', g))
      BY <1>1 DEF OnWay, UnderWay, ToCome, Has
  <2>1. /\ Has(queue, g) => Has(queue', g)
        /\ Has(wire, g) => Has(wire', g) \/ Has(queue', g)
      BY <1>1, <1>2, HasGrows
  <2>2. "cut" \in odd => "cut" \in odd'
      BY <1>2
  <2> QED
      BY <1>1, <1>3, <1>4, <2>1, <2>2 DEF OnWay, UnderWay
<1>5. CASE OnWire
  <2>1. CASE pc' = [pc EXCEPT ![t] = "wait"] /\ UNCHANGED <<wire, queue>>
      BY <1>1, <1>5, <2>1 DEF OnWire, Idle, Has, ToCome
  <2>2. CASE /\ queue' = queue \o wire
             /\ ("cut" \in odd \/ "get_registry" \in received => "cut" \in odd')
    <3>1. pc'["main"] # "out"
        BY <1>1, <1>3, <1>5 DEF OnWire, Idle
    <3>2. ASSUME NEW g \in Announced PROVE Has(queue', g) \/ ("cut" \in odd' /\ ToCome(g)')
      <4>1. Has(wire, g) => Has(queue', g)
          BY <1>1, <2>2, HasGrows
      <4>2. ToCome(g) => "cut" \in odd' /\ ToCome(g)'
        <5>1. ToCome(g) => announced < Len(Announcement)
            BY DEF ToCome, Announcement, TypeInv, TypeOK
        <5> QED
            BY <1>1, <1>5, <2>2, <5>1 DEF OnWire, ToCome
      <4> QED
          BY <1>5, <4>1, <4>2 DEF OnWire
    <3> QED
        BY <3>1, <3>2 DEF OnWay, UnderWay, Has
  <2> QED
      BY <1>2, <2>1, <2>2
<1> QED
    BY <1>4, <1>5

(* A global that is to come still is or has come when the host announces   *)
(* one.                                                                    *)
LEMMA Announcing ==
  ASSUME TypeInv, Announce, NEW g, ToCome(g)
  PROVE  ToCome(g)' \/ Has(wire', g)
<1>1. PICK i \in DOMAIN Announcement : Announcement[i] = g /\ announced < i
    BY DEF ToCome
<1>2. /\ wire \in Seq(Event) /\ announced \in Nat /\ i \in Nat /\ announced' = announced + 1
      /\ wire' = Append(wire, Plain(Announcement[announced + 1]))
    BY <1>1 DEF TypeInv, TypeOK, Announce, Announcement
<1>3. CASE announced + 1 = i
  <2>1. wire' = Append(wire, Plain(g))
      BY <1>1, <1>2, <1>3
  <2>2. Len(wire) + 1 \in DOMAIN Append(wire, Plain(g)) /\ Append(wire, Plain(g))[Len(wire) + 1] = Plain(g)
      BY <1>2, AppendProperties, LenProperties
  <2> QED
      BY <2>1, <2>2 DEF Has
<1>4. CASE announced + 1 # i
  <2>1. announced' < i
      BY <1>1, <1>2, <1>4
  <2> QED
      BY <1>1, <2>1 DEF ToCome
<1> QED
    BY <1>3, <1>4

(* The host announces the globals one by one; before all are announced it  *)
(* does nothing else.                                                      *)
LEMMA RegisteredHost ==
  ASSUME TypeInv, Sound, phase = "display", faults = 0, faults' = 0,
         Unasked \/ OnWire \/ OnWay, Host
  PROVE  Unasked' \/ OnWire' \/ OnWay'
<1> USE DEF configVars, hostVars, libVars, windowVars, pastVars
<1>1. wire \in Seq(Event) /\ UNCHANGED <<queue, handling, pc, bound, odd>>
    BY DEF TypeInv, TypeOK, Host, Announce, Answer, HostInput, HostPing, HostHangsUp, HostOnly
<1>2. ASSUME Announce \/ \E r \in Request : Answer(r) PROVE Unasked' \/ OnWire' \/ OnWay'
  <2>1. \A g : Has(wire, g) => Has(wire', g)
    <3>1. PICK p \in Seq(Event) : wire' = wire \o p
        BY <1>2, Answers DEF TypeInv
    <3> QED
        BY <1>1, <3>1, HasGrows
  <2>2. \A g : ToCome(g) => ToCome(g)' \/ Has(wire', g)
    <3>1. CASE Announce
        BY <3>1, Announcing
    <3>2. CASE \E r \in Request : Answer(r)
        BY <3>2 DEF Answer, ToCome
    <3> QED
        BY <1>2, <3>1, <3>2
  <2>3. CASE OnWay
    <3> SUFFICES ASSUME NEW g \in Announced
                 PROVE  \/ g \in bound \/ handling["event"] = <<Plain(g)>>
                        \/ pc["main"] # "out" /\ (handling["main"] = <<Plain(g)>> \/ Has(queue, g))
                        \/ "cut" \in odd /\ (ToCome(g)' \/ Has(wire', g) \/ Has(queue, g))
        BY <1>1 DEF OnWay, UnderWay, Has
    <3> QED
        BY <2>1, <2>2, <2>3 DEF OnWay, UnderWay
  <2>4. CASE OnWire
    <3>1. announced' > 0 /\ (announced' < Len(Announcement) => "get_registry" \in received')
      <4>1. CASE Announce
          BY <2>4, <4>1 DEF Announce, OnWire, Announcement, TypeInv, TypeOK
      <4>2. CASE \E r \in Request : Answer(r)
          BY <2>4, <4>2 DEF Answer, OnWire
      <4> QED
          BY <1>2, <4>1, <4>2
    <3>2. \A g \in Announced : Has(wire', g) \/ ToCome(g)'
        BY <2>1, <2>2, <2>4 DEF OnWire
    <3>3. Idle({"prepare", "flush", "poll", "read", "wait"})'
        BY <1>1, <2>4 DEF OnWire, Idle
    <3> QED
        BY <3>1, <3>2, <3>3 DEF OnWire, Has
  <2>5. CASE Unasked
    <3>1. Announce
        BY <1>2, <2>5 DEF Unasked, Answer
    <3>2. announced' = 1 /\ "get_registry" \in received'
        BY <2>5, <3>1 DEF Unasked, Announce, Announcement
    <3>3. \A g \in Announced : ToCome(g)
      <4>1. announced = 0 /\ DOMAIN Announcement = {1, 2, 3} /\ Announcement[1] = "wl_compositor"
            /\ Announcement[2] = "wl_shell" /\ 0 < 1 /\ 0 < 2
          BY <2>5 DEF Unasked, Announcement
      <4> QED
          BY <4>1 DEF Announced, ToCome
    <3>4. \A g \in Announced : Has(wire', g) \/ ToCome(g)'
        BY <2>2, <3>3
    <3>5. Idle({"prepare", "flush", "poll", "read", "wait"})'
        BY <1>1, <2>5 DEF Unasked, Idle
    <3> QED
        BY <3>2, <3>4, <3>5 DEF OnWire, Has
  <2> QED
      BY <2>3, <2>4, <2>5
<1>3. CASE HostInput \/ HostPing \/ HostHangsUp
    BY <1>3 DEF HostInput, HostPing, HostHangsUp, Windowed
<1> QED
    BY <1>2, <1>3 DEF Host

(* The globals, once asked for, are on their way until bound.              *)
LEMMA RegisteredStep == TypeInv /\ Readers /\ Sound /\ Registered /\ [Next]_vars => Registered'
<1> SUFFICES ASSUME TypeInv, Readers, Sound, Registered, [Next]_vars PROVE Registered'
    OBVIOUS
<1> USE DEF configVars, hostVars, libVars, windowVars, pastVars
<1>1. SUFFICES ASSUME winsys' = "wayland", phase' = "display", faults' = 0 PROVE Unasked' \/ OnWire' \/ OnWay'
    BY DEF Registered
<1>2. phase = "display" /\ (faults = 0 \/ faults' # 0)
  <2>1. phase' # phase => phase' # "display"
      BY DEF Next, Host, Announce, Answer, HostInput, HostPing, HostHangsUp, HostOnly, Wayland, Prepare,
             FlushForRead, Poll, Read, Take, Handle, Store, Tell, DispatchEnds, PollInterrupted,
             PollFails, FaultOnly, CreateWindow, SetFunction, Swap, ReadReply, XPoll, XPending,
         XNext, XcbDrained, XOnly, vars
  <2>2. faults' = faults \/ faults' = faults + 1
      BY DEF Next, Host, Announce, Answer, HostInput, HostPing, HostHangsUp, HostOnly, Wayland, Prepare,
             FlushForRead, Poll, Read, Take, Handle, Store, Tell, DispatchEnds, PollInterrupted,
             PollFails, Fault, CreateWindow, SetFunction, Swap, ReadReply, XPoll, XPending,
         XNext, XcbDrained, XOnly, vars
  <2>3. faults \in Nat
      BY DEF TypeInv, TypeOK
  <2> QED
      BY <1>1, <2>1, <2>2, <2>3
<1>3. /\ faults = 0 /\ winsys = "wayland" /\ (Unasked \/ OnWire \/ OnWay)
      /\ pc \in [Thread -> Place] /\ Thread = {"main", "event"}
    BY <1>1, <1>2, ConfigStays DEF Registered, TypeInv, TypeOK, Thread
<1>4. CASE Host
    BY <1>1, <1>2, <1>3, <1>4, RegisteredHost
<1>5. ASSUME NEW t \in Thread, Wayland(t) PROVE Unasked' \/ OnWire' \/ OnWay'
  <2>1. CASE Prepare(t) \/ FlushForRead(t) \/ Poll(t)
    <3>1. /\ UNCHANGED <<wire, queue, frame, announced, handling, bound, odd>>
          /\ received' \union unsent' = received \union unsent /\ received \subseteq received'
        BY <2>1 DEF Prepare, FlushForRead, Poll, Flush
    <3>2. CASE OnWay
      <4>1. pc["main"] # "out" => pc'["main"] # "out"
          BY <1>3, <2>1 DEF Prepare, FlushForRead, Poll, Goto, Prepared, Unprepared, DispatchPending
      <4> QED
          BY <3>1, <3>2, <4>1 DEF OnWay, UnderWay, ToCome, Has
    <3>3. CASE Unasked
      <4>1. \A u \in Thread : pc'[u] \in {"prepare", "flush", "poll"}
          BY <1>3, <2>1, <3>3 DEF Prepare, FlushForRead, Poll, Goto, Prepared, Unasked, Idle, Sound
      <4> QED
          BY <3>1, <3>3, <4>1 DEF Unasked, Idle
    <3>4. CASE OnWire
      <4>1. \A u \in Thread : pc'[u] \in {"prepare", "flush", "poll", "read", "wait"}
          BY <1>3, <2>1, <3>4 DEF Prepare, FlushForRead, Poll, Goto, Prepared, OnWire, Idle
      <4> QED
          BY <3>1, <3>4, <4>1 DEF OnWire, Idle, Has, ToCome
    <3> QED
        BY <1>3, <3>2, <3>3, <3>4
  <2>2. CASE Read(t)
    <3>1. ~Unasked
        BY <2>2 DEF Read, Unasked, Idle
    <3> QED
        BY <1>3, <2>2, <3>1, RegisteredRead
  <2>3. CASE Take(t) \/ Handle(t) \/ Store(t) \/ Tell(t) \/ DispatchEnds(t)
    <3>1. OnWay
      <4>1. Dispatching(t)
          BY <2>3 DEF Take, Handle, Store, Tell, DispatchEnds, InHand
      <4> QED
          BY <1>3, <4>1 DEF Dispatching, DispatchPending, Unasked, OnWire, Idle
    <3> QED
        BY <1>3, <2>3, <3>1, RegisteredDispatch
  <2> QED
      BY <1>5, <2>1, <2>2, <2>3 DEF Wayland
<1>6. CASE PollInterrupted \/ PollFails \/ CreateWindow \/ SetFunction \/ Swap
    BY <1>1, <1>2, <1>3, <1>6 DEF PollInterrupted, PollFails, Fault, CreateWindow, SetFunction, Swap
<1>7. CASE ReadReply \/ XPoll \/ XPending \/ XNext \/ XcbDrained
    BY <1>3, <1>7 DEF ReadReply, XPoll, XPending, XNext, XcbDrained
<1>8. CASE UNCHANGED vars
    BY <1>3, <1>8 DEF vars, Unasked, OnWire, OnWay, UnderWay, ToCome, Idle, Has
<1> QED
    BY <1>4, <1>5, <1>6, <1>7, <1>8 DEF Next

(* When the main thread looks for wl_compositor and wl_shell they are      *)
(* there, whichever thread has read them, unless poll failed, the event    *)
(* thread is just then setting the one in question, or a read has cut the  *)
(* announcement in pieces and it is still under way.                       *)
THEOREM GlobalsAreFound == Spec => []GlobalsFound
<1>1. GlobalsInv => GlobalsFound
  <2> SUFFICES ASSUME GlobalsInv, winsys = "wayland", pc["main"] = "out", phase = "display", faults = 0,
                      NEW g \in {"wl_compositor", "wl_shell"}
               PROVE  \/ g \in bound \/ handling["event"] = <<Plain(g)>>
                      \/ "cut" \in odd /\ UnderWay(g)
      BY DEF GlobalsFound
  <2>1. ~Unasked /\ ~OnWire
      BY DEF Unasked, OnWire, Idle, Thread
  <2> QED
      BY <2>1 DEF GlobalsInv, Registered, OnWay, Announced
<1>2. TypeInv /\ Readers /\ GlobalsInv /\ [Next]_vars => GlobalsInv'
    BY SoundStep, RegisteredStep DEF GlobalsInv
<1> QED
    BY <1>1, <1>2, GlobalsInit, TypeInit, TypeStep, ReadersInit, ReadersStep, PTL DEF Spec

--------------------------------------------------------------------------------
(* The way of the input: what is not yet taken is in the queue and on the  *)
(* wire, once and in the order of the host, from number k + 1 on.          *)
InOrder(q, k, s) ==
  /\ \A i \in DOMAIN q : q[i].n > 0 => q[i].n > k /\ q[i].n <= Len(s) /\ q[i] = s[q[i].n]
  /\ \A i, j \in DOMAIN q : i < j /\ q[i].n > 0 /\ q[j].n > 0 => q[i].n < q[j].n
  /\ \A m \in (k + 1)..Len(s) : \E i \in DOMAIN q : q[i].n = m

(* A thread with an input event in hand; what has been taken.              *)
Busy(t) == handling[t] # <<>> /\ handling[t][1].n > 0
InHands(t) == IF Busy(t) THEN 1 ELSE 0
Taken == Len(told) + InHands("main") + InHands("event")

Numbered == \A n \in DOMAIN sent : sent[n].n = n
EnteredFirst ==
  winsys = "wayland" =>
    \A n \in DOMAIN sent : sent[n].kind = "button" => \E m \in 1..n : sent[m].kind = "enter"
Ordered == InOrder(queue \o wire, Taken, sent) /\ Taken <= Len(sent)

(* Unless both threads had input in hand, one event at most is between the *)
(* queue and the compositor, the next one to be told.                      *)
OneInHand ==
  "race" \notin odd =>
    /\ ~(Busy("main") /\ Busy("event"))
    /\ \A t \in Thread : Busy(t) => Taken \in DOMAIN sent /\ handling[t][1] = sent[Taken]

(* The pointer's position is that of the last move told of, or on its way  *)
(* to the next one.                                                        *)
Kept(n) == IF MovesTo(n) = {} THEN Unplaced ELSE KeptAt(sent[LastMove(n)])

PointerKept ==
  "race" \notin odd /\ winsys = "wayland" =>
    /\ ~Busy("main") /\ ~Busy("event") => cur_pointer = Kept(Len(told))
    /\ \A t \in Thread : Busy(t) =>
         /\ Len(handling[t]) = 1 => cur_pointer = Kept(Len(told))
         /\ Len(handling[t]) = 2 => cur_pointer[1] = KeptAt(handling[t][1])[1]
         /\ Len(handling[t]) = 3 => cur_pointer = KeptAt(handling[t][1])

Shaped == \A t \in Thread : Len(handling[t]) > 1 => handling[t][1].kind \in Movers

(* The place told, to the coordinate; an event that is not told was sent   *)
(* before the last function was set.                                       *)
Where(n) ==
  CASE sent[n].kind = "leave" -> Outside
    [] sent[n].kind = "key" -> Unplaced
    [] OTHER -> IF winsys # "wayland" THEN Point(n) ELSE KeptAt(sent[LastMove(n)])

ToldExactly ==
  "race" \notin odd =>
    \A i \in DOMAIN told : told[i] = <<i, Where(i)>> \/ (told[i] = <<i, Untold>> /\ i <= early)

FlowInv == /\ Numbered /\ EnteredFirst /\ Ordered /\ Shaped
           /\ OneInHand /\ PointerKept /\ ToldExactly

(* Until all functions are set every event is an early one.                *)
Setup == /\ phase = "serve" => functions = Function
         /\ phase # "serve" => early = Len(sent)

(* The functions are set one after the other and never unset.              *)
LEMMA SetupInit == Init => Setup
  BY DEF Init, Setup

LEMMA SetupStep == TypeInv /\ Setup /\ [Next]_vars => Setup'
<1> SUFFICES ASSUME TypeInv, Setup, [Next]_vars PROVE Setup'
    OBVIOUS
<1> USE DEF configVars, hostVars, libVars, windowVars, pastVars
<1>1. CASE UNCHANGED <<phase, functions, early, sent>>
    BY <1>1 DEF Setup
<1>2. CASE HostInput
  <2>1. UNCHANGED <<phase, functions>> /\ early' = IF phase = "serve" THEN early ELSE Len(sent')
      BY <1>2 DEF HostInput, HostOnly
  <2> QED
      BY <2>1 DEF Setup
<1>3. CASE CreateWindow
    BY <1>3 DEF CreateWindow, Setup
<1>4. CASE SetFunction
  <2>1. /\ phase = "window" /\ UNCHANGED <<early, sent>> /\ functions \subseteq Function
        /\ phase' = "serve" => functions' = functions \union {"key"} /\ {"motion", "button"} \subseteq functions
    <3>1. phase = "window" /\ UNCHANGED <<early, sent>> /\ functions \subseteq Function
        BY <1>4 DEF SetFunction, TypeInv, TypeOK
    <3>2. CASE "motion" \notin functions
        BY <1>4, <3>1, <3>2 DEF SetFunction
    <3>3. CASE "motion" \in functions /\ "button" \notin functions
        BY <1>4, <3>1, <3>3 DEF SetFunction
    <3>4. CASE "motion" \in functions /\ "button" \in functions
        BY <1>4, <3>1, <3>4 DEF SetFunction
    <3> QED
        BY <3>1, <3>2, <3>3, <3>4
  <2> QED
      BY <2>1 DEF Setup, Function
<1>5. CASE Host
    BY <1>1, <1>2, <1>5 DEF Host, Announce, Answer, HostPing, HostHangsUp, HostOnly
<1>6. ASSUME NEW t \in Thread, Wayland(t) PROVE Setup'
    BY <1>1, <1>6 DEF Wayland, Prepare, FlushForRead, Poll, Read, Take, Handle, Store, Tell, DispatchEnds
<1>7. CASE PollInterrupted \/ PollFails \/ Swap
    BY <1>1, <1>7 DEF PollInterrupted, PollFails, FaultOnly, Swap
<1>8. CASE ReadReply \/ XPoll \/ XPending \/ XNext \/ XcbDrained
    BY <1>1, <1>8 DEF ReadReply, XPoll, XPending, XNext, XcbDrained, XOnly
<1>9. CASE UNCHANGED vars
    BY <1>1, <1>9 DEF vars
<1> QED
    BY <1>3, <1>4, <1>5, <1>6, <1>7, <1>8, <1>9 DEF Next

(* An event that finds no function set is early.                           *)
LEMMA UnsetIsEarly ==
  ASSUME Setup, NEW kind \in Input, ~IsSet(kind)
  PROVE  early = Len(sent)
<1>1. functions # Function
    BY DEF IsSet, Input, Function
<1> QED
    BY <1>1 DEF Setup

--------------------------------------------------------------------------------
(* The queue and the wire taken together.                                  *)
LEMMA JoinedAppend ==
  ASSUME NEW S, NEW q \in Seq(S), NEW w \in Seq(S), NEW e \in S
  PROVE  q \o Append(w, e) = Append(q \o w, e)
<1>1. <<e>> \in Seq(S) /\ q \o w \in Seq(S)
    BY ConcatProperties
<1>2. Append(w, e) = w \o <<e>> /\ Append(q \o w, e) = (q \o w) \o <<e>>
    BY <1>1, AppendIsConcat
<1> QED
    BY <1>1, <1>2, ConcatAssociative

(* Taking from a queue that others follow on the wire.                     *)
LEMMA JoinedTail ==
  ASSUME NEW S, NEW q \in Seq(S), NEW w \in Seq(S), q # <<>>
  PROVE  /\ q \o w \in Seq(S) /\ q \o w # <<>>
         /\ Head(q \o w) = Head(q) /\ Tail(q \o w) = Tail(q) \o w
<1>1. /\ q \o w \in Seq(S) /\ Len(q \o w) = Len(q) + Len(w) /\ Len(w) \in Nat
      /\ \A i \in 1..(Len(q) + Len(w)) : (q \o w)[i] = IF i <= Len(q) THEN q[i] ELSE w[i - Len(q)]
    BY ConcatProperties, LenProperties
<1>2. /\ Len(q) \in Nat /\ Len(q) > 0 /\ Head(q) = q[1] /\ Tail(q) \in Seq(S)
      /\ Len(Tail(q)) = Len(q) - 1 /\ \A i \in 1..(Len(q) - 1) : Tail(q)[i] = q[i + 1]
    BY FrontOfSeq
<1>3. q \o w # <<>>
    BY <1>1, ConcatEqualIffEmpty
<1>4. /\ Head(q \o w) = (q \o w)[1] /\ Tail(q \o w) \in Seq(S)
      /\ Len(Tail(q \o w)) = Len(q \o w) - 1
      /\ \A i \in 1..(Len(q \o w) - 1) : Tail(q \o w)[i] = (q \o w)[i + 1]
    BY <1>1, <1>3, FrontOfSeq
<1>5. /\ Tail(q) \o w \in Seq(S) /\ Len(Tail(q) \o w) = Len(Tail(q)) + Len(w)
      /\ \A i \in 1..(Len(Tail(q)) + Len(w)) :
           (Tail(q) \o w)[i] = IF i <= Len(Tail(q)) THEN Tail(q)[i] ELSE w[i - Len(Tail(q))]
    BY <1>2, ConcatProperties
<1> DEFINE a == Len(q)
           b == Len(w)
           t1 == Tail(q \o w)
           t2 == Tail(q) \o w
<1>6. ASSUME NEW i \in 1..(a + b - 1) PROVE t1[i] = t2[i]
  <2>1. a \in Nat /\ b \in Nat /\ a > 0 /\ Len(Tail(q)) = a - 1 /\ Len(q \o w) = a + b
      BY <1>1, <1>2
  <2> HIDE DEF a, b
  <2>2. i \in 1..(Len(q \o w) - 1) /\ i + 1 \in 1..(a + b) /\ i \in 1..(a - 1 + b)
      BY <2>1
  <2>3. t1[i] = IF i + 1 <= a THEN q[i + 1] ELSE w[i + 1 - a]
      BY <1>1, <1>4, <2>2 DEF a, b
  <2>4. t2[i] = IF i <= a - 1 THEN Tail(q)[i] ELSE w[i - (a - 1)]
      BY <1>5, <2>1, <2>2 DEF a, b
  <2>5. CASE i <= a - 1
    <3>1. i \in 1..(a - 1) /\ i + 1 <= a
        BY <2>1, <2>2, <2>5
    <3> QED
        BY <1>2, <2>3, <2>4, <2>5, <3>1 DEF a
  <2>6. CASE ~(i <= a - 1)
    <3>1. ~(i + 1 <= a) /\ i + 1 - a = i - (a - 1)
        BY <2>1, <2>2, <2>6
    <3> QED
        BY <2>3, <2>4, <2>6, <3>1
  <2> QED
      BY <2>5, <2>6
<1>7. Len(t1) = a + b - 1 /\ Len(t2) = a + b - 1
    BY <1>1, <1>2, <1>4, <1>5
<1>8. t1 = t2
  <2>1. t1 \in Seq(S) /\ t2 \in Seq(S)
      BY <1>4, <1>5
  <2> HIDE DEF t1, t2, a, b
  <2>2. Len(t1) = Len(t2) /\ \A i \in 1..Len(t1) : t1[i] = t2[i]
      BY <1>6, <1>7
  <2> QED
      BY <2>1, <2>2, SeqEqual
<1>9. Head(q \o w) = Head(q)
    BY <1>1, <1>2, <1>4
<1> QED
    BY <1>1, <1>3, <1>8, <1>9

(* Taking the first event keeps the order of the rest.                     *)
LEMMA OrderTail ==
  ASSUME NEW q \in Seq(Event), q # <<>>, NEW k \in Nat, NEW s \in Seq(Inputs), InOrder(q, k, s)
  PROVE  /\ Head(q).n = 0 => InOrder(Tail(q), k, s)
         /\ Head(q).n > 0 => /\ k + 1 \in DOMAIN s /\ Head(q) = s[k + 1] /\ Head(q).n = k + 1
                             /\ InOrder(Tail(q), k + 1, s)
<1> DEFINE l == Len(q)
           t == Tail(q)
<1>1. /\ l \in Nat /\ l > 0 /\ Head(q) = q[1] /\ DOMAIN q = 1..l /\ DOMAIN t = 1..(l - 1)
      /\ \A i \in 1..(l - 1) : t[i] = q[i + 1]
      /\ \A i \in 1..l : q[i] \in Event /\ q[i].n \in Nat
  <2>1. \A i \in 1..l : q[i] \in Event
      BY ElementOfSeq
  <2>2. /\ Len(q) \in Nat /\ Len(q) > 0 /\ Head(q) = q[1] /\ Tail(q) \in Seq(Event)
        /\ Len(Tail(q)) = Len(q) - 1 /\ \A i \in 1..(Len(q) - 1) : Tail(q)[i] = q[i + 1]
      BY FrontOfSeq
  <2> QED
      BY <2>1, <2>2, LenProperties, EventFacts
<1>2. Len(s) \in Nat /\ DOMAIN s = 1..Len(s)
    BY LenProperties
<1> HIDE DEF l, t
<1>3. \A i \in 1..(l - 1) : i + 1 \in 1..l
    BY <1>1
<1>4. \A i \in DOMAIN t : t[i].n > 0 => t[i].n > k /\ t[i].n <= Len(s) /\ t[i] = s[t[i].n]
    BY <1>1, <1>3 DEF InOrder
<1>5. \A i, j \in DOMAIN t : i < j /\ t[i].n > 0 /\ t[j].n > 0 => t[i].n < t[j].n
  <2> SUFFICES ASSUME NEW i \in 1..(l - 1), NEW j \in 1..(l - 1), i < j, t[i].n > 0, t[j].n > 0
               PROVE  t[i].n < t[j].n
      BY <1>1
  <2>1. i + 1 < j + 1 /\ i + 1 \in DOMAIN q /\ j + 1 \in DOMAIN q
      BY <1>1, <1>3
  <2> QED
      BY <1>1, <2>1 DEF InOrder
<1>6. \A m \in (k + 1)..Len(s) : q[1].n = m \/ \E i \in DOMAIN t : t[i].n = m
  <2> SUFFICES ASSUME NEW m \in (k + 1)..Len(s), q[1].n # m PROVE \E i \in DOMAIN t : t[i].n = m
      OBVIOUS
  <2>1. PICK i \in 1..l : q[i].n = m
      BY <1>1 DEF InOrder
  <2>2. i # 1
      BY <2>1
  <2>3. i - 1 \in 1..(l - 1) /\ (i - 1) + 1 = i
      BY <1>1, <2>1, <2>2
  <2> QED
      BY <1>1, <2>1, <2>3
<1>7. CASE Head(q).n = 0
  <2>1. \A m \in (k + 1)..Len(s) : q[1].n # m
      BY <1>1, <1>2, <1>7
  <2> QED
      BY <1>4, <1>5, <1>6, <1>7, <2>1 DEF InOrder, t
<1>8. CASE Head(q).n > 0
  <2> DEFINE h == q[1].n
  <2>1. 1 \in DOMAIN q /\ h \in Nat /\ h > k /\ h <= Len(s) /\ q[1] = s[h]
      BY <1>1, <1>8 DEF InOrder
  <2>2. h = k + 1
    <3>1. k + 1 \in (k + 1)..Len(s)
        BY <1>2, <2>1
    <3>2. PICK i \in 1..l : q[i].n = k + 1
        BY <1>1, <3>1 DEF InOrder
    <3>3. CASE i = 1
        BY <3>2, <3>3
    <3>4. CASE i # 1
      <4>1. 1 < i /\ 1 \in DOMAIN q /\ i \in DOMAIN q /\ q[i].n > 0
          BY <1>1, <3>2, <3>4
      <4>2. h < k + 1
          BY <1>1, <1>8, <3>2, <4>1 DEF InOrder
      <4> QED
          BY <2>1, <4>2
    <3> QED
        BY <3>3, <3>4
  <2>3. \A i \in DOMAIN t : t[i].n > 0 => t[i].n > k + 1
    <3> SUFFICES ASSUME NEW i \in 1..(l - 1), t[i].n > 0 PROVE t[i].n > k + 1
        BY <1>1
    <3>1. 1 < i + 1 /\ i + 1 \in DOMAIN q /\ 1 \in DOMAIN q
        BY <1>1, <1>3
    <3> QED
        BY <1>1, <1>8, <2>2, <3>1 DEF InOrder
  <2>4. \A m \in (k + 2)..Len(s) : \E i \in DOMAIN t : t[i].n = m
    <3> SUFFICES ASSUME NEW m \in (k + 2)..Len(s) PROVE \E i \in DOMAIN t : t[i].n = m
        OBVIOUS
    <3>1. m \in (k + 1)..Len(s) /\ m # k + 1
        BY <1>2
    <3> QED
        BY <1>6, <2>2, <3>1
  <2>5. InOrder(t, k + 1, s)
    <3>1. k + 1 + 1 = k + 2
        OBVIOUS
    <3> QED
        BY <1>4, <1>5, <2>3, <2>4, <3>1 DEF InOrder
  <2> QED
      BY <1>1, <1>2, <1>8, <2>1, <2>2, <2>5 DEF t
<1>9. Head(q).n = 0 \/ Head(q).n > 0
    BY <1>1
<1> QED
    BY <1>7, <1>8, <1>9

(* An event that is no input does not disturb the order.                   *)
LEMMA OrderPlain ==
  ASSUME NEW q \in Seq(Event), NEW p \in Seq(Event), \A i \in DOMAIN p : p[i].n = 0,
         NEW k \in Nat, NEW s \in Seq(Inputs), InOrder(q, k, s)
  PROVE  InOrder(q \o p, k, s)
<1> DEFINE r == q \o p
           a == Len(q)
           b == Len(p)
<1>1. /\ a \in Nat /\ b \in Nat /\ DOMAIN q = 1..a /\ DOMAIN p = 1..b /\ DOMAIN r = 1..(a + b)
      /\ \A i \in 1..(a + b) : r[i] = IF i <= a THEN q[i] ELSE p[i - a]
    BY ConcatProperties, LenProperties
<1> HIDE DEF r, a, b
<1>2. ASSUME NEW i \in DOMAIN r, r[i].n > 0 PROVE i \in DOMAIN q /\ r[i] = q[i]
  <2>1. CASE i <= a
      BY <1>1, <2>1
  <2>2. CASE ~(i <= a)
    <3>1. i - a \in 1..b
        BY <1>1, <2>2
    <3> QED
        BY <1>1, <1>2, <2>2, <3>1
  <2> QED
      BY <2>1, <2>2
<1>3. \A i \in DOMAIN q : i \in DOMAIN r /\ r[i] = q[i]
    BY <1>1
<1>4. InOrder(r, k, s)
    BY <1>2, <1>3 DEF InOrder
<1> QED
    BY <1>4 DEF r

(* The next input event goes behind all others.                            *)
LEMMA OrderInput ==
  ASSUME NEW q \in Seq(Event), NEW k \in Nat, NEW s \in Seq(Inputs), InOrder(q, k, s),
         k <= Len(s), NEW e \in Inputs, e \in Event, e.n = Len(s) + 1
  PROVE  InOrder(Append(q, e), k, Append(s, e))
<1> DEFINE r == Append(q, e)
           z == Append(s, e)
           a == Len(q)
           b == Len(s)
<1>1. /\ a \in Nat /\ DOMAIN q = 1..a /\ DOMAIN r = 1..(a + 1)
      /\ \A i \in 1..a : r[i] = q[i]
      /\ r[a + 1] = e
    BY AppendProperties, LenProperties
<1>2. /\ b \in Nat /\ Len(z) = b + 1 /\ z[b + 1] = e
      /\ \A i \in 1..b : z[i] = s[i]
    BY AppendProperties, LenProperties
<1>3. \A i \in 1..a : q[i].n \in Nat
    BY ElementOfSeq, EventFacts
<1>4. e.n = b + 1 /\ k <= b
    OBVIOUS
<1>5. InOrder(q, k, s) /\ Len(s) = b
    OBVIOUS
<1> HIDE DEF r, z, a, b
<1>6. \A i \in DOMAIN r : r[i].n > 0 => r[i].n > k /\ r[i].n <= Len(z) /\ r[i] = z[r[i].n]
  <2> SUFFICES ASSUME NEW i \in 1..(a + 1), r[i].n > 0
               PROVE  r[i].n > k /\ r[i].n <= b + 1 /\ r[i] = z[r[i].n]
      BY <1>1, <1>2
  <2>1. CASE i = a + 1
      BY <1>1, <1>2, <1>4, <2>1
  <2>2. CASE i # a + 1
    <3>1. i \in 1..a /\ r[i] = q[i]
        BY <1>1, <2>2
    <3>2. q[i].n > k /\ q[i].n <= b /\ q[i] = s[q[i].n]
        BY <1>1, <1>5, <3>1 DEF InOrder
    <3>3. q[i].n \in 1..b
        BY <1>2, <1>3, <3>1, <3>2
    <3> QED
        BY <1>2, <1>3, <3>1, <3>2, <3>3
  <2> QED
      BY <2>1, <2>2
<1>7. \A i, j \in DOMAIN r : i < j /\ r[i].n > 0 /\ r[j].n > 0 => r[i].n < r[j].n
  <2> SUFFICES ASSUME NEW i \in 1..(a + 1), NEW j \in 1..(a + 1), i < j, r[i].n > 0, r[j].n > 0
               PROVE  r[i].n < r[j].n
      BY <1>1
  <2>1. i \in 1..a /\ r[i] = q[i]
      BY <1>1
  <2>2. CASE j = a + 1
    <3>1. q[i].n <= b
        BY <1>1, <1>5, <2>1 DEF InOrder
    <3> QED
        BY <1>1, <1>2, <1>3, <1>4, <2>1, <2>2, <3>1
  <2>3. CASE j # a + 1
    <3>1. j \in 1..a /\ r[j] = q[j]
        BY <1>1, <2>3
    <3> QED
        BY <1>1, <1>5, <2>1, <3>1 DEF InOrder
  <2> QED
      BY <2>2, <2>3
<1>8. \A m \in (k + 1)..Len(z) : \E i \in DOMAIN r : r[i].n = m
  <2> SUFFICES ASSUME NEW m \in (k + 1)..(b + 1) PROVE \E i \in 1..(a + 1) : r[i].n = m
      BY <1>1, <1>2
  <2>1. CASE m = b + 1
      BY <1>1, <1>4, <2>1
  <2>2. CASE m # b + 1
    <3>1. m \in (k + 1)..b
        BY <1>2, <2>2
    <3>2. PICK i \in 1..a : q[i].n = m
        BY <1>1, <1>5, <3>1 DEF InOrder
    <3> QED
        BY <1>1, <3>2
  <2> QED
      BY <2>1, <2>2
<1>9. InOrder(r, k, z)
    BY <1>6, <1>7, <1>8 DEF InOrder
<1> QED
    BY <1>9 DEF r, z

--------------------------------------------------------------------------------
(* The last of the moves up to a number.  A set of numbers up to n has a   *)
(* last one: numbers are well founded, and so are their distances from n.  *)
LEMMA LastExists ==
  ASSUME NEW n \in Nat, NEW T \in SUBSET (1..n), T # {}
  PROVE  \E m \in T : \A k \in T : k <= m
<1> DEFINE D == {d \in Nat : n - d \in T}
<1>1. D # {} /\ \A k \in T : n - k \in D /\ n - (n - k) = k
  <2>1. \A k \in T : k \in Nat /\ n - k \in Nat /\ n - (n - k) = k
      OBVIOUS
  <2> QED
      BY <2>1
<1>2. IsWellFoundedOn(OpToRel(<, Nat), Nat)
    BY NatLessThanWellFounded
<1>3. PICK d \in D : \A c \in D : ~ (<<c, d>> \in OpToRel(<, Nat))
  <2>1. D \in SUBSET Nat
      OBVIOUS
  <2> HIDE DEF D
  <2> QED
      BY <1>1, <1>2, <2>1, WFMin
<1>4. \A c \in D : ~(c < d)
    BY <1>3 DEF OpToRel
<1>5. d \in Nat /\ n - d \in T
    OBVIOUS
<1>6. ASSUME NEW k \in T PROVE k <= n - d
  <2>1. ~(n - k < d) /\ k \in Nat
      BY <1>1, <1>4
  <2> HIDE DEF D
  <2> QED
      BY <1>5, <2>1
<1> QED
    BY <1>5, <1>6

(* The last move is the greatest of the numbers of moves.                  *)
LEMMA LastMoveIs ==
  ASSUME NEW n \in Nat
  PROVE  /\ MovesTo(n) # {} => LastMove(n) \in MovesTo(n)
         /\ \A m \in MovesTo(n) : (\A k \in MovesTo(n) : k <= m) => LastMove(n) = m
<1>1. MovesTo(n) \in SUBSET (1..n)
    BY DEF MovesTo
<1>2. MovesTo(n) # {} => /\ LastMove(n) \in MovesTo(n)
                         /\ \A k \in MovesTo(n) : k <= LastMove(n)
  <2> SUFFICES ASSUME MovesTo(n) # {}
               PROVE  LastMove(n) \in MovesTo(n) /\ \A k \in MovesTo(n) : k <= LastMove(n)
      OBVIOUS
  <2>1. \E m \in MovesTo(n) : \A k \in MovesTo(n) : k <= m
      BY <1>1, LastExists
  <2> QED
      BY <2>1 DEF LastMove
<1>3. ASSUME NEW m \in MovesTo(n), \A k \in MovesTo(n) : k <= m PROVE LastMove(n) = m
  <2>1. LastMove(n) \in 1..n /\ m \in 1..n /\ LastMove(n) <= m /\ m <= LastMove(n)
      BY <1>1, <1>2, <1>3
  <2> QED
      BY <2>1
<1> QED
    BY <1>2, <1>3

(* The position kept after one more event.                                 *)
LEMMA KeptNext ==
  ASSUME sent \in Seq(Inputs), NEW n \in Nat, n + 1 \in DOMAIN sent
  PROVE  /\ sent[n + 1].kind \in Movers => Kept(n + 1) = KeptAt(sent[n + 1]) /\ MovesTo(n + 1) # {}
                                           /\ LastMove(n + 1) = n + 1
         /\ sent[n + 1].kind \notin Movers => Kept(n + 1) = Kept(n) /\ MovesTo(n + 1) = MovesTo(n)
                                              /\ LastMove(n + 1) = LastMove(n)
<1>1. 1..(n + 1) = (1..n) \union {n + 1} /\ n + 1 \in Nat
    OBVIOUS
<1>2. CASE sent[n + 1].kind \in Movers
  <2>1. n + 1 \in MovesTo(n + 1) /\ \A k \in MovesTo(n + 1) : k <= n + 1
      BY <1>1, <1>2 DEF MovesTo
  <2>2. LastMove(n + 1) = n + 1
      BY <1>1, <2>1, LastMoveIs
  <2> QED
      BY <1>2, <2>1, <2>2 DEF Kept
<1>3. CASE sent[n + 1].kind \notin Movers
  <2>1. MovesTo(n + 1) = MovesTo(n)
      BY <1>1, <1>3 DEF MovesTo
  <2>2. LastMove(n + 1) = LastMove(n)
      BY <2>1 DEF LastMove
  <2>3. Kept(n + 1) = Kept(n)
      BY <2>1, <2>2 DEF Kept
  <2> QED
      BY <1>3, <2>1, <2>2, <2>3
<1> QED
    BY <1>2, <1>3

(* Where an event is told, in these terms.                                 *)
LEMMA WhereIs ==
  ASSUME NEW n \in DOMAIN sent
  PROVE  Where(n) = CASE sent[n].kind = "leave" -> Outside
                      [] sent[n].kind = "key" -> Unplaced
                      [] OTHER -> IF winsys # "wayland" THEN Point(n) ELSE KeptAt(sent[LastMove(n)])
  BY DEF Where

(* Under Wayland there has been a move when a button is pressed.           *)
LEMMA MovedBefore ==
  ASSUME sent \in Seq(Inputs), EnteredFirst, winsys = "wayland", NEW n \in DOMAIN sent
  PROVE  sent[n].kind \in {"leave", "key"} \/ MovesTo(n) # {}
<1>1. n \in 1..Len(sent) /\ Len(sent) \in Nat /\ sent[n] \in Inputs
    BY LenProperties, ElementOfSeq
<1>2. sent[n].kind \in {"enter", "motion", "button", "leave", "key"}
    BY <1>1 DEF Inputs, Input
<1>3. CASE sent[n].kind \in Movers
    BY <1>1, <1>3 DEF MovesTo
<1>4. CASE sent[n].kind = "button"
    BY <1>4 DEF EnteredFirst, MovesTo, Movers
<1> QED
    BY <1>2, <1>3, <1>4 DEF Movers

(* Another event of the host changes nothing of the earlier ones.          *)
LEMMA KeptStays ==
  ASSUME sent \in Seq(Inputs), NEW e \in Inputs, sent' = Append(sent, e), UNCHANGED winsys,
         EnteredFirst, NEW n \in Nat, n <= Len(sent)
  PROVE  Kept(n)' = Kept(n) /\ (n > 0 => Where(n)' = Where(n))
<1>1. /\ Len(sent) \in Nat /\ DOMAIN sent = 1..Len(sent) /\ DOMAIN sent' = 1..(Len(sent) + 1)
      /\ \A m \in 1..Len(sent) : sent'[m] = sent[m]
    BY AppendProperties, LenProperties
<1>2. \A m \in 1..n : sent'[m] = sent[m] /\ m \in DOMAIN sent /\ m \in DOMAIN sent'
    BY <1>1
<1>3. MovesTo(n)' = MovesTo(n)
    BY <1>2 DEF MovesTo
<1>4. LastMove(n)' = LastMove(n)
    BY <1>3 DEF LastMove
<1>5. MovesTo(n) # {} => LastMove(n) \in 1..n
    BY LastMoveIs DEF MovesTo
<1>6. Kept(n)' = Kept(n)
    BY <1>2, <1>3, <1>4, <1>5 DEF Kept
<1>7. ASSUME n > 0 PROVE Where(n)' = Where(n)
  <2>1. n \in 1..n /\ n \in DOMAIN sent /\ n \in DOMAIN sent' /\ sent'[n] = sent[n]
      BY <1>2, <1>7
  <2>2. Where(n)' = CASE sent'[n].kind = "leave" -> Outside
                      [] sent'[n].kind = "key" -> Unplaced
                      [] OTHER -> IF winsys' # "wayland" THEN Point(n) ELSE KeptAt(sent'[LastMove(n)'])
      BY <2>1 DEF Where
  <2>3. CASE winsys # "wayland" \/ sent[n].kind \in {"leave", "key"}
      BY <2>1, <2>2, <2>3, WhereIs
  <2>4. CASE winsys = "wayland" /\ MovesTo(n) # {}
      BY <1>2, <1>4, <1>5, <2>1, <2>2, <2>4, WhereIs
  <2> QED
      BY <2>1, <2>3, <2>4, MovedBefore
<1> QED
    BY <1>6, <1>7

--------------------------------------------------------------------------------
(* The steps.  First those that only move events on.                       *)
LEMMA SameWhere ==
  ASSUME UNCHANGED <<winsys, sent>>
  PROVE  \A n : Kept(n)' = Kept(n) /\ Where(n)' = Where(n)
<1>1. \A n : MovesTo(n)' = MovesTo(n)
    BY DEF MovesTo
<1>2. \A n : LastMove(n)' = LastMove(n)
    BY <1>1 DEF LastMove
<1>3. \A n : Kept(n)' = Kept(n)
    BY <1>1, <1>2 DEF Kept
<1>4. \A n : Where(n)' = Where(n)
    BY <1>2 DEF Where
<1> QED
    BY <1>3, <1>4

(* At first nothing is sent.                                               *)
LEMMA FlowInit == Init => FlowInv
<1> SUFFICES ASSUME Init PROVE FlowInv
    OBVIOUS
<1>1. /\ wire = <<>> /\ queue = <<>> /\ sent = <<>> /\ told = <<>> /\ cur_pointer = Unplaced
      /\ \A t \in Thread : handling[t] = <<>>
    BY DEF Init
<1>2. Len(told) = 0 /\ Len(sent) = 0 /\ DOMAIN sent = {} /\ DOMAIN told = {}
    BY <1>1
<1>3. \A t \in Thread : ~Busy(t) /\ InHands(t) = 0 /\ Len(handling[t]) = 0
    BY <1>1 DEF Busy, InHands
<1>4. Taken = 0
    BY <1>2, <1>3 DEF Taken, Thread
<1>5. Ordered
  <2>1. queue \o wire = <<>> /\ DOMAIN <<>> = {}
      BY <1>1
  <2>2. InOrder(queue \o wire, Taken, sent)
      BY <1>2, <1>4, <2>1 DEF InOrder
  <2> QED
      BY <1>2, <1>4, <2>2 DEF Ordered
<1>6. Kept(0) = Unplaced
  <2>1. MovesTo(0) = {}
      BY DEF MovesTo
  <2> QED
      BY <2>1 DEF Kept
<1>7. Numbered /\ EnteredFirst /\ ToldExactly
    BY <1>2 DEF Numbered, EnteredFirst, ToldExactly
<1>8. Shaped /\ OneInHand /\ PointerKept
    BY <1>1, <1>2, <1>3, <1>6 DEF Shaped, OneInHand, PointerKept, Thread
<1> QED
    BY <1>5, <1>7, <1>8 DEF FlowInv

(* Steps that touch no input event.                                        *)
LEMMA FlowQuiet ==
  ASSUME FlowInv, UNCHANGED <<winsys, sent, early, told, handling, cur_pointer>>,
         queue' \o wire' = queue \o wire, "race" \in odd => "race" \in odd'
  PROVE  FlowInv'
<1>1. \A n : Kept(n)' = Kept(n) /\ Where(n)' = Where(n)
    BY SameWhere
<1>2. \A t \in Thread : (Busy(t)' <=> Busy(t)) /\ InHands(t)' = InHands(t)
    BY DEF Busy, InHands
<1>3. Taken' = Taken
    BY <1>2 DEF Taken, Thread
<1>4. Numbered' /\ EnteredFirst' /\ Shaped'
    BY DEF FlowInv, Numbered, EnteredFirst, Shaped
<1>5. Ordered'
    BY <1>3 DEF FlowInv, Ordered
<1>6. OneInHand'
    BY <1>2, <1>3 DEF FlowInv, OneInHand, Thread
<1>7. PointerKept'
    BY <1>1, <1>2 DEF FlowInv, PointerKept, Thread
<1>8. ToldExactly'
    BY <1>1 DEF FlowInv, ToldExactly
<1> QED
    BY <1>4, <1>5, <1>6, <1>7, <1>8 DEF FlowInv

(* What all of it is, and how much is in hand.                             *)
LEMMA FlowTypes ==
  ASSUME TypeInv, NEW t \in Thread
  PROVE  /\ queue \in Seq(Event) /\ wire \in Seq(Event) /\ queue \o wire \in Seq(Event)
         /\ sent \in Seq(Inputs) /\ Len(sent) \in Nat /\ DOMAIN sent = 1..Len(sent)
         /\ Len(told) \in Nat /\ DOMAIN told = 1..Len(told) /\ Taken \in Nat
         /\ handling \in [Thread -> Seq(Event)]
         /\ Thread = {"main", "event"} /\ Other(t) \in Thread /\ Other(t) # t
         /\ Thread = {t, Other(t)}
         /\ Taken = Len(told) + InHands(t) + InHands(Other(t))
         /\ \A u \in Thread : InHands(u) \in {0, 1} /\ (InHands(u) = 1 <=> Busy(u))
         /\ handling[t] # <<>> => Len(handling[t]) \in Nat /\ Len(handling[t]) > 0 /\ handling[t][1] \in Event
         /\ handling[t] # <<>> => winsys = "wayland"
<1>1. /\ queue \in Seq(Event) /\ wire \in Seq(Event) /\ sent \in Seq(Inputs)
      /\ told \in Seq((1..MaxEvents) \X (Int \X Int)) /\ handling \in [Thread -> Seq(Event)]
    BY DEF TypeInv, TypeOK
<1>2. /\ queue \o wire \in Seq(Event) /\ Len(sent) \in Nat /\ DOMAIN sent = 1..Len(sent)
      /\ Len(told) \in Nat /\ DOMAIN told = 1..Len(told)
    BY <1>1, ConcatProperties, LenProperties
<1>3. \A u \in Thread : InHands(u) \in {0, 1} /\ (InHands(u) = 1 <=> Busy(u))
    BY DEF InHands
<1>4. Thread = {"main", "event"} /\ Other(t) \in Thread /\ Other(t) # t /\ Thread = {t, Other(t)}
  <2>1. \E u \in Thread : u # t
      BY DEF Thread
  <2>2. Other(t) \in Thread /\ Other(t) # t
      BY <2>1 DEF Other
  <2> QED
      BY <2>2 DEF Thread
<1>5. Taken = Len(told) + InHands(t) + InHands(Other(t)) /\ Taken \in Nat
  <2>1. /\ InHands("main") \in {0, 1} /\ InHands("event") \in {0, 1}
        /\ (t = "main" /\ Other(t) = "event") \/ (t = "event" /\ Other(t) = "main")
      BY <1>3, <1>4
  <2> QED
      BY <1>2, <2>1 DEF Taken
<1>6. handling[t] # <<>> => Len(handling[t]) \in Nat /\ Len(handling[t]) > 0 /\ handling[t][1] \in Event
    BY <1>1, FrontOfSeq
<1>7. handling[t] # <<>> => winsys = "wayland"
    BY DEF TypeInv, XPlain
<1> QED
    BY <1>1, <1>2, <1>3, <1>4, <1>5, <1>6, <1>7

(* Reading moves events from the wire to the queue and no further.         *)
LEMMA FlowMoved ==
  ASSUME TypeInv, FlowInv, UNCHANGED <<winsys, sent, early, told, handling, cur_pointer>>,
         UNCHANGED <<wire, queue>> \/ (queue' = queue \o wire /\ wire' = <<>>),
         "race" \in odd => "race" \in odd'
  PROVE  FlowInv'
<1>1. queue \o wire \in Seq(Event)
    BY FlowTypes DEF Thread
<1>2. queue' \o wire' = queue \o wire
    BY <1>1, ConcatEmptySeq
<1> QED
    BY <1>2, FlowQuiet

(* The host sends one more event, answers a request or hangs up.           *)
LEMMA FlowHost ==
  ASSUME TypeInv, FlowInv, Setup, Host
  PROVE  FlowInv'
<1> USE DEF configVars, hostVars, libVars, windowVars, pastVars
<1>1. UNCHANGED <<winsys, queue, told, handling, cur_pointer, odd>>
    BY DEF Host, Announce, Answer, HostInput, HostPing, HostHangsUp, HostOnly
<1>2. /\ queue \in Seq(Event) /\ wire \in Seq(Event) /\ queue \o wire \in Seq(Event)
      /\ sent \in Seq(Inputs) /\ Len(sent) \in Nat /\ DOMAIN sent = 1..Len(sent)
      /\ Len(told) \in Nat /\ DOMAIN told = 1..Len(told) /\ Taken \in Nat
      /\ Thread = {"main", "event"}
    BY FlowTypes DEF Thread
<1>3. /\ \A t \in Thread : (Busy(t)' <=> Busy(t)) /\ InHands(t)' = InHands(t)
      /\ Taken' = Taken
  <2>1. \A t \in Thread : (Busy(t)' <=> Busy(t)) /\ InHands(t)' = InHands(t)
      BY <1>1 DEF Busy, InHands
  <2> QED
      BY <1>1, <2>1 DEF Taken, Thread
<1>4. ASSUME NEW p \in Seq(Event), wire' = wire \o p, \A i \in DOMAIN p : p[i].n = 0,
             UNCHANGED <<sent, early>>
      PROVE  FlowInv'
  <2>1. queue' \o wire' = (queue \o wire) \o p
    <3>1. queue' = queue /\ wire' = wire \o p
        BY <1>1, <1>4
    <3>2. \A S : \A q, w \in Seq(S) : p \in Seq(S) => q \o (w \o p) = (q \o w) \o p
        BY ConcatAssociative
    <3>3. queue \o (wire \o p) = (queue \o wire) \o p
        BY <1>2, <1>4, <3>2
    <3> QED
        BY <3>1, <3>3
  <2>2. InOrder((queue \o wire) \o p, Taken, sent)
      BY <1>2, <1>4, OrderPlain DEF FlowInv, Ordered
  <2>3. Ordered'
      BY <1>3, <1>4, <2>1, <2>2 DEF FlowInv, Ordered
  <2>4. \A n : Kept(n)' = Kept(n) /\ Where(n)' = Where(n)
      BY <1>1, <1>4, SameWhere
  <2>5. Numbered' /\ EnteredFirst' /\ Shaped'
      BY <1>1, <1>4 DEF FlowInv, Numbered, EnteredFirst, Shaped
  <2>6. OneInHand' /\ PointerKept' /\ ToldExactly'
      BY <1>1, <1>3, <1>4, <2>4 DEF FlowInv, OneInHand, PointerKept, ToldExactly, Thread
  <2> QED
      BY <2>3, <2>5, <2>6 DEF FlowInv
<1>5. ASSUME Announce \/ \E r \in Request : Answer(r) PROVE FlowInv'
  <2>1. PICK p \in Seq(Event) : wire' = wire \o p /\ \A i \in DOMAIN p : p[i].n = 0
      BY <1>5, Answers DEF TypeInv
  <2>2. UNCHANGED <<sent, early>>
      BY <1>5 DEF Announce, Answer
  <2> QED
      BY <1>4, <2>1, <2>2
<1>6. CASE HostPing
  <2>1. <<Plain("ping")>> \in Seq(Event) /\ \A i \in DOMAIN <<Plain("ping")>> : <<Plain("ping")>>[i].n = 0
      BY EventFacts DEF Plain
  <2>2. wire' = wire \o <<Plain("ping")>> /\ UNCHANGED <<sent, early>>
      BY <1>2, <1>6, EventFacts, AppendIsConcat DEF HostPing
  <2> QED
      BY <1>4, <2>1, <2>2
<1>7. CASE HostHangsUp
    BY <1>1, <1>7, FlowQuiet DEF HostHangsUp
<1>8. CASE HostInput
  <2>1. PICK e \in Inputs : /\ e \in Event /\ e.n = Len(sent) + 1
                            /\ wire' = Append(wire, e) /\ sent' = Append(sent, e)
                            /\ winsys = "wayland" /\ ~Entered => e.kind \in {"enter", "key"}
      BY <1>8, Inputted DEF TypeInv
  <2>2. /\ Len(sent') = Len(sent) + 1 /\ DOMAIN sent' = 1..(Len(sent) + 1)
        /\ \A m \in 1..Len(sent) : sent'[m] = sent[m]
        /\ sent'[Len(sent) + 1] = e
      BY <1>2, <2>1, AppendProperties, LenProperties
  <2>3. Ordered'
    <3>1. queue' \o wire' = Append(queue \o wire, e)
        BY <1>1, <1>2, <2>1, JoinedAppend
    <3>2. InOrder(Append(queue \o wire, e), Taken, sent')
        BY <1>2, <2>1, OrderInput DEF FlowInv, Ordered
    <3> QED
        BY <1>2, <1>3, <2>2, <3>1, <3>2 DEF FlowInv, Ordered
  <2>4. Numbered'
      BY <1>2, <2>1, <2>2 DEF FlowInv, Numbered
  <2>5. EnteredFirst'
    <3> SUFFICES ASSUME winsys = "wayland", NEW n \in 1..(Len(sent) + 1), sent'[n].kind = "button"
                 PROVE  \E m \in 1..n : sent'[m].kind = "enter"
        BY <1>1, <2>2 DEF EnteredFirst
    <3>1. CASE n \in 1..Len(sent)
      <4>1. PICK m \in 1..n : sent[m].kind = "enter"
          BY <1>2, <2>2, <3>1 DEF FlowInv, EnteredFirst
      <4>2. m \in 1..Len(sent)
          BY <1>2, <3>1
      <4> QED
          BY <2>2, <4>1, <4>2
    <3>2. CASE n = Len(sent) + 1
      <4>1. Entered
          BY <2>1, <2>2, <3>2
      <4>2. PICK m \in 1..Len(sent) : sent[m].kind = "enter"
          BY <1>2, <4>1 DEF Entered
      <4> QED
          BY <1>2, <2>2, <3>2, <4>2
    <3> QED
        BY <1>2, <3>1, <3>2
  <2>6. Shaped'
      BY <1>1 DEF FlowInv, Shaped
  <2>7. \A n \in Nat : n <= Len(sent) => Kept(n)' = Kept(n) /\ (n > 0 => Where(n)' = Where(n))
      BY <1>1, <1>2, <2>1, KeptStays DEF FlowInv
  <2>8. "race" \notin odd => Taken \in Nat /\ Len(told) <= Len(sent)
    <3>1. \A t \in Thread : InHands(t) \in {0, 1}
        BY DEF InHands
    <3> QED
        BY <1>2, <3>1 DEF FlowInv, Ordered, Taken
  <2>9. OneInHand'
    <3>1. \A t \in Thread : handling'[t] = handling[t]
        BY <1>1
    <3> QED
        BY <1>1, <1>2, <1>3, <2>2, <3>1 DEF FlowInv, OneInHand
  <2>10. PointerKept'
      BY <1>1, <1>2, <1>3, <2>7, <2>8 DEF FlowInv, PointerKept
  <2>11. ToldExactly'
    <3> SUFFICES ASSUME "race" \notin odd, NEW i \in DOMAIN told
                 PROVE  told[i] = <<i, Where(i)'>> \/ (told[i] = <<i, Untold>> /\ i <= early')
        BY <1>1 DEF ToldExactly
    <3>1. i \in Nat /\ i > 0 /\ i <= Len(sent)
        BY <1>2, <2>8
    <3>2. i <= early => i <= early'
      <4>1. early' = IF phase = "serve" THEN early ELSE Len(sent) + 1
          BY <1>8, <2>2 DEF HostInput
      <4> QED
          BY <1>2, <3>1, <4>1 DEF Setup
    <3> QED
        BY <2>7, <3>1, <3>2 DEF FlowInv, ToldExactly
  <2> QED
      BY <2>3, <2>4, <2>5, <2>6, <2>9, <2>10, <2>11 DEF FlowInv
<1> QED
    BY <1>5, <1>6, <1>7, <1>8 DEF Host

(* A thread takes the first event of the queue in hand.                    *)
LEMMA FlowTake ==
  ASSUME TypeInv, FlowInv, NEW t \in Thread, Take(t)
  PROVE  FlowInv'
<1> USE DEF configVars, hostVars, libVars, windowVars, pastVars
<1> DEFINE u == Other(t)
           q == queue \o wire
           h == Head(queue)
<1>1. /\ handling[t] = <<>> /\ queue # <<>> /\ queue' = Tail(queue)
      /\ handling' = [handling EXCEPT ![t] = <<h>>]
      /\ odd' = odd \union (IF h.n > 0 /\ handling[u] # <<>> /\ handling[u][1].n > 0
                            THEN {"race"} ELSE {})
      /\ UNCHANGED <<winsys, wire, sent, early, told, cur_pointer>>
    BY DEF Take
<1>2. /\ queue \in Seq(Event) /\ wire \in Seq(Event) /\ q \in Seq(Event)
      /\ sent \in Seq(Inputs) /\ Len(sent) \in Nat /\ DOMAIN sent = 1..Len(sent)
      /\ Len(told) \in Nat /\ Taken \in Nat /\ handling \in [Thread -> Seq(Event)]
      /\ Thread = {"main", "event"} /\ u \in Thread /\ u # t /\ Thread = {t, u}
      /\ Taken = Len(told) + InHands(t) + InHands(u)
      /\ \A v \in Thread : InHands(v) \in {0, 1} /\ (InHands(v) = 1 <=> Busy(v))
    BY FlowTypes
<1>3. /\ q # <<>> /\ Head(q) = h /\ queue' \o wire' = Tail(q) /\ h \in Event /\ h.n \in Nat
  <2>1. q # <<>> /\ Head(q) = h /\ Tail(q) = Tail(queue) \o wire
      BY <1>1, <1>2, JoinedTail
  <2>2. h \in Event
      BY <1>1, <1>2, FrontOfSeq
  <2> QED
      BY <1>1, <2>1, <2>2, EventFacts
<1>4. /\ handling'[t] = <<h>> /\ handling'[t] # <<>> /\ handling'[t][1] = h /\ Len(handling'[t]) = 1
      /\ handling'[u] = handling[u] /\ ~Busy(t) /\ (Busy(u)' <=> Busy(u))
      /\ (Busy(t)' <=> h.n > 0)
    BY <1>1, <1>2 DEF Busy
<1>5. "race" \notin odd' => "race" \notin odd /\ ~(h.n > 0 /\ Busy(u))
    BY <1>1 DEF Busy
<1>6. /\ Len(told') = Len(told) /\ InHands(u)' = InHands(u) /\ InHands(t) = 0
      /\ InHands(t)' = IF h.n > 0 THEN 1 ELSE 0
    BY <1>1, <1>4 DEF InHands
<1>7. Taken' = IF h.n > 0 THEN Taken + 1 ELSE Taken
  <2>1. Taken' = Len(told) + InHands(t)' + InHands(u)'
    <3>1. /\ InHands("main")' \in {0, 1} /\ InHands("event")' \in {0, 1}
          /\ (t = "main" /\ u = "event") \/ (t = "event" /\ u = "main")
        BY <1>2 DEF InHands
    <3> HIDE DEF u
    <3> QED
        BY <1>2, <1>6, <3>1 DEF Taken
  <2> QED
      BY <1>2, <1>6, <2>1
<1>8. InOrder(q, Taken, sent) /\ Taken <= Len(sent)
    BY DEF FlowInv, Ordered
<1>9. /\ h.n = 0 => InOrder(Tail(q), Taken, sent)
      /\ h.n > 0 => /\ Taken + 1 \in DOMAIN sent /\ h = sent[Taken + 1]
                    /\ InOrder(Tail(q), Taken + 1, sent)
    BY <1>2, <1>3, <1>8, OrderTail
<1> HIDE DEF u, q, h
<1>10. Ordered'
  <2>1. h.n = 0 \/ h.n > 0
      BY <1>3
  <2>2. InOrder(Tail(q), Taken', sent)
      BY <1>7, <1>9, <2>1
  <2>3. Taken' <= Len(sent)
      BY <1>2, <1>7, <1>8, <1>9, <2>1
  <2>4. queue' \o wire' = Tail(q) /\ sent' = sent
      BY <1>1, <1>3
  <2> QED
      BY <2>2, <2>3, <2>4 DEF Ordered
<1>11. Numbered' /\ EnteredFirst'
    BY <1>1 DEF FlowInv, Numbered, EnteredFirst
<1>12. Shaped'
  <2> SUFFICES ASSUME NEW v \in Thread, Len(handling'[v]) > 1 PROVE handling'[v][1].kind \in Movers
      BY DEF Shaped
  <2>1. CASE v = t
    <3>1. Len(handling'[v]) = 1
        BY <1>4, <2>1
    <3>2. ~(1 > 1)
        OBVIOUS
    <3> HIDE DEF Shaped
    <3> QED
        BY <3>1, <3>2
  <2>2. CASE v = u
    <3>1. handling'[v] = handling[v]
        BY <1>4, <2>2
    <3> QED
        BY <3>1 DEF FlowInv, Shaped
  <2> QED
      BY <1>2, <2>1, <2>2
<1>13. \A n : Kept(n)' = Kept(n) /\ Where(n)' = Where(n)
    BY <1>1, SameWhere
<1>14. ToldExactly'
    BY <1>1, <1>5, <1>13 DEF FlowInv, ToldExactly
<1>15. OneInHand'
  <2> SUFFICES ASSUME "race" \notin odd'
               PROVE  /\ ~(Busy(t)' /\ Busy(u)')
                      /\ \A v \in {t, u} : Busy(v)' => Taken' \in DOMAIN sent /\ handling'[v][1] = sent[Taken']
    BY <1>1, <1>2 DEF OneInHand
  <2>1. ~(Busy(t)' /\ Busy(u)')
      BY <1>4, <1>5
  <2>2. Busy(t)' => Taken' \in DOMAIN sent /\ handling'[t][1] = sent[Taken']
      BY <1>4, <1>7, <1>9
  <2>3. ASSUME Busy(u)' PROVE Taken' \in DOMAIN sent /\ handling'[u][1] = sent[Taken']
    <3>1. Taken' = Taken /\ Busy(u)
        BY <1>3, <1>4, <1>5, <1>7, <2>3
    <3> QED
        BY <1>2, <1>4, <1>5, <3>1 DEF FlowInv, OneInHand
  <2> QED
      BY <2>1, <2>2, <2>3
<1>16. PointerKept'
  <2> SUFFICES ASSUME "race" \notin odd', winsys = "wayland"
               PROVE  /\ ~Busy(t)' /\ ~Busy(u)' => cur_pointer = Kept(Len(told))
                      /\ \A v \in {t, u} : Busy(v)' =>
                           /\ Len(handling'[v]) = 1 => cur_pointer = Kept(Len(told))
                           /\ Len(handling'[v]) = 2 => cur_pointer[1] = KeptAt(handling'[v][1])[1]
                           /\ Len(handling'[v]) = 3 => cur_pointer = KeptAt(handling'[v][1])
    BY <1>1, <1>2, <1>13 DEF PointerKept
  <2>1. ~Busy(u) => cur_pointer = Kept(Len(told))
      BY <1>2, <1>4, <1>5 DEF FlowInv, PointerKept
  <2>2. Busy(u) => /\ Len(handling[u]) = 1 => cur_pointer = Kept(Len(told))
                   /\ Len(handling[u]) = 2 => cur_pointer[1] = KeptAt(handling[u][1])[1]
                   /\ Len(handling[u]) = 3 => cur_pointer = KeptAt(handling[u][1])
      BY <1>2, <1>5 DEF FlowInv, PointerKept
  <2>3. CASE h.n > 0
    <3>1. ~Busy(u)' /\ Busy(t)' /\ cur_pointer = Kept(Len(told))
        BY <1>4, <1>5, <2>1, <2>3
    <3>2. \A n : n = 1 => n # 2 /\ n # 3
        OBVIOUS
    <3>3. Len(handling'[t]) # 2 /\ Len(handling'[t]) # 3
        BY <1>4, <3>2
    <3> QED
        BY <3>1, <3>3
  <2>4. CASE ~(h.n > 0)
    <3>1. ~Busy(t)' /\ (Busy(u)' <=> Busy(u)) /\ handling'[u] = handling[u]
        BY <1>4, <2>4
    <3> QED
        BY <2>1, <2>2, <3>1
  <2> QED
      BY <2>3, <2>4
<1> QED
    BY <1>10, <1>11, <1>12, <1>14, <1>15, <1>16 DEF FlowInv

(* An event that is no input is handled and gone.                          *)
LEMMA FlowHandle ==
  ASSUME TypeInv, FlowInv, NEW t \in Thread, Handle(t)
  PROVE  FlowInv'
<1> USE DEF configVars, hostVars, libVars, windowVars, pastVars
<1>1. /\ handling[t] # <<>> /\ handling[t][1].kind \in Global \union {"capabilities", "ping"}
      /\ handling' = [handling EXCEPT ![t] = <<>>]
      /\ UNCHANGED <<winsys, queue, wire, sent, early, told, cur_pointer, odd>>
    BY DEF Handle, Handled, InHand
<1>2. /\ handling \in [Thread -> Seq(Event)] /\ Thread = {"main", "event"}
      /\ handling[t][1] \in Event
    BY <1>1, FlowTypes
<1>3. handling[t][1].n = 0
  <2>1. handling[t][1].kind \notin Input
      BY <1>1 DEF Global, Input
  <2> QED
      BY <1>2, <2>1, EventFacts
<1>4. /\ \A v \in Thread : v # t => handling'[v] = handling[v]
      /\ handling'[t] = <<>> /\ ~Busy(t) /\ ~Busy(t)' /\ Len(handling'[t]) = 0
    BY <1>1, <1>2, <1>3 DEF Busy
<1>5. \A v \in Thread : (Busy(v)' <=> Busy(v)) /\ InHands(v)' = InHands(v)
    BY <1>4 DEF Busy, InHands
<1>6. Taken' = Taken
    BY <1>1, <1>5 DEF Taken, Thread
<1>7. \A n : Kept(n)' = Kept(n) /\ Where(n)' = Where(n)
    BY <1>1, SameWhere
<1>8. Numbered' /\ EnteredFirst' /\ Ordered' /\ ToldExactly'
    BY <1>1, <1>6, <1>7 DEF FlowInv, Numbered, EnteredFirst, Ordered, ToldExactly
<1>9. Shaped'
    BY <1>4 DEF FlowInv, Shaped
<1>10. OneInHand'
    BY <1>1, <1>4, <1>5, <1>6, <1>2 DEF FlowInv, OneInHand
<1>11. PointerKept'
    BY <1>1, <1>4, <1>5, <1>7, <1>2 DEF FlowInv, PointerKept
<1> QED
    BY <1>8, <1>9, <1>10, <1>11 DEF FlowInv

(* A coordinate of the event in hand is stored in cur_pointer.             *)
LEMMA FlowStore ==
  ASSUME TypeInv, FlowInv, NEW t \in Thread, Store(t)
  PROVE  FlowInv'
<1> USE DEF configVars, hostVars, libVars, windowVars, pastVars
<1> DEFINE e == handling[t][1]
           axis == Len(handling[t])
<1>1. /\ handling[t] # <<>> /\ e.kind \in Movers /\ axis < 3
      /\ handling' = [handling EXCEPT ![t] = Append(handling[t], e)]
      /\ cur_pointer' = [cur_pointer EXCEPT ![axis] = KeptAt(e)[axis]]
      /\ UNCHANGED <<winsys, queue, wire, sent, early, told, odd>>
    BY DEF Store, InHand, Movers
<1>2. /\ handling \in [Thread -> Seq(Event)] /\ Thread = {"main", "event"}
      /\ e \in Event /\ axis \in Nat /\ axis > 0
    BY <1>1, FlowTypes
<1>3. /\ handling'[t] # <<>> /\ handling'[t][1] = e /\ Len(handling'[t]) = axis + 1
      /\ \A v \in Thread : v # t => handling'[v] = handling[v]
  <2>1. /\ handling'[t] = Append(handling[t], e)
        /\ \A v \in Thread : v # t => handling'[v] = handling[v]
      BY <1>1, <1>2
  <2>2. /\ Append(handling[t], e) # <<>> /\ Len(Append(handling[t], e)) = axis + 1
        /\ Append(handling[t], e)[1] = handling[t][1]
      BY <1>2, AppendProperties
  <2> QED
      BY <2>1, <2>2
<1>4. \A v \in Thread : /\ (Busy(v)' <=> Busy(v)) /\ InHands(v)' = InHands(v)
                        /\ Busy(v) => handling'[v][1] = handling[v][1]
    BY <1>1, <1>3 DEF Busy, InHands
<1>5. Taken' = Taken
    BY <1>1, <1>4 DEF Taken, Thread
<1>6. \A n : Kept(n)' = Kept(n) /\ Where(n)' = Where(n)
    BY <1>1, SameWhere
<1>7. Numbered' /\ EnteredFirst' /\ Ordered' /\ ToldExactly'
    BY <1>1, <1>5, <1>6 DEF FlowInv, Numbered, EnteredFirst, Ordered, ToldExactly
<1>8. Shaped'
    BY <1>1, <1>3 DEF FlowInv, Shaped
<1>9. OneInHand'
    BY <1>1, <1>2, <1>4, <1>5 DEF FlowInv, OneInHand
<1>10. Busy(t)
  <2>1. e.kind \in Input
      BY <1>1 DEF Movers, Input
  <2> QED
      BY <1>1, <1>2, <2>1, EventFacts DEF Busy
<1>11. PointerKept'
  <2> SUFFICES ASSUME "race" \notin odd, winsys = "wayland"
               PROVE  /\ Len(handling'[t]) = 1 => cur_pointer' = Kept(Len(told))
                      /\ Len(handling'[t]) = 2 => cur_pointer'[1] = KeptAt(e)[1]
                      /\ Len(handling'[t]) = 3 => cur_pointer' = KeptAt(e)
    <3>1. "race" \notin odd => \A v \in Thread : Busy(v) => v = t
        BY <1>2, <1>10 DEF FlowInv, OneInHand
    <3> QED
        BY <1>1, <1>2, <1>3, <1>4, <1>6, <1>10, <3>1 DEF PointerKept
  <2>1. cur_pointer \in Int \X Int
      BY DEF TypeInv, TypeOK
  <2>2. KeptAt(e) = <<KeptAt(e)[1], KeptAt(e)[2]>>
      BY DEF KeptAt, Point
  <2>3. CASE axis = 1
      BY <1>1, <1>3, <2>1, <2>3
  <2>4. CASE axis = 2
    <3>1. cur_pointer[1] = KeptAt(e)[1]
        BY <1>10, <2>4 DEF FlowInv, PointerKept
    <3>2. cur_pointer' = <<cur_pointer[1], KeptAt(e)[2]>>
        BY <1>1, <2>1, <2>4
    <3> QED
        BY <1>3, <2>2, <2>4, <3>1, <3>2
  <2>5. axis = 1 \/ axis = 2
    <3>1. axis \in Nat /\ axis > 0 /\ axis < 3
        BY <1>1, <1>2
    <3> HIDE DEF axis
    <3> QED
        BY <3>1
  <2> QED
      BY <2>3, <2>4, <2>5
<1> QED
    BY <1>7, <1>8, <1>9, <1>11 DEF FlowInv

(* The compositor is told of the event in hand.                            *)
LEMMA FlowTell ==
  ASSUME TypeInv, TypeInv', FlowInv, Setup, NEW t \in Thread, Tell(t)
  PROVE  FlowInv'
<1> USE DEF configVars, hostVars, libVars, windowVars, pastVars
<1> DEFINE e == handling[t][1]
           u == Other(t)
           where == CASE ~IsSet(e.kind) -> Untold
                      [] IsSet(e.kind) /\ e.kind = "leave" -> Outside
                      [] IsSet(e.kind) /\ e.kind = "key" -> Unplaced
                      [] OTHER -> cur_pointer
           k == Len(told)
<1>1. /\ handling[t] # <<>> /\ e.kind \in Input
      /\ Len(handling[t]) = IF e.kind \in Movers THEN 3 ELSE 1
      /\ handling' = [handling EXCEPT ![t] = <<>>] /\ told' = Append(told, <<e.n, where>>)
      /\ UNCHANGED <<winsys, queue, wire, sent, early, cur_pointer, odd>>
    BY DEF Tell, InHand, Stored, Handled, Movers
<1>2. /\ handling \in [Thread -> Seq(Event)] /\ Thread = {"main", "event"}
      /\ e \in Event /\ winsys = "wayland"
      /\ sent \in Seq(Inputs) /\ k \in Nat /\ DOMAIN told = 1..k /\ Taken \in Nat
      /\ u \in Thread /\ u # t /\ Thread = {t, u} /\ Taken = k + InHands(t) + InHands(u)
      /\ \A v \in Thread : InHands(v) \in {0, 1} /\ (InHands(v) = 1 <=> Busy(v))
    BY <1>1, FlowTypes
<1>3. Busy(t) /\ InHands(t) = 1
    BY <1>1, <1>2, EventFacts DEF Busy
<1>4. /\ handling'[t] = <<>> /\ handling'[u] = handling[u] /\ ~Busy(t)' /\ (Busy(u)' <=> Busy(u))
      /\ InHands(t)' = 0 /\ InHands(u)' = InHands(u) /\ Len(handling'[t]) = 0
    BY <1>1, <1>2 DEF Busy, InHands
<1>5. /\ Len(told') = k + 1 /\ DOMAIN told' = 1..(k + 1)
      /\ \A i \in 1..k : told'[i] = told[i]
      /\ told'[k + 1] = <<e.n, where>>
  <2>1. told \in Seq((1..MaxEvents) \X (Int \X Int)) /\ told' \in Seq((1..MaxEvents) \X (Int \X Int))
      BY DEF TypeInv, TypeOK
  <2> QED
      BY <1>1, <2>1, AppendProperties, LenProperties
<1> HIDE DEF e, u, where, k
<1>6. Taken' = Taken
  <2>1. Taken' = k + 1 + InHands(t)' + InHands(u)'
    <3>1. /\ InHands("main")' \in {0, 1} /\ InHands("event")' \in {0, 1}
          /\ (t = "main" /\ u = "event") \/ (t = "event" /\ u = "main")
        BY <1>2 DEF InHands
    <3> QED
        BY <1>2, <1>5, <3>1 DEF Taken
  <2> QED
      BY <1>2, <1>3, <1>4, <2>1
<1>7. \A n : Kept(n)' = Kept(n) /\ Where(n)' = Where(n)
    BY <1>1, SameWhere
<1>8. Numbered' /\ EnteredFirst' /\ Ordered'
    BY <1>1, <1>6 DEF FlowInv, Numbered, EnteredFirst, Ordered
<1>9. Shaped'
    BY <1>2, <1>4 DEF FlowInv, Shaped
<1>10. CASE "race" \in odd
    BY <1>1, <1>8, <1>9, <1>10 DEF FlowInv, OneInHand, PointerKept, ToldExactly
<1>11. CASE "race" \notin odd
  <2>1. /\ ~Busy(u) /\ Taken = k + 1 /\ k + 1 \in DOMAIN sent /\ e = sent[k + 1]
    <3>1. ~Busy(u)
        BY <1>2, <1>3, <1>11 DEF FlowInv, OneInHand
    <3>2. Taken = k + 1
        BY <1>2, <1>3, <3>1
    <3> QED
        BY <1>3, <1>11, <3>1, <3>2 DEF FlowInv, OneInHand, e
  <2>2. e.n = k + 1
      BY <2>1 DEF FlowInv, Numbered
  <2>3. /\ e.kind \in Movers => cur_pointer = KeptAt(e)
        /\ e.kind \notin Movers => cur_pointer = Kept(k)
      BY <1>1, <1>2, <1>3, <1>11 DEF FlowInv, PointerKept, e, k
  <2>4. cur_pointer = Kept(k + 1)
      BY <1>2, <2>1, <2>3, KeptNext
  <2>5. where = Where(k + 1) \/ (where = Untold /\ k + 1 <= early)
    <3>4. CASE ~IsSet(e.kind)
      <4>1. early = Len(sent)
          BY <1>1, <3>4, UnsetIsEarly
      <4>2. k + 1 <= Len(sent)
          BY <1>2, <2>1, LenProperties
      <4> QED
          BY <3>4, <4>1, <4>2 DEF where
    <3>1. Where(k + 1) = CASE e.kind = "leave" -> Outside
                           [] e.kind = "key" -> Unplaced
                           [] OTHER -> KeptAt(sent[LastMove(k + 1)])
        BY <1>2, <2>1, WhereIs
    <3>2. e.kind \in {"leave", "key"} \/ MovesTo(k + 1) # {}
        BY <1>2, <2>1, MovedBefore DEF FlowInv
    <3>3. MovesTo(k + 1) # {} => cur_pointer = KeptAt(sent[LastMove(k + 1)])
        BY <2>4 DEF Kept
    <3>5. CASE IsSet(e.kind)
        BY <3>1, <3>2, <3>3, <3>5 DEF where
    <3> QED
        BY <3>4, <3>5
  <2>6. ToldExactly'
    <3> SUFFICES ASSUME NEW i \in 1..(k + 1)
                 PROVE  told'[i] = <<i, Where(i)>> \/ (told'[i] = <<i, Untold>> /\ i <= early)
        BY <1>1, <1>5, <1>7 DEF ToldExactly
    <3>1. CASE i = k + 1
        BY <1>5, <2>2, <2>5, <3>1
    <3>2. CASE i # k + 1
      <4>1. i \in 1..k
          BY <1>2, <3>2
      <4> QED
          BY <1>2, <1>5, <1>11, <4>1 DEF FlowInv, ToldExactly
    <3> QED
        BY <3>1, <3>2
  <2>7. OneInHand' /\ PointerKept'
      BY <1>1, <1>2, <1>4, <1>5, <1>7, <2>1, <2>4 DEF OneInHand, PointerKept
  <2> QED
      BY <1>8, <1>9, <2>6, <2>7 DEF FlowInv
<1> QED
    BY <1>10, <1>11

(* Under X the event is told as it is taken.                               *)
LEMMA FlowXNext ==
  ASSUME TypeInv, TypeInv', FlowInv, Setup, XNext
  PROVE  FlowInv'
<1> USE DEF configVars, hostVars, libVars, windowVars, pastVars
<1> DEFINE q == queue \o wire
           e == Head(q)
           where == CASE ~IsSet(e.kind) -> Untold
                      [] IsSet(e.kind) /\ e.kind = "key" -> Unplaced
                      [] OTHER -> Point(e.n)
           k == Len(told)
<1>1. /\ winsys # "wayland" /\ told' = Append(told, <<e.n, where>>)
      /\ UNCHANGED <<winsys, sent, early, handling, cur_pointer>>
      /\ "race" \in odd' <=> "race" \in odd
    BY DEF XNext, XOnly
<1>2. /\ queue \in Seq(XInputs) /\ wire \in Seq(XInputs) /\ sent \in Seq(XInputs)
      /\ \A t \in Thread : handling[t] = <<>> /\ ~Busy(t) /\ InHands(t) = 0 /\ Len(handling[t]) = 0
    BY <1>1 DEF TypeInv, XPlain, Busy, InHands
<1>3. /\ q \in Seq(Event) /\ sent \in Seq(Inputs) /\ DOMAIN sent = 1..Len(sent) /\ Len(sent) \in Nat
      /\ k \in Nat /\ DOMAIN told = 1..k
    BY FlowTypes DEF Thread
<1>4. Taken = k
    BY <1>2, <1>3 DEF Taken, Thread
<1>5. /\ q \in Seq(XInputs) /\ q # <<>> /\ queue' \o wire' = Tail(q)
  <2>1. q # <<>> /\ q \in Seq(XInputs)
      BY <1>2, ConcatProperties DEF XNext
  <2>2. CASE queue # <<>> /\ queue' = Tail(queue) /\ wire' = wire
      BY <1>2, <2>1, <2>2, JoinedTail
  <2>3. CASE queue' = Tail(q) /\ wire' = <<>>
    <3>1. Tail(q) \in Seq(XInputs)
        BY <2>1, FrontOfSeq
    <3> QED
        BY <2>1, <2>3, <3>1, ConcatEmptySeq
  <2> QED
      BY <2>1, <2>2, <2>3 DEF XNext
<1> HIDE DEF q
<1>6. e \in XInputs
    BY <1>5, FrontOfSeq
<1>7. /\ k + 1 \in DOMAIN sent /\ e = sent[k + 1] /\ e.n = k + 1 /\ InOrder(Tail(q), k + 1, sent)
  <2>1. e.n > 0
      BY <1>6 DEF XInputs
  <2>2. InOrder(q, k, sent)
      BY <1>4 DEF FlowInv, Ordered, q
  <2> QED
      BY <1>3, <1>5, <2>1, <2>2, OrderTail
<1>8. /\ Len(told') = k + 1 /\ DOMAIN told' = 1..(k + 1)
      /\ \A i \in 1..k : told'[i] = told[i]
      /\ told'[k + 1] = <<e.n, where>>
  <2>1. told \in Seq((1..MaxEvents) \X (Int \X Int)) /\ told' \in Seq((1..MaxEvents) \X (Int \X Int))
      BY DEF TypeInv, TypeOK
  <2> QED
      BY <1>1, <2>1, AppendProperties, LenProperties
<1> HIDE DEF q, e, where, k
<1>9. Taken' = k + 1
  <2>1. \A t \in Thread : InHands(t)' = 0
      BY <1>1, <1>2 DEF InHands, Busy
  <2> QED
      BY <1>3, <1>8, <2>1 DEF Taken, Thread
<1>10. Ordered'
    BY <1>1, <1>3, <1>5, <1>7, <1>9 DEF Ordered
<1>11. Numbered' /\ EnteredFirst'
    BY <1>1 DEF FlowInv, Numbered, EnteredFirst
<1>12. \A t \in Thread : ~Busy(t)' /\ Len(handling'[t]) = 0
    BY <1>1, <1>2 DEF Busy
<1>13. Shaped' /\ OneInHand' /\ PointerKept'
    BY <1>1, <1>12 DEF Shaped, OneInHand, PointerKept, Thread
<1>14. ToldExactly'
  <2> SUFFICES ASSUME "race" \notin odd, NEW i \in 1..(k + 1)
               PROVE  told'[i] = <<i, Where(i)>> \/ (told'[i] = <<i, Untold>> /\ i <= early)
    <3>1. \A n : Where(n)' = Where(n)
        BY <1>1, SameWhere
    <3> QED
        BY <1>1, <1>8, <3>1 DEF ToldExactly
  <2>1. CASE i = k + 1
    <3>1. e.kind # "leave" /\ e.kind \in Input
        BY <1>6 DEF XInputs, Input
    <3>2. CASE IsSet(e.kind)
      <4>1. Where(k + 1) = where
          BY <1>1, <1>7, <3>1, <3>2, WhereIs DEF where
      <4> QED
          BY <1>7, <1>8, <2>1, <4>1
    <3>3. CASE ~IsSet(e.kind)
      <4>1. where = Untold /\ early = Len(sent) /\ k + 1 <= Len(sent)
          BY <1>3, <1>7, <3>1, <3>3, UnsetIsEarly DEF where
      <4> QED
          BY <1>7, <1>8, <2>1, <4>1
    <3> QED
        BY <3>2, <3>3
  <2>2. CASE i # k + 1
    <3>1. i \in 1..k
        BY <1>3, <2>2
    <3> QED
        BY <1>3, <1>8, <3>1 DEF FlowInv, ToldExactly
  <2> QED
      BY <2>1, <2>2
<1> QED
    BY <1>10, <1>11, <1>13, <1>14 DEF FlowInv

(* Every step keeps the flow of the input.                                 *)
LEMMA FlowStep == TypeInv /\ TypeInv' /\ FlowInv /\ Setup /\ [Next]_vars => FlowInv'
<1> SUFFICES ASSUME TypeInv, TypeInv', FlowInv, Setup, [Next]_vars PROVE FlowInv'
    OBVIOUS
<1> USE DEF configVars, hostVars, libVars, windowVars, pastVars
<1>1. CASE Host
    BY <1>1, FlowHost
<1>2. ASSUME NEW t \in Thread, Wayland(t) PROVE FlowInv'
  <2>1. CASE Prepare(t) \/ FlushForRead(t) \/ Poll(t) \/ DispatchEnds(t)
      BY <2>1, FlowMoved DEF Prepare, FlushForRead, Poll, DispatchEnds
  <2>2. CASE Read(t)
    <3>1. UNCHANGED <<winsys, sent, early, told, handling, cur_pointer>> /\ ("race" \in odd => "race" \in odd')
        BY <2>2 DEF Read
    <3> QED
        BY <2>2, <3>1, ReadMoves, FlowMoved
  <2> QED
      BY <1>2, <2>1, <2>2, FlowTake, FlowHandle, FlowStore, FlowTell DEF Wayland
<1>3. CASE PollInterrupted \/ PollFails \/ CreateWindow \/ SetFunction
    BY <1>3, FlowMoved DEF PollInterrupted, PollFails, FaultOnly, CreateWindow, SetFunction
<1>4. CASE Swap
    BY <1>4, FlowMoved DEF Swap
<1>5. CASE ReadReply \/ XPoll \/ XPending \/ XcbDrained
    BY <1>5, FlowMoved DEF ReadReply, XPoll, XPending, XcbDrained, XOnly, Reads
<1>6. CASE XNext
    BY <1>6, FlowXNext
<1>7. CASE UNCHANGED vars
    BY <1>7, FlowMoved DEF vars
<1> QED
    BY <1>1, <1>2, <1>3, <1>4, <1>5, <1>6, <1>7 DEF Next

(* Where an event is told is the right place for it: of the two            *)
(* coordinates kept from pointer_handle_enter the x is.                    *)
LEMMA WhereIsRight ==
  ASSUME TypeInv, FlowInv, NEW n \in DOMAIN sent
  PROVE  Right(n, Where(n))
<1>1. /\ sent \in Seq(Inputs) /\ n \in 1..Len(sent) /\ Len(sent) \in Nat /\ n \in Nat
      /\ DOMAIN sent = 1..Len(sent)
    BY LenProperties DEF TypeInv, TypeOK
<1>2. sent[n].kind \in {"enter", "motion", "button", "leave", "key"}
  <2>1. sent[n] \in Inputs
      BY <1>1, ElementOfSeq
  <2> QED
      BY <2>1 DEF Inputs, Input
<1>3. CASE sent[n].kind \in {"leave", "key"}
    BY <1>3 DEF Right, Where
<1>4. CASE winsys # "wayland" /\ sent[n].kind \notin {"leave", "key"}
  <2>1. sent[n] \in XInputs
      BY <1>1, <1>4, ElementOfSeq DEF TypeInv, XPlain
  <2>2. sent[n].kind \in {"motion", "button"}
      BY <1>4, <2>1 DEF XInputs
  <2> QED
      BY <1>4, <2>2 DEF Right, Where
<1>5. CASE winsys = "wayland" /\ sent[n].kind \notin {"leave", "key"}
  <2> DEFINE m == LastMove(n)
  <2>1. MovesTo(n) # {}
      BY <1>1, <1>5, MovedBefore DEF FlowInv
  <2>2. m \in MovesTo(n)
      BY <1>1, <2>1, LastMoveIs
  <2>3. m \in DOMAIN sent /\ sent[m].kind \in Movers
      BY <1>1, <2>2 DEF MovesTo
  <2> HIDE DEF m
  <2>4. sent[m].n = m
      BY <2>3 DEF FlowInv, Numbered
  <2>5. /\ KeptAt(sent[m])[1] = Point(m)[1]
        /\ sent[m].kind = "motion" => KeptAt(sent[m])[2] = Point(m)[2]
      BY <2>3, <2>4 DEF KeptAt, Point, Movers
  <2>6. Where(n) = KeptAt(sent[m])
      BY <1>5 DEF Where, m
  <2> QED
      BY <1>2, <1>5, <2>5, <2>6 DEF Right, m
<1> QED
    BY <1>3, <1>4, <1>5

(* Every input event is handled once, in the order of the host, and told   *)
(* at its place; those sent before the last function was set may be        *)
(* dropped.  From where both threads have had input in hand nothing is     *)
(* claimed.                                                                *)
THEOREM InputIsToldAsSent == Spec => []ToldAsSent
<1>1. TypeInv /\ FlowInv => ToldAsSent
  <2> SUFFICES ASSUME TypeInv, FlowInv, "race" \notin odd, NEW i \in DOMAIN told
               PROVE  /\ told[i][1] = i
                      /\ Right(i, told[i][2]) \/ (told[i][2] = Untold /\ i <= early)
      BY DEF ToldAsSent
  <2>1. told[i] = <<i, Where(i)>> \/ (told[i] = <<i, Untold>> /\ i <= early)
      BY DEF FlowInv, ToldExactly
  <2>2. i \in DOMAIN sent
    <3>1. /\ Len(told) \in Nat /\ Len(sent) \in Nat /\ DOMAIN told = 1..Len(told)
          /\ DOMAIN sent = 1..Len(sent)
          /\ InHands("main") \in {0, 1} /\ InHands("event") \in {0, 1}
        BY FlowTypes DEF Thread
    <3>2. Len(told) + InHands("main") + InHands("event") <= Len(sent)
        BY DEF FlowInv, Ordered, Taken
    <3> QED
        BY <3>1, <3>2
  <2> QED
      BY <2>1, <2>2, WhereIsRight
<1> QED
    BY <1>1, FlowInit, FlowStep, SetupInit, SetupStep, TypeInit, TypeStep, ReadersInit, ReadersStep,
       PTL DEF Spec

================================================================================
