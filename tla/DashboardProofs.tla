--------------------------- MODULE DashboardProofs ---------------------------
(******************************************************************************)
(* What the replenishment panel shows, for every number of polls and fetches  *)
(* under way and of failing reads.  The calling server of Dashboard takes     *)
(* only steps of VendorCaller, so everything proved of the server holds       *)
(* here; what is added is about the requests of the Lambda.                   *)
(******************************************************************************)
EXTENDS Dashboard, FallbackProofs, WellFoundedInduction

-----------------------------------------------------------------------------
(******************************************************************************)
(* The inductive invariant.  Each request reads the server several times      *)
(* while the server moves on.  What makes its answer true nevertheless: the   *)
(* panel asks for the first call of an order, a fetch begins only when the    *)
(* order is closed, and a closed order never changes again; so what was read  *)
(* earlier, the copy in a warm instance included, agrees with what is read    *)
(* later.                                                                     *)
(******************************************************************************)
\* s is the call that the panel started for the order o, the first of it.
AskedFor(s, o) == PlacedFor(s, o) /\ HasChain(o) /\ FirstSid(o) = s

Closed(o) == HasChain(o) /\ order_chains[o].status \in {"FULFILLED", "FAILED"}

Result(o) == IF order_chains[o].status = "FULFILLED" THEN "YES" ELSE "NO"

Acceptor(o)  == order_chains[o].tried[Len(order_chains[o].tried)]
Decliners(o) == SubSeq(order_chains[o].tried, 1, Len(order_chains[o].tried) - 1)

\* A result is filed only under a call that has answered.
FiledWhenReported ==
    \A s \in Sids : call_transcripts_store[s] # NoTranscript => verdict[s] # "NONE"

OnlyPolled == {"poll", "poll_transcript", "in_progress"}
HasRead    == {"vendor", "answer"}

\* What a request has read of the order o so far is what o was settled as.
ReadSoFar(r, o) ==
    /\ r.at \notin OnlyPolled => Closed(o)
    /\ r.at \in HasRead \cup {"chain"} => r.found.decision = Result(o)
    /\ \/ r.rejected = <<>>
       \/ r.at \in HasRead /\ Result(o) = "YES" /\ r.rejected = Decliners(o)
    /\ r.at \in HasRead /\ Result(o) = "YES" /\ read_errors = 0 =>
          r.rejected = Decliners(o)
    /\ r.at = "answer" =>
          /\ r.vendor \in Vendors \cup {Generic}
          /\ Result(o) = "YES" /\ read_errors = 0 => r.vendor = Acceptor(o)

RequestTrue(r) ==
    r.at # "idle" => \E o \in Orders : AskedFor(r.sid, o) /\ ReadSoFar(r, o)

CopyTrue(s) ==
    lambda_transcripts[s] # NoTranscript =>
        \E o \in Orders : /\ AskedFor(s, o) /\ Closed(o)
                          /\ lambda_transcripts[s].decision = Result(o)

NoteTrue(n) ==
    \E o \in Orders : /\ PlacedFor(n.sid, o) /\ InChain(o, n.sid) /\ Closed(o)
                      /\ n.main => n.decision = Result(o)

\* Everything that is to be said of an order that was fulfilled.
Announcement(o) ==
    [i \in 1..(1 + Len(Decliners(o))) |->
        IF i = 1
        THEN [sid |-> FirstSid(o), decision |-> "YES", main |-> TRUE,
              vendor |-> Acceptor(o)]
        ELSE [sid |-> order_chains[o].sids[i - 1], decision |-> "NO",
              main |-> FALSE, vendor |-> Decliners(o)[i - 1]]]

\* What is shown of o belongs to the announcement a, the result in any case,
\* and each part of it that is not shown has its id taken by another one.
Announced(o, a) ==
    /\ a[1] \in Shown(o)
    /\ \A m \in Shown(o) : \E i \in DOMAIN a : m = a[i]
    /\ \A i \in DOMAIN a : \E m \in notifications : SameId(m, a[i])

\* Without a failing read an order is announced in full or not at all.
AllOrNothing(o) ==
    Closed(o) /\ Result(o) = "YES" /\ read_errors = 0 =>
        Shown(o) = {} \/ Announced(o, Announcement(o))

WatchTrue ==
    /\ \A s \in placing : \E o \in Orders : AskedFor(s, o)
    /\ watched # NoCall => \E o \in Orders : AskedFor(watched, o)
    /\ timer => watched # NoCall

PanelTrue ==
    /\ \A r \in {request[p] : p \in Slots} : RequestTrue(r)
    /\ \A s \in Sids : CopyTrue(s)
    /\ \A n \in notifications : NoteTrue(n)
    /\ \A o \in Orders : AllOrNothing(o)

ServerInv == FallbackInv /\ TranscriptsFiled /\ FiledWhenReported
PanelInv  == DashTypeOK /\ WatchTrue /\ PanelTrue

-----------------------------------------------------------------------------
(******************************************************************************)
(* The server inside the composition.                                         *)
(******************************************************************************)
LEMMA RequestKeepsServer ==
    ASSUME NEW p \in Slots, RequestStep(p)
    PROVE  UNCHANGED <<vars, watched>>
BY DEF RequestStep, Poll, PollChain, PollTranscript, PollAnswered,
       FetchTranscript, FetchChain, FetchVendor, FetchAnswered, FetchWithheld,
       FetchFails

LEMMA ServerSteps ==
    ASSUME [DashNext]_all_vars
    PROVE  [Next]_vars /\ UNCHANGED restarts
<1>1. ASSUME NEW o \in Orders, NEW v \in Vendors, NEW n \in Sids,
             PanelCalls(o, v, n)
      PROVE  Next /\ UNCHANGED restarts
  BY <1>1 DEF PanelCalls, InitiateCall, Next
<1>2. ASSUME NEW s \in Sids, ServerStep(s)
      PROVE  Next /\ UNCHANGED restarts
  BY <1>2
  DEF ServerStep, CallStep, NoAnswer, StartStream, SessionReady, SessionFails,
      StreamDrops, StopReceived, StopFinished, Next
<1>3. ASSUME UNCHANGED vars
      PROVE  [Next]_vars /\ UNCHANGED restarts
  BY <1>3 DEF vars
<1>4. ASSUME NEW s \in Sids, CallRequestEnds(s)
      PROVE  UNCHANGED vars
  BY <1>4 DEF CallRequestEnds, CallAnswered, CallAnswerLost
<1>5. QED
  BY <1>1, <1>2, <1>3, <1>4, RequestKeepsServer DEF DashNext, all_vars

\* With the panel and the Lambda the server does nothing that it does not do
\* without them: whatever is proved of VendorCaller holds in the composition.
THEOREM ServerUnchanged == DashSpec => Spec
<1>1. DashInit => Init
  BY DEF DashInit
<1>2. [DashNext]_all_vars => [Next]_vars
  BY ServerSteps
<1>3. QED
  BY <1>1, <1>2, PTL DEF DashSpec, Spec

LEMMA FiledWhenReportedStep ==
    ASSUME FallbackInv, FiledWhenReported, [Next]_vars
    PROVE  FiledWhenReported'
<1>0. /\ call_transcripts_store \in [Sids -> Transcript]
      /\ verdict \in [Sids -> Decisions \cup {"NONE"}]
  BY DEF FallbackInv, AlignInv, CallsInv, TypeOK
<1>1. ASSUME NEW s \in Sids, NEW d \in Decisions, StopFinished(s, d)
      PROVE  FiledWhenReported'
  <2>1. /\ verdict' = [verdict EXCEPT ![s] = d] /\ d # "NONE"
        /\ handler[s] = "stopping"
    BY <1>1 DEF StopFinished, Decisions
  <2>2. CASE ~HasChain(call_metadata_store[s].order)
    <3>1. \A t \in Sids \ {s} :
              call_transcripts_store'[t] = call_transcripts_store[t]
      BY <1>0, <1>1, <2>2 DEF StopFinished
    <3>2. QED
      BY <1>0, <2>1, <3>1 DEF FiledWhenReported
  <2>3. CASE HasChain(call_metadata_store[s].order)
    <3>1. PICK o \in Orders : o = call_metadata_store[s].order
      BY <2>3 DEF HasChain
    <3> DEFINE q == order_chains[o].sids
    <3>2. PlacedFor(s, o) /\ HasChain(o)
      BY <2>3, <3>1 DEF PlacedFor
    <3>3. \A t \in Sids : t # s /\ t # q[1] =>
              call_transcripts_store'[t] = call_transcripts_store[t]
      BY <1>1, <3>2, ReportFiles
    <3>4. s = q[Len(q)] /\ Len(q) \in Nat \ {0}
      BY <2>1, <3>2, StoppingIsLast, ChainShape DEF FallbackInv
    <3>5. \A i \in 1..(Len(q) - 1) : verdict[q[i]] = "NO"
      BY <3>2 DEF FallbackInv, ChainsSound, Sound
    <3>6. q[1] = s \/ verdict[q[1]] = "NO"
      BY <3>4, <3>5
    <3>7. QED
      BY <1>0, <2>1, <3>3, <3>6 DEF FiledWhenReported
  <2>4. QED
    BY <2>2, <2>3
<1>2. ASSUME UNCHANGED <<call_transcripts_store, verdict>>
      PROVE  FiledWhenReported'
  BY <1>2 DEF FiledWhenReported
<1>3. CASE Restart
  BY <1>3 DEF Restart, FiledWhenReported
<1>4. QED
  BY <1>1, <1>2, <1>3
  DEF Next, vars, InitiateCall, CallStep, NoAnswer, StartStream, SessionReady,
      SessionFails, StreamDrops, StopReceived, stores

LEMMA ServerInvariant ==
    ASSUME ~ClientOrderIds
    PROVE  DashSpec => []ServerInv
<1>1. Init => FiledWhenReported
  BY DEF Init, FiledWhenReported
<1>2. FallbackInv /\ FiledWhenReported /\ [Next]_vars => FiledWhenReported'
  BY FiledWhenReportedStep
<1>3. Spec => [](FallbackInv /\ TranscriptsFiled)
  BY AlwaysFiled
<1>4. FallbackInv /\ TranscriptsFiled /\ FiledWhenReported => ServerInv
  BY DEF ServerInv
<1>5. QED
  BY <1>1, <1>2, <1>3, <1>4, ServerUnchanged, PTL DEF Spec

-----------------------------------------------------------------------------
(******************************************************************************)
(* What a step of the server leaves alone.                                    *)
(******************************************************************************)
\* The calls of an order keep their places, and a closed order stays as it is.
LEMMA ChainKept ==
    ASSUME ~ClientOrderIds, FallbackInv, FallbackInv', [Next]_vars,
           UNCHANGED restarts, NEW o \in Orders, HasChain(o)
    PROVE  /\ HasChain(o)'
           /\ \A i \in 1..Len(order_chains[o].sids) :
                 /\ i \in 1..Len(order_chains'[o].sids)
                 /\ order_chains'[o].sids[i] = order_chains[o].sids[i]
                 /\ call_metadata_store'[order_chains[o].sids[i]].order = o
           /\ Closed(o) => order_chains'[o] = order_chains[o]
<1> DEFINE q == order_chains[o].sids
           r == order_chains'[o].sids
<1>0. /\ order_chains \in [Orders -> Chain]
      /\ order_chains[o] # NoChain
      /\ q \in Seq(Sids)
  BY ChainShape DEF FallbackInv, AlignInv, CallsInv, TypeOK, HasChain, NoChain
<1>1. /\ HasChain(o)'
      /\ \A i \in 1..Len(q) : i \in 1..Len(r) /\ r[i] = q[i]
      /\ Closed(o) => order_chains'[o] = order_chains[o]
  <2>1. ASSUME order_chains'[o] = order_chains[o]
        PROVE  /\ HasChain(o)'
               /\ \A i \in 1..Len(q) : i \in 1..Len(r) /\ r[i] = q[i]
    BY <2>1 DEF HasChain
  <2>2. ASSUME NEW p \in Orders, NEW v \in Vendors, NEW n \in Sids,
               order_chains[p].status = "CALLING",
               order_chains' = [order_chains EXCEPT
                                   ![p] = NextAttempt(order_chains[p], v, n)]
        PROVE  /\ HasChain(o)'
               /\ \A i \in 1..Len(q) : i \in 1..Len(r) /\ r[i] = q[i]
               /\ Closed(o) => order_chains'[o] = order_chains[o]
    <3>1. CASE p = o
      <4>1. r = Append(q, n) /\ order_chains'[o].status = "CALLING"
        BY <1>0, <2>2, <3>1, NextAttemptFields
      <4>2. ~Closed(o)
        BY <2>2, <3>1 DEF Closed
      <4>3. QED
        BY <1>0, <4>1, <4>2, AppendShape DEF HasChain
    <3>2. CASE p # o
      BY <1>0, <2>1, <2>2, <3>2
    <3>3. QED
      BY <3>1, <3>2
  <2>3. ASSUME NEW p \in Orders, NEW d \in Decisions,
               NEW status \in Settled \cup {"FALLBACK_IN_PROGRESS"},
               order_chains[p].status = "CALLING",
               order_chains' = [order_chains EXCEPT ![p].decision = d,
                                                   ![p].status = status]
        PROVE  /\ HasChain(o)'
               /\ \A i \in 1..Len(q) : i \in 1..Len(r) /\ r[i] = q[i]
               /\ Closed(o) => order_chains'[o] = order_chains[o]
    <3>1. CASE p = o
      <4>1. r = q /\ order_chains'[o].status = status
        BY <1>0, <2>3, <3>1 DEF Chain
      <4>2. ~Closed(o)
        BY <2>3, <3>1 DEF Closed
      <4>3. QED
        BY <4>1, <4>2 DEF HasChain, Settled
    <3>2. CASE p # o
      BY <1>0, <2>1, <2>3, <3>2
    <3>3. QED
      BY <3>1, <3>2
  <2>4. ASSUME NEW p \in Orders, NEW v \in Vendors, NEW n \in Sids,
               NEW cat \in Categories \cup {NoCategory},
               order_chains[p] = NoChain,
               order_chains' = [order_chains EXCEPT ![p] = NewChain(v, n, cat)]
        PROVE  order_chains'[o] = order_chains[o]
    BY <1>0, <2>4
  <2>5. ChainStep
    BY ChainSteps
  <2>6. QED
    BY <2>1, <2>2, <2>3, <2>4, <2>5 DEF ChainStep
<1>2. \A i \in 1..Len(r) : call_metadata_store'[r[i]].order = o
  <2>1. AlignedChain(o)'
    BY <1>1 DEF FallbackInv, AlignInv, ChainAligned
  <2>2. ASSUME NEW i \in 1..Len(r)
        PROVE  call_metadata_store'[r[i]].order = o
    <3>1. call_metadata_store'[r[i]] =
              [order |-> o, vendor |-> order_chains'[o].tried[i]]
      BY <2>1 DEF AlignedChain
    <3>2. QED
      BY <3>1
  <2>3. QED
    BY <2>2
<1>3. QED
  BY <1>1, <1>2

\* What is asked, and what is known of a closed order, stays as it is.
LEMMA AskedKept ==
    ASSUME ~ClientOrderIds, FallbackInv, FallbackInv', [Next]_vars,
           UNCHANGED restarts, NEW o \in Orders
    PROVE  /\ \A s : AskedFor(s, o) => AskedFor(s, o)'
           /\ \A s : InChain(o, s) => InChain(o, s)' /\ PlacedFor(s, o)'
           /\ Closed(o) =>
                 /\ Closed(o)' /\ UNCHANGED Result(o)
                 /\ UNCHANGED Decliners(o) /\ UNCHANGED Acceptor(o)
                 /\ UNCHANGED Announcement(o)
<1>1. CASE HasChain(o)
  <2>1. 1 \in 1..Len(order_chains[o].sids)
    BY <1>1, ChainShape DEF FallbackInv
  <2>2. /\ HasChain(o)'
        /\ Closed(o) => order_chains'[o] = order_chains[o]
        /\ order_chains'[o].sids[1] = order_chains[o].sids[1]
        /\ call_metadata_store'[order_chains[o].sids[1]].order = o
    BY <1>1, <2>1, ChainKept
  <2>3. ASSUME NEW s, AskedFor(s, o)
        PROVE  AskedFor(s, o)'
    BY <2>2, <2>3 DEF AskedFor, PlacedFor, FirstSid
  <2>4. ASSUME NEW s, InChain(o, s)
        PROVE  InChain(o, s)' /\ PlacedFor(s, o)'
    <3>1. PICK i \in 1..Len(order_chains[o].sids) : order_chains[o].sids[i] = s
      BY <2>4 DEF InChain
    <3>2. /\ i \in 1..Len(order_chains'[o].sids)
          /\ order_chains'[o].sids[i] = s
          /\ call_metadata_store'[s].order = o
      BY <1>1, <3>1, ChainKept
    <3>3. QED
      BY <2>2, <3>2 DEF InChain, PlacedFor
  <2>5. ASSUME Closed(o)
        PROVE  /\ Closed(o)' /\ UNCHANGED Result(o)
               /\ UNCHANGED Decliners(o) /\ UNCHANGED Acceptor(o)
               /\ UNCHANGED Announcement(o)
    BY <2>2, <2>5
    DEF Closed, Result, Decliners, Acceptor, Announcement, FirstSid
  <2>6. QED
    BY <2>3, <2>4, <2>5
<1>2. CASE ~HasChain(o)
  BY <1>2 DEF AskedFor, InChain, Closed
<1>3. QED
  BY <1>1, <1>2

\* What the requests, the copies and the notifications say stays true.
LEMMA ServerKeepsPanel ==
    ASSUME ~ClientOrderIds, FallbackInv, FallbackInv', [Next]_vars,
           UNCHANGED restarts, PanelTrue,
           UNCHANGED <<request, notifications, lambda_transcripts, read_errors>>
    PROVE  PanelTrue'
<1>1. ASSUME NEW r \in {request[p] : p \in Slots}
      PROVE  RequestTrue(r)'
  <2> SUFFICES ASSUME r.at # "idle"
               PROVE  \E o \in Orders : AskedFor(r.sid, o)' /\ ReadSoFar(r, o)'
    BY DEF RequestTrue
  <2>1. PICK o \in Orders : AskedFor(r.sid, o) /\ ReadSoFar(r, o)
    BY DEF PanelTrue, RequestTrue
  <2>2. AskedFor(r.sid, o)'
    BY <2>1, AskedKept
  <2>3. CASE Closed(o)
    <3>1. /\ Closed(o)' /\ UNCHANGED Result(o)
          /\ UNCHANGED Decliners(o) /\ UNCHANGED Acceptor(o)
      BY <2>3, AskedKept
    <3>2. ReadSoFar(r, o)'
      BY <2>1, <3>1 DEF ReadSoFar
    <3>3. QED
      BY <2>2, <3>2
  <2>4. CASE ~Closed(o)
    <3>1. r.at \in OnlyPolled /\ r.rejected = <<>>
      BY <2>1, <2>4 DEF ReadSoFar, OnlyPolled, HasRead
    <3>2. ReadSoFar(r, o)'
      BY <3>1 DEF ReadSoFar, OnlyPolled, HasRead
    <3>3. QED
      BY <2>2, <3>2
  <2>5. QED
    BY <2>3, <2>4
<1>2. ASSUME NEW s \in Sids
      PROVE  CopyTrue(s)'
  BY AskedKept DEF PanelTrue, CopyTrue
<1>3. ASSUME NEW n \in notifications
      PROVE  NoteTrue(n)'
  BY AskedKept DEF PanelTrue, NoteTrue
<1>4. ASSUME NEW o \in Orders
      PROVE  AllOrNothing(o)'
  <2> SUFFICES ASSUME Closed(o)', Result(o)' = "YES", read_errors = 0
               PROVE  Shown(o)' = {} \/ Announced(o, Announcement(o))'
    BY DEF AllOrNothing
  <2>1. Shown(o)' = Shown(o)
    <3>1. ASSUME NEW n \in notifications
          PROVE  OrderOf(n.sid)' = OrderOf(n.sid)
      <4>1. PICK p \in Orders : PlacedFor(n.sid, p) /\ InChain(p, n.sid)
        BY DEF PanelTrue, NoteTrue
      <4>2. PlacedFor(n.sid, p)'
        BY <4>1, AskedKept
      <4>3. QED
        BY <4>1, <4>2 DEF PlacedFor, OrderOf
    <3>2. QED
      BY <3>1 DEF Shown
  <2>2. CASE Closed(o)
    <3>1. Result(o) = "YES" /\ Announcement(o)' = Announcement(o)
      BY <2>2, AskedKept
    <3>2. Shown(o) = {} \/ Announced(o, Announcement(o))
      BY <2>2, <3>1 DEF PanelTrue, AllOrNothing
    <3>3. QED
      BY <2>1, <3>1, <3>2 DEF Announced, SameId
  <2>3. CASE ~Closed(o)
    <3>1. \A n \in notifications : OrderOf(n.sid) # o
      BY <2>3 DEF PanelTrue, NoteTrue, PlacedFor, OrderOf
    <3>2. QED
      BY <2>1, <3>1 DEF Shown
  <2>4. QED
    BY <2>2, <2>3
<1>5. QED
  BY <1>1, <1>2, <1>3, <1>4 DEF PanelTrue

-----------------------------------------------------------------------------
(******************************************************************************)
(* What a step of a request leaves alone.                                     *)
(******************************************************************************)
LEMMA SameServer ==
    ASSUME UNCHANGED vars
    PROVE  /\ \A s : UNCHANGED OrderOf(s)
           /\ \A o : /\ Closed(o)' = Closed(o) /\ HasChain(o)' = HasChain(o)
                     /\ UNCHANGED Result(o) /\ UNCHANGED Decliners(o)
                     /\ UNCHANGED Acceptor(o) /\ UNCHANGED Announcement(o)
           /\ \A s, o : /\ AskedFor(s, o)' = AskedFor(s, o)
                        /\ PlacedFor(s, o)' = PlacedFor(s, o)
                        /\ InChain(o, s)' = InChain(o, s)
BY DEF vars, OrderOf, Closed, HasChain, Result, Decliners, Acceptor,
       Announcement, AskedFor, PlacedFor, InChain, FirstSid

LEMMA CopiesKept ==
    ASSUME PanelTrue, UNCHANGED <<vars, lambda_transcripts>>
    PROVE  \A s \in Sids : CopyTrue(s)'
BY SameServer DEF PanelTrue, CopyTrue

LEMMA NotesKept ==
    ASSUME PanelTrue, UNCHANGED <<vars, notifications>>,
           read_errors' = 0 => read_errors = 0
    PROVE  /\ \A n \in notifications' : NoteTrue(n)'
           /\ \A o \in Orders : AllOrNothing(o)'
<1>1. \A n \in notifications' : NoteTrue(n)'
  BY SameServer DEF PanelTrue, NoteTrue
<1>2. \A o : Shown(o)' = Shown(o)
  BY SameServer DEF Shown
<1>3. ASSUME NEW o \in Orders
      PROVE  AllOrNothing(o)'
  <2>1. /\ Closed(o)' = Closed(o) /\ Result(o)' = Result(o)
        /\ Announcement(o)' = Announcement(o)
    BY SameServer
  <2>2. AllOrNothing(o)
    BY DEF PanelTrue
  <2>3. QED
    BY <1>2, <2>1, <2>2 DEF AllOrNothing, Announced, SameId
<1>4. QED
  BY <1>1, <1>3

\* The request in slot p becomes r, and no other request is touched.
LEMMA RequestsKept ==
    ASSUME PanelInv, NEW p \in Slots, NEW r \in Request, Proceed(p, r),
           UNCHANGED vars, read_errors' = 0 => read_errors = 0, RequestTrue(r)'
    PROVE  /\ request' \in [Slots -> Request]
           /\ \A q \in {request[t] : t \in Slots}' : RequestTrue(q)'
<1>1. request \in [Slots -> Request]
  BY DEF PanelInv, DashTypeOK
<1>2. request' \in [Slots -> Request] /\ request'[p] = r
      /\ \A t \in Slots \ {p} : request'[t] = request[t]
  BY <1>1 DEF Proceed
<1>3. ASSUME NEW t \in Slots \ {p}
      PROVE  \A q : q = request[t] => RequestTrue(q)'
  <2> SUFFICES ASSUME NEW q, q = request[t], q.at # "idle"
               PROVE  \E o \in Orders : AskedFor(q.sid, o)' /\ ReadSoFar(q, o)'
    BY DEF RequestTrue
  <2>1. PICK o \in Orders : AskedFor(q.sid, o) /\ ReadSoFar(q, o)
    BY DEF PanelInv, PanelTrue, RequestTrue
  <2>2. AskedFor(q.sid, o)'
    BY <2>1, SameServer
  <2>3. ReadSoFar(q, o)'
    BY <2>1, SameServer DEF ReadSoFar
  <2>4. QED
    BY <2>2, <2>3
<1>4. QED
  BY <1>2, <1>3

\* A step of one request that announces nothing.
LEMMA RequestMoves ==
    ASSUME PanelInv, NEW p \in Slots, NEW r \in Request, Proceed(p, r),
           RequestTrue(r)', UNCHANGED <<vars, placing, watched, notifications>>,
           UNCHANGED read_errors \/ ReadFails,
           callingVendor' \in BOOLEAN, lost' \subseteq Sids,
           UNCHANGED timer \/ timer' = FALSE,
           lambda_transcripts' \in [Sids -> Transcript],
           \A s \in Sids : CopyTrue(s)'
    PROVE  PanelInv'
<1>1. /\ read_errors' \in 0..MaxReadErrors
      /\ read_errors' = 0 => read_errors = 0
  BY DashboardAssumption DEF PanelInv, DashTypeOK, ReadFails
<1>2. WatchTrue'
  BY SameServer DEF PanelInv, WatchTrue
<1>3. DashTypeOK'
  BY <1>1, RequestsKept DEF PanelInv, DashTypeOK
<1>4. PanelTrue'
  BY <1>1, RequestsKept, NotesKept DEF PanelInv, PanelTrue
<1>5. QED
  BY <1>2, <1>3, <1>4 DEF PanelInv

-----------------------------------------------------------------------------
(******************************************************************************)
(* The polls.                                                                 *)
(******************************************************************************)
LEMMA IdleTyped == Idle \in Request /\ RequestTrue(Idle)'
<1>1. NoTranscript \in Transcript
  BY DEF NoTranscript, Transcript
<1>2. QED
  BY <1>1, DashboardAssumption DEF Idle, Request, RequestTrue

\* The panel asks only for calls that it started, and what a request has read
\* it keeps.
LEMMA RequestFields ==
    ASSUME PanelInv, NEW p \in Slots, request[p].at # "idle"
    PROVE  /\ request[p] \in Request /\ request[p].sid \in Sids \cup {NoCall}
           /\ \E o \in Orders : /\ AskedFor(request[p].sid, o)
                                /\ ReadSoFar(request[p], o)
<1>1. request[p] \in Request
  BY DEF PanelInv, DashTypeOK
<1>2. QED
  BY <1>1 DEF PanelInv, PanelTrue, RequestTrue, Request

\* Under the first call of an order that is closed is its last call's answer.
LEMMA ClosedIsFiled ==
    ASSUME ServerInv, NEW s, NEW o \in Orders, AskedFor(s, o)
    PROVE  /\ s \in Sids
           /\ Closed(o) => call_transcripts_store[s].decision = Result(o)
           /\ call_transcripts_store[s].decision = "YES" =>
                 Closed(o) /\ Result(o) = "YES"
<1> DEFINE q == order_chains[o].sids
           k == Len(q)
<1>1. /\ s = q[1] /\ HasChain(o) /\ k \in Nat \ {0}
      /\ s \in Sids
  <2>1. s = q[1] /\ HasChain(o)
    BY DEF AskedFor, FirstSid
  <2>2. k \in Nat \ {0} /\ \A i \in 1..k : q[i] \in Sids
    BY <2>1, ChainShape DEF ServerInv, FallbackInv
  <2>3. QED
    BY <2>1, <2>2
<1>2. /\ \A i \in 1..(k - 1) : verdict[q[i]] = "NO"
      /\ verdict[q[k]] = AnswerFor(order_chains[o].status)
  BY <1>1 DEF ServerInv, FallbackInv, ChainsSound, Sound
<1>3. order_chains[o].status \in Statuses \ {"NONE"}
  BY <1>1 DEF ServerInv, FallbackInv, AlignInv, CallsInv, TypeOK, Chain, HasChain
<1>7. /\ verdict[q[k]] # "NONE" =>
            call_transcripts_store[s].decision = verdict[q[k]]
      /\ verdict[q[k]] = "NONE" /\ k > 1 =>
            call_transcripts_store[s].decision = verdict[q[k - 1]]
  <2>1. OrderFiled(o)
    BY <1>1 DEF ServerInv, TranscriptsFiled
  <2>2. QED
    BY <1>1, <2>1 DEF OrderFiled, Filed
<1> HIDE DEF q, k
<1>4. CASE verdict[q[k]] # "NONE"
  <2>1. call_transcripts_store[s].decision = verdict[q[k]]
    BY <1>4, <1>7
  <2>2. QED
    BY <1>1, <1>2, <1>3, <2>1
    DEF Closed, Result, AnswerFor, Statuses, Settled
<1>5. CASE verdict[q[k]] = "NONE"
  <2>1. order_chains[o].status = "CALLING"
    BY <1>2, <1>3, <1>5 DEF AnswerFor, Statuses, Settled
  <2>2. call_transcripts_store[s].decision # "YES"
    <3>1. CASE k = 1
      BY <1>1, <1>5, <3>1 DEF ServerInv, FiledWhenReported, NoTranscript
    <3>2. CASE k > 1
      <4>1. call_transcripts_store[s].decision = verdict[q[k - 1]]
        BY <1>5, <1>7, <3>2
      <4>2. verdict[q[k - 1]] = "NO"
        BY <1>1, <1>2, <3>2
      <4>3. QED
        BY <4>1, <4>2
    <3>3. QED
      BY <1>1, <3>1, <3>2
  <2>3. QED
    BY <1>1, <2>1, <2>2 DEF Closed
<1>6. QED
  BY <1>4, <1>5

\* A poll that says "completed" has read a chain that is closed, or a YES that
\* only an order that is fulfilled has under its first call.
LEMMA PollSteps ==
    ASSUME ServerInv, PanelInv, NEW p \in Slots,
           \/ Poll(p) \/ PollChain(p) \/ PollTranscript(p) \/ PollAnswered(p)
    PROVE  PanelInv'
<1> DEFINE q == request[p]
<1>0. /\ callingVendor \in BOOLEAN /\ lost \subseteq Sids
      /\ lambda_transcripts \in [Sids -> Transcript]
  BY DEF PanelInv, DashTypeOK
<1>1. ASSUME NEW r \in Request, Proceed(p, r), RequestTrue(r)',
             UNCHANGED <<vars, callingVendor, placing, watched, notifications,
                         lambda_transcripts, lost>>,
             UNCHANGED read_errors \/ ReadFails,
             UNCHANGED timer \/ timer' = FALSE
      PROVE  PanelInv'
  BY <1>0, <1>1, RequestMoves, CopiesKept DEF PanelInv
<1>2. CASE Poll(p)
  <2>1. PICK r : r = [Idle EXCEPT !.at = "poll", !.sid = watched]
    OBVIOUS
  <2>2. r.at = "poll" /\ r.sid = watched /\ r.rejected = <<>>
    BY <2>1 DEF Idle
  <2>3. r \in Request
    BY <2>1, IdleTyped DEF PanelInv, DashTypeOK, Request
  <2>4. PICK o \in Orders : AskedFor(watched, o)
    BY <1>2 DEF Poll, PanelInv, WatchTrue
  <2>5. AskedFor(r.sid, o)' /\ ReadSoFar(r, o)'
    BY <1>2, <2>2, <2>4, SameServer DEF Poll, ReadSoFar, OnlyPolled, HasRead
  <2>6. QED
    BY <1>1, <1>2, <2>1, <2>3, <2>5 DEF Poll, RequestTrue
<1>3. ASSUME q.at # "idle"
      PROVE  /\ q \in Request
             /\ \E o \in Orders : AskedFor(q.sid, o) /\ ReadSoFar(q, o)
  BY <1>3, RequestFields
<1>4. ASSUME NEW at \in {"completed", "in_progress", "poll_transcript"},
             q.at \in {"poll", "poll_transcript"},
             at = "completed" => \E o \in Orders : /\ AskedFor(q.sid, o)
                                                   /\ Closed(o),
             Proceed(p, [q EXCEPT !.at = at]),
             UNCHANGED <<vars, callingVendor, placing, watched, timer,
                         notifications, lambda_transcripts, lost>>,
             UNCHANGED read_errors \/ ReadFails
      PROVE  PanelInv'
  <2>1. PICK r : r = [q EXCEPT !.at = at]
    OBVIOUS
  <2>2. PICK o \in Orders : AskedFor(q.sid, o) /\ ReadSoFar(q, o)
    BY <1>3, <1>4
  <2>3. /\ r \in Request /\ r.at = at /\ r.sid = q.sid
        /\ r.rejected = q.rejected
    BY <1>3, <1>4, <2>1 DEF Request
  <2>4. r.rejected = <<>>
    BY <1>4, <2>2, <2>3 DEF ReadSoFar, HasRead
  <2>5. at = "completed" => Closed(o)
    BY <1>4, <2>2 DEF AskedFor, PlacedFor
  <2>6. AskedFor(r.sid, o)' /\ Closed(o)' = Closed(o)
    BY <1>4, <2>2, <2>3, SameServer
  <2>7. ReadSoFar(r, o)'
    BY <1>4, <2>3, <2>4, <2>5, <2>6 DEF ReadSoFar, OnlyPolled, HasRead
  <2>8. QED
    BY <1>1, <1>4, <2>1, <2>3, <2>6, <2>7 DEF RequestTrue
<1>5. CASE PollChain(p)
  <2>1. q.at = "poll"
    BY <1>5 DEF PollChain
  <2>2. PICK o \in Orders : AskedFor(q.sid, o)
    BY <1>3, <2>1
  <2>3. call_metadata_store[q.sid].order = o /\ HasChain(o)
    BY <2>2 DEF AskedFor, PlacedFor
  <2>4. order_chains[o].status \in CompletedStatuses => Closed(o)
    BY <2>3 DEF CompletedStatuses, Closed
  <2>5. QED
    BY <1>4, <1>5, <2>1, <2>2, <2>3, <2>4 DEF PollChain
<1>6. CASE PollTranscript(p)
  <2>1. q.at = "poll_transcript"
    BY <1>6 DEF PollTranscript
  <2>2. PICK o \in Orders : AskedFor(q.sid, o)
    BY <1>3, <2>1
  <2>3. call_transcripts_store[q.sid].decision = "YES" => Closed(o)
    BY <2>2, ClosedIsFiled
  <2>4. QED
    BY <1>4, <1>6, <2>1, <2>2, <2>3 DEF PollTranscript
<1>7. CASE PollAnswered(p) /\ q.at = "in_progress"
  BY <1>1, <1>7, IdleTyped DEF PollAnswered
<1>8. CASE PollAnswered(p) /\ q.at = "completed"
  <2>1. PICK warm \in BOOLEAN : Proceed(p, [q EXCEPT !.at = "transcript",
                                              !.warm = warm, !.tries = 1])
    BY <1>8 DEF PollAnswered
  <2>2. PICK r : r = [q EXCEPT !.at = "transcript", !.warm = warm, !.tries = 1]
    OBVIOUS
  <2>3. PICK o \in Orders : AskedFor(q.sid, o) /\ ReadSoFar(q, o)
    BY <1>3, <1>8
  <2>4. /\ r \in Request /\ r.at = "transcript" /\ r.sid = q.sid
        /\ r.rejected = q.rejected
    <3>1. q \in Request /\ 1 \in 0..MaxFetches
      BY <1>3, <1>8, DashboardAssumption
    <3>2. QED
      BY <2>2, <3>1 DEF Request
  <2>5. Closed(o) /\ r.rejected = <<>>
    BY <1>8, <2>3, <2>4 DEF ReadSoFar, HasRead, OnlyPolled
  <2>6. AskedFor(r.sid, o)' /\ Closed(o)'
    BY <1>8, <2>3, <2>4, <2>5, SameServer DEF PollAnswered
  <2>7. ReadSoFar(r, o)'
    BY <2>4, <2>5, <2>6 DEF ReadSoFar, OnlyPolled, HasRead
  <2>8. QED
    BY <1>1, <1>8, <2>1, <2>2, <2>4, <2>6, <2>7 DEF PollAnswered, RequestTrue
<1>9. QED
  BY <1>2, <1>5, <1>6, <1>7, <1>8 DEF PollAnswered

-----------------------------------------------------------------------------
(******************************************************************************)
(* The fetch.                                                                 *)
(******************************************************************************)
\* The vendors that declined an order, and the one that was asked last.
LEMMA DeclinersShape ==
    ASSUME FallbackInv, NEW o \in Orders, HasChain(o)
    PROVE  LET k == Len(order_chains[o].tried)
           IN  /\ k \in Nat \ {0} /\ k = Len(order_chains[o].sids)
               /\ Decliners(o) \in Seq(Vendors)
               /\ DOMAIN Decliners(o) = 1..(k - 1)
               /\ \A i \in 1..(k - 1) : Decliners(o)[i] = order_chains[o].tried[i]
               /\ Acceptor(o) \in Vendors
<1> DEFINE w == order_chains[o].tried
           k == Len(w)
<1>1. w \in Seq(Vendors) /\ k \in Nat \ {0} /\ k = Len(order_chains[o].sids)
  BY ChainShape DEF FallbackInv
<1>2. Decliners(o) = SubSeq(w, 1, k - 1) /\ Acceptor(o) = w[k]
  BY DEF Decliners, Acceptor
<1> HIDE DEF w
<1>3. /\ SubSeq(w, 1, k - 1) \in Seq(Vendors)
      /\ Len(SubSeq(w, 1, k - 1)) = k - 1
      /\ \A i \in 1..(k - 1) : SubSeq(w, 1, k - 1)[i] = w[i]
      /\ w[k] \in Vendors
  BY <1>1
<1>4. DOMAIN SubSeq(w, 1, k - 1) = 1..(k - 1)
  BY <1>3
<1>5. QED
  BY <1>1, <1>2, <1>3, <1>4 DEF w

\* The transcript that is fetched is what the order was settled as, whether it
\* is the server's or the copy of a warm instance.
LEMMA FetchTranscriptStep ==
    ASSUME ServerInv, PanelInv, NEW p \in Slots, FetchTranscript(p)
    PROVE  PanelInv'
<1>q. PICK q : q = request[p]
  OBVIOUS
<1>s. PICK s : s = q.sid
  OBVIOUS
<1>c. PICK copy : copy = IF q.warm THEN lambda_transcripts[s] ELSE NoTranscript
  OBVIOUS
<1>t. PICK stored : stored = call_transcripts_store[s]
  OBVIOUS
<1> DEFINE With(t) == [q EXCEPT !.found = t,
                          !.at = IF t = NoTranscript THEN "withheld" ELSE "chain"]
<1>0. q.at = "transcript"
  BY <1>q DEF FetchTranscript
<1>1. PICK o \in Orders : AskedFor(s, o) /\ ReadSoFar(q, o)
  BY <1>0, <1>q, <1>s, RequestFields
<1>2. Closed(o) /\ q.rejected = <<>>
  BY <1>0, <1>1 DEF ReadSoFar, OnlyPolled, HasRead
<1>3. s \in Sids /\ stored.decision = Result(o)
  BY <1>1, <1>2, <1>t, ClosedIsFiled
<1>4. /\ copy \in Transcript /\ stored \in Transcript
      /\ lambda_transcripts \in [Sids -> Transcript]
      /\ q \in Request
      /\ callingVendor \in BOOLEAN /\ lost \subseteq Sids /\ timer \in BOOLEAN
  BY <1>0, <1>3, <1>q, <1>c, <1>t, RequestFields
  DEF PanelInv, DashTypeOK, NoTranscript, Transcript, ServerInv, FallbackInv,
      AlignInv, CallsInv, TypeOK
<1>5. copy # NoTranscript => copy.decision = Result(o)
  <2>1. ASSUME lambda_transcripts[s] # NoTranscript
        PROVE  lambda_transcripts[s].decision = Result(o)
    <3>1. PICK x \in Orders : /\ AskedFor(s, x)
                              /\ lambda_transcripts[s].decision = Result(x)
      BY <1>3, <2>1 DEF PanelInv, PanelTrue, CopyTrue
    <3>2. x = o
      BY <1>1, <3>1 DEF AskedFor, PlacedFor
    <3>3. QED
      BY <3>1, <3>2
  <2>2. QED
    BY <1>c, <2>1
<1>6. /\ UNCHANGED <<vars, callingVendor, placing, watched, timer,
                     notifications, lost>>
      /\ UNCHANGED read_errors \/ ReadFails
      /\ \/ Proceed(p, With(stored)) \/ Proceed(p, With(copy))
      /\ \/ UNCHANGED lambda_transcripts
         \/ lambda_transcripts' = [lambda_transcripts EXCEPT ![s] = stored]
  BY <1>q, <1>s, <1>c, <1>t DEF FetchTranscript
<1>7. AskedFor(s, o)' /\ Closed(o)' /\ Result(o)' = Result(o)
  BY <1>1, <1>2, <1>6, SameServer
<1>8. ASSUME NEW t \in Transcript, t # NoTranscript => t.decision = Result(o)
      PROVE  With(t) \in Request /\ RequestTrue(With(t))'
  <2>1. PICK r : r = With(t)
    OBVIOUS
  <2>2. /\ r.sid = s /\ r.found = t /\ r.rejected = <<>> /\ r \in Request
        /\ r.at = IF t = NoTranscript THEN "withheld" ELSE "chain"
    BY <1>2, <1>4, <1>s, <2>1 DEF Request
  <2>3. ReadSoFar(r, o)'
    BY <1>2, <1>7, <1>8, <2>2 DEF ReadSoFar, OnlyPolled, HasRead
  <2>4. AskedFor(r.sid, o)'
    BY <1>7, <2>2
  <2>5. RequestTrue(r)'
    BY <2>3, <2>4 DEF RequestTrue
  <2>6. QED
    BY <2>1, <2>2, <2>5
<1>9. /\ lambda_transcripts' \in [Sids -> Transcript]
      /\ \A x \in Sids : CopyTrue(x)'
  <2>1. CASE UNCHANGED lambda_transcripts
    BY <1>4, <1>6, <2>1, CopiesKept DEF PanelInv
  <2>2. CASE lambda_transcripts' = [lambda_transcripts EXCEPT ![s] = stored]
    <3>1. CopyTrue(s)'
      <4>1. lambda_transcripts'[s].decision = Result(o)
        BY <1>3, <1>4, <2>2
      <4>2. QED
        BY <1>7, <4>1 DEF CopyTrue
    <3>2. ASSUME NEW x \in Sids, x # s
          PROVE  CopyTrue(x)'
      <4>1. lambda_transcripts'[x] = lambda_transcripts[x]
        BY <1>4, <2>2, <3>2
      <4>2. QED
        BY <1>6, <4>1, SameServer DEF PanelInv, PanelTrue, CopyTrue
    <3>3. QED
      BY <1>4, <2>2, <3>1, <3>2
  <2>3. QED
    BY <1>6, <2>1, <2>2
<1>10. \E r \in Request : Proceed(p, r) /\ RequestTrue(r)'
  BY <1>3, <1>4, <1>5, <1>6, <1>8
<1>11. QED
  BY <1>4, <1>6, <1>9, <1>10, RequestMoves

\* The chain: of an order that was fulfilled, all vendors but the last declined.
LEMMA FetchChainStep ==
    ASSUME ServerInv, PanelInv, NEW p \in Slots, FetchChain(p)
    PROVE  PanelInv'
<1>q. PICK q : q = request[p]
  OBVIOUS
<1>0. q.at = "chain"
  BY <1>q DEF FetchChain
<1>1. PICK o \in Orders : AskedFor(q.sid, o) /\ ReadSoFar(q, o)
  BY <1>0, <1>q, RequestFields
<1>2. /\ Closed(o) /\ q.rejected = <<>> /\ q.found.decision = Result(o)
      /\ HasChain(o) /\ call_metadata_store[q.sid].order = o
  BY <1>0, <1>1 DEF ReadSoFar, OnlyPolled, HasRead, AskedFor, PlacedFor
<1>3. /\ q \in Request /\ callingVendor \in BOOLEAN /\ lost \subseteq Sids
      /\ lambda_transcripts \in [Sids -> Transcript] /\ read_errors \in Nat
  BY <1>0, <1>q, RequestFields DEF PanelInv, DashTypeOK
<1>4. /\ UNCHANGED <<vars, callingVendor, placing, watched, timer,
                     notifications, lambda_transcripts, lost>>
      /\ UNCHANGED read_errors \/ ReadFails
  BY DEF FetchChain
<1>5. AskedFor(q.sid, o)' /\ Closed(o)' /\ UNCHANGED Result(o)
      /\ UNCHANGED Decliners(o)
  BY <1>1, <1>2, <1>4, SameServer
<1>6. Decliners(o) \in Seq(Vendors) /\ <<>> \in Seq(Vendors)
  BY <1>2, DeclinersShape DEF ServerInv
<1>7. ASSUME NEW r, r = [q EXCEPT !.at = "vendor", !.rejected = r.rejected],
             \/ /\ r.rejected = IF Result(o) = "YES" THEN Decliners(o) ELSE <<>>
             \/ r.rejected = <<>> /\ read_errors' # 0
      PROVE  r \in Request /\ RequestTrue(r)'
  <2>1. r.rejected \in Seq(Vendors)
    BY <1>6, <1>7
  <2>2. /\ r \in Request /\ r.at = "vendor" /\ r.sid = q.sid
        /\ r.found = q.found
    BY <1>3, <1>7, <2>1 DEF Request
  <2>3. ReadSoFar(r, o)'
    BY <1>2, <1>5, <1>7, <2>2 DEF ReadSoFar, OnlyPolled, HasRead
  <2>4. QED
    BY <1>5, <2>2, <2>3 DEF RequestTrue
<1>8. \/ \E r : /\ r = [q EXCEPT !.at = "vendor", !.rejected = r.rejected]
                /\ r.rejected = IF Result(o) = "YES" THEN Decliners(o) ELSE <<>>
                /\ Proceed(p, r)
      \/ \E r : /\ r = [q EXCEPT !.at = "vendor", !.rejected = r.rejected]
                /\ r.rejected = <<>> /\ read_errors' # 0
                /\ Proceed(p, r)
  <2>1. CASE ReadFails /\ Proceed(p, [q EXCEPT !.at = "vendor"])
    <3>1. PICK r : r = [q EXCEPT !.at = "vendor"]
      OBVIOUS
    <3>2. r = [q EXCEPT !.at = "vendor", !.rejected = r.rejected]
          /\ r.rejected = <<>>
      BY <1>2, <1>3, <3>1 DEF Request
    <3>3. read_errors' # 0
      BY <1>3, <2>1 DEF ReadFails
    <3>4. QED
      BY <2>1, <3>1, <3>2, <3>3
  <2>2. CASE ~ReadFails
    <3>1. PICK d : d = IF Result(o) = "YES" THEN Decliners(o) ELSE <<>>
      OBVIOUS
    <3>2. PICK r : r = [q EXCEPT !.at = "vendor", !.rejected = d]
      OBVIOUS
    <3>3. r.rejected = d
      BY <1>3, <3>2 DEF Request
    <3>4. Proceed(p, r)
      BY <1>2, <1>q, <2>2, <3>1, <3>2
      DEF FetchChain, Closed, Result, Decliners
    <3>5. QED
      BY <3>1, <3>2, <3>3, <3>4
  <2>3. ReadFails => Proceed(p, [q EXCEPT !.at = "vendor"])
    BY <1>3, <1>q DEF FetchChain, ReadFails
  <2>4. QED
    BY <2>1, <2>2, <2>3
<1>9. \E r \in Request : Proceed(p, r) /\ RequestTrue(r)'
  BY <1>7, <1>8
<1>10. \A s \in Sids : CopyTrue(s)'
  BY <1>4, CopiesKept DEF PanelInv
<1>11. QED
  BY <1>3, <1>4, <1>9, <1>10, RequestMoves

\* The vendor: unless a read failed, of an order that was fulfilled it is the
\* vendor that accepted.
LEMMA FetchVendorStep ==
    ASSUME ServerInv, PanelInv, NEW p \in Slots, FetchVendor(p)
    PROVE  PanelInv'
<1>q. PICK q : q = request[p]
  OBVIOUS
<1>0. q.at = "vendor"
  BY <1>q DEF FetchVendor
<1>1. PICK o \in Orders : AskedFor(q.sid, o) /\ ReadSoFar(q, o)
  BY <1>0, <1>q, RequestFields
<1>2. /\ Closed(o) /\ q.found.decision = Result(o)
      /\ HasChain(o) /\ call_metadata_store[q.sid].order = o
      /\ FirstSid(o) = q.sid
  BY <1>0, <1>1 DEF ReadSoFar, OnlyPolled, HasRead, AskedFor, PlacedFor
<1>3. /\ q \in Request /\ callingVendor \in BOOLEAN /\ lost \subseteq Sids
      /\ lambda_transcripts \in [Sids -> Transcript] /\ read_errors \in Nat
  BY <1>0, <1>q, RequestFields DEF PanelInv, DashTypeOK
<1>4. /\ UNCHANGED <<vars, callingVendor, placing, watched, timer,
                     notifications, lambda_transcripts, lost>>
      /\ UNCHANGED read_errors \/ ReadFails
  BY DEF FetchVendor
<1>5. AskedFor(q.sid, o)' /\ Closed(o)' /\ UNCHANGED Result(o)
      /\ UNCHANGED Decliners(o) /\ UNCHANGED Acceptor(o)
  BY <1>1, <1>2, <1>4, SameServer
<1>6. /\ call_metadata_store[q.sid].vendor \in Vendors
      /\ call_metadata_store[LastSid(o)].vendor = Acceptor(o)
      /\ Acceptor(o) \in Vendors
  <2> DEFINE c == order_chains[o]
             k == Len(c.sids)
  <2>1. /\ c.tried \in Seq(Vendors) /\ k \in Nat \ {0} /\ k = Len(c.tried)
        /\ Acceptor(o) \in Vendors
    BY <1>2, ChainShape, DeclinersShape DEF ServerInv, FallbackInv
  <2>2. ASSUME NEW i \in 1..k
        PROVE  call_metadata_store[c.sids[i]].vendor = c.tried[i]
    <3>1. AlignedChain(o)
      BY <1>2 DEF ServerInv, FallbackInv, AlignInv, ChainAligned
    <3>2. call_metadata_store[c.sids[i]] = [order |-> o, vendor |-> c.tried[i]]
      BY <3>1 DEF AlignedChain
    <3>3. QED
      BY <3>2
  <2>3. 1 \in 1..k /\ k \in 1..k /\ c.tried[1] \in Vendors
    BY <2>1
  <2>4. QED
    BY <1>2, <2>1, <2>2, <2>3 DEF FirstSid, LastSid, Acceptor
<1>7. ASSUME NEW v \in Vendors \cup {Generic},
             Result(o) = "YES" /\ read_errors' = 0 =>
                 v = Acceptor(o) /\ read_errors = 0
      PROVE  /\ [q EXCEPT !.at = "answer", !.vendor = v] \in Request
             /\ RequestTrue([q EXCEPT !.at = "answer", !.vendor = v])'
  <2>1. PICK r : r = [q EXCEPT !.at = "answer", !.vendor = v]
    OBVIOUS
  <2>2. /\ r \in Request /\ r.at = "answer" /\ r.sid = q.sid
        /\ r.found = q.found /\ r.vendor = v /\ r.rejected = q.rejected
    BY <1>3, <2>1 DEF Request
  <2>3. ReadSoFar(r, o)'
    BY <1>0, <1>1, <1>2, <1>5, <1>7, <2>2 DEF ReadSoFar, OnlyPolled, HasRead
  <2>4. RequestTrue(r)'
    BY <1>5, <2>2, <2>3 DEF RequestTrue
  <2>5. QED
    BY <2>1, <2>2, <2>4
<1>8. \E v \in Vendors \cup {Generic} :
          /\ Result(o) = "YES" /\ read_errors' = 0 =>
                 v = Acceptor(o) /\ read_errors = 0
          /\ Proceed(p, [q EXCEPT !.at = "answer", !.vendor = v])
  <2>1. CASE ReadFails
    <3>1. read_errors' # 0
      BY <1>3, <2>1 DEF ReadFails
    <3>2. \E v \in Vendors \cup {Generic} :
              Proceed(p, [q EXCEPT !.at = "answer", !.vendor = v])
      BY <1>2, <1>6, <1>q DEF FetchVendor
    <3>3. QED
      BY <3>1, <3>2
  <2>2. CASE ~ReadFails
    BY <1>2, <1>6, <1>q, <2>2 DEF FetchVendor
  <2>3. QED
    BY <2>1, <2>2
<1>9. \E r \in Request : Proceed(p, r) /\ RequestTrue(r)'
  BY <1>7, <1>8
<1>10. \A s \in Sids : CopyTrue(s)'
  BY <1>4, CopiesKept DEF PanelInv
<1>11. QED
  BY <1>3, <1>4, <1>9, <1>10, RequestMoves

\* A fetch that is repeated starts afresh, one that is given up says nothing.
LEMMA FetchEndsStep ==
    ASSUME ServerInv, PanelInv, NEW p \in Slots,
           FetchWithheld(p) \/ FetchFails(p)
    PROVE  PanelInv'
<1>q. PICK q : q = request[p]
  OBVIOUS
<1>1. q.at # "idle" /\ (FetchWithheld(p) => q.at = "withheld")
  BY <1>q DEF FetchWithheld, FetchFails
<1>2. q \in Request
  BY <1>1, <1>q, RequestFields
<1>s. q.sid \in Sids
  BY <1>1, <1>q, RequestFields, ClosedIsFiled
<1>3. /\ UNCHANGED <<vars, placing, watched, timer, notifications,
                     lambda_transcripts>>
      /\ UNCHANGED read_errors \/ ReadFails
      /\ callingVendor' \in BOOLEAN /\ lost' \subseteq Sids
      /\ lambda_transcripts' \in [Sids -> Transcript]
  BY <1>q, <1>s DEF FetchWithheld, FetchFails, PanelInv, DashTypeOK
<1>4. ASSUME NEW warm \in BOOLEAN, FetchWithheld(p), q.tries < MaxFetches,
             Proceed(p, [Idle EXCEPT !.at = "transcript", !.warm = warm,
                                     !.sid = q.sid, !.tries = q.tries + 1])
      PROVE  \E r \in Request : Proceed(p, r) /\ RequestTrue(r)'
  <2>1. PICK r : r = [Idle EXCEPT !.at = "transcript", !.warm = warm,
                                  !.sid = q.sid, !.tries = q.tries + 1]
    OBVIOUS
  <2>2. q.tries + 1 \in 0..MaxFetches /\ q.sid \in Sids \cup {NoCall}
    BY <1>2, <1>4, DashboardAssumption DEF Request
  <2>3. /\ r \in Request /\ r.at = "transcript" /\ r.sid = q.sid
        /\ r.rejected = <<>>
    <3>1. Idle \in Request /\ Idle.rejected = <<>>
      BY IdleTyped DEF Idle
    <3>2. QED
      BY <2>1, <2>2, <3>1 DEF Request
  <2>4. PICK o \in Orders : AskedFor(q.sid, o) /\ ReadSoFar(q, o)
    BY <1>1, <1>q, RequestFields
  <2>5. AskedFor(q.sid, o)' /\ Closed(o)'
    BY <1>1, <1>3, <1>4, <2>4, SameServer DEF ReadSoFar, OnlyPolled
  <2>6. ReadSoFar(r, o)'
    BY <2>3, <2>5 DEF ReadSoFar, OnlyPolled, HasRead
  <2>7. QED
    BY <1>4, <2>1, <2>3, <2>5, <2>6 DEF RequestTrue
<1>5. \E r \in Request : Proceed(p, r) /\ RequestTrue(r)'
  BY <1>4, <1>q, IdleTyped DEF FetchWithheld, FetchFails
<1>6. \A s \in Sids : CopyTrue(s)'
  BY <1>3, CopiesKept DEF PanelInv
<1>7. QED
  BY <1>3, <1>5, <1>6, RequestMoves

-----------------------------------------------------------------------------
(******************************************************************************)
(* The announcement.                                                          *)
(******************************************************************************)
\* What an answer announces is true, about one order, and complete unless a
\* read failed.
LEMMA AnswerTrue ==
    ASSUME ServerInv, PanelInv, NEW p \in Slots, request[p].at = "answer"
    PROVE  \E o \in Orders :
              /\ Closed(o)
              /\ \A i \in DOMAIN AnswerOf(p) :
                    /\ AnswerOf(p)[i] \in Notification
                    /\ NoteTrue(AnswerOf(p)[i])
                    /\ OrderOf(AnswerOf(p)[i].sid) = o
              /\ Result(o) = "YES" /\ read_errors = 0 =>
                    AnswerOf(p) = Announcement(o)
<1>q. PICK q : q = request[p]
  OBVIOUS
<1>1. PICK o \in Orders : AskedFor(q.sid, o) /\ ReadSoFar(q, o)
  BY <1>q, RequestFields
<1> DEFINE c == order_chains[o]
           k == Len(c.tried)
           main == [sid |-> q.sid, decision |-> q.found.decision, main |-> TRUE,
                    vendor |-> q.vendor]
           Reject(i) == [sid |-> c.sids[i], decision |-> "NO", main |-> FALSE,
                         vendor |-> q.rejected[i]]
<1>2. /\ q.at = "answer" /\ Closed(o) /\ HasChain(o) /\ FirstSid(o) = q.sid
      /\ PlacedFor(q.sid, o) /\ OrderOf(q.sid) = o
      /\ q.found.decision = Result(o) /\ q.vendor \in Vendors \cup {Generic}
      /\ Result(o) = "YES" /\ read_errors = 0 => q.vendor = Acceptor(o)
      /\ Result(o) = "YES" /\ read_errors = 0 => q.rejected = Decliners(o)
      /\ q.rejected = <<>> \/ q.rejected = Decliners(o)
  BY <1>1, <1>q DEF ReadSoFar, OnlyPolled, HasRead, AskedFor, PlacedFor, OrderOf
<1>3. AnswerOf(p) = [i \in 1..(1 + Len(q.rejected)) |->
                        IF i = 1 THEN main ELSE Reject(i - 1)]
  BY <1>2, <1>q DEF AnswerOf, OrderOf
<1>4. /\ k \in Nat \ {0} /\ k = Len(c.sids) /\ Decliners(o) \in Seq(Vendors)
      /\ DOMAIN Decliners(o) = 1..(k - 1) /\ Len(Decliners(o)) = k - 1
  <2>1. /\ k \in Nat \ {0} /\ k = Len(c.sids) /\ Decliners(o) \in Seq(Vendors)
        /\ DOMAIN Decliners(o) = 1..(k - 1)
    BY <1>2, DeclinersShape DEF ServerInv
  <2> HIDE DEF k
  <2>2. Len(Decliners(o)) \in Nat /\ DOMAIN Decliners(o) = 1..Len(Decliners(o))
    BY <2>1
  <2>3. Len(Decliners(o)) = k - 1
    BY <2>1, <2>2
  <2>4. QED
    BY <2>1, <2>3
<1>5. ASSUME NEW i \in 1..k
      PROVE  c.sids[i] \in Sids /\ InChain(o, c.sids[i])
             /\ PlacedFor(c.sids[i], o) /\ OrderOf(c.sids[i]) = o
  <2>1. c.sids[i] \in Sids /\ call_metadata_store[c.sids[i]].order = o
    BY <1>2, <1>4, ChainShape DEF ServerInv, FallbackInv
  <2>2. QED
    BY <1>2, <1>4, <2>1 DEF InChain, PlacedFor, OrderOf
<1>6. main \in Notification /\ NoteTrue(main) /\ OrderOf(main.sid) = o
  <2>1. 1 \in 1..k /\ c.sids[1] = q.sid
    BY <1>2, <1>4 DEF FirstSid
  <2>2. Result(o) \in Decisions
    BY DEF Result, Decisions
  <2>3. main \in Notification
    BY <1>2, <1>5, <2>1, <2>2 DEF Notification
  <2>4. main.sid = q.sid /\ main.decision = Result(o)
    BY <1>2
  <2>5. QED
    BY <1>2, <1>5, <2>1, <2>3, <2>4 DEF NoteTrue
<1>7. ASSUME NEW i \in 1..Len(q.rejected)
      PROVE  Reject(i) \in Notification /\ NoteTrue(Reject(i))
             /\ OrderOf(Reject(i).sid) = o
  <2>1. q.rejected = Decliners(o) /\ i \in 1..(k - 1)
    BY <1>2, <1>4, <1>7
  <2>2. i \in 1..k /\ q.rejected[i] \in Vendors
    BY <1>4, <2>1
  <2>3. Reject(i) \in Notification
    BY <1>5, <2>2 DEF Notification, Decisions
  <2>4. Reject(i).sid = c.sids[i] /\ Reject(i).main = FALSE
    OBVIOUS
  <2>5. QED
    BY <1>2, <1>5, <2>2, <2>3, <2>4 DEF NoteTrue
<1>8. ASSUME Result(o) = "YES", read_errors = 0
      PROVE  AnswerOf(p) = Announcement(o)
  BY <1>2, <1>3, <1>8 DEF Announcement
<1> HIDE DEF main, Reject
<1>9. ASSUME NEW i \in DOMAIN AnswerOf(p)
      PROVE  AnswerOf(p)[i] \in Notification /\ NoteTrue(AnswerOf(p)[i])
             /\ OrderOf(AnswerOf(p)[i].sid) = o
  <2>1. Len(q.rejected) \in Nat
    BY <1>2, <1>4
  <2>2. i \in 1..(1 + Len(q.rejected))
        /\ AnswerOf(p)[i] = IF i = 1 THEN main ELSE Reject(i - 1)
    BY <1>3
  <2>3. i = 1 \/ i - 1 \in 1..Len(q.rejected)
    BY <2>1, <2>2
  <2>4. QED
    BY <1>6, <1>7, <2>2, <2>3
<1>10. QED
  BY <1>2, <1>8, <1>9

\* The panel keeps of an answer one notification for each id that is new.
Novel(answer, i) ==
    /\ \A m \in notifications : ~SameId(m, answer[i])
    /\ \A j \in 1..(i - 1) : ~SameId(answer[j], answer[i])

\* Afterwards the id of every notification of the answer is there.
LEMMA EveryIdKept ==
    ASSUME NEW answer, NEW n \in Nat, DOMAIN answer = 1..n,
           notifications' = notifications \cup
               {answer[i] : i \in {j \in DOMAIN answer : Novel(answer, j)}},
           NEW i \in 1..n
    PROVE  \E m \in notifications' : SameId(m, answer[i])
<1> SUFFICES ASSUME \A m \in notifications : ~SameId(m, answer[i])
             PROVE  \E m \in notifications' : SameId(m, answer[i])
  OBVIOUS
<1> DEFINE same == {j \in 1..n : SameId(answer[j], answer[i])}
<1>1. i \in same /\ same \subseteq Nat
  BY DEF SameId
<1>2. PICK j \in same : \A h \in same : ~ <<h, j>> \in OpToRel(<, Nat)
  BY <1>1, WFMin, NatLessThanWellFounded, Zenon
<1>3. \A h \in same : ~ (h < j)
  <2>1. \A h \in same : <<h, j>> \in Nat \X Nat
    BY <1>1
  <2>2. QED
    BY <1>2, <2>1 DEF OpToRel
<1>4. j \in 1..n /\ SameId(answer[j], answer[i])
  OBVIOUS
<1>5. Novel(answer, j)
  <2>1. ASSUME NEW m \in notifications, SameId(m, answer[j])
        PROVE  FALSE
    BY <1>4, <2>1 DEF SameId
  <2>2. ASSUME NEW h \in 1..(j - 1), SameId(answer[h], answer[j])
        PROVE  FALSE
    <3>1. h \in 1..n /\ h < j
      BY <1>4
    <3>2. SameId(answer[h], answer[i])
      BY <1>4, <2>2 DEF SameId
    <3>3. QED
      BY <1>3, <3>1, <3>2
  <2>3. QED
    BY <2>1, <2>2 DEF Novel
<1>6. answer[j] \in notifications'
  BY <1>4, <1>5
<1>7. QED
  BY <1>4, <1>6

LEMMA FetchAnsweredStep ==
    ASSUME ServerInv, PanelInv, NEW p \in Slots, FetchAnswered(p)
    PROVE  PanelInv'
<1>1. /\ request[p].at = "answer" /\ Proceed(p, Idle)
      /\ UNCHANGED <<vars, placing, watched, timer, lambda_transcripts,
                     read_errors, lost>>
      /\ callingVendor' = FALSE
  BY DEF FetchAnswered
<1>2. PICK o \in Orders :
          /\ Closed(o)
          /\ \A i \in DOMAIN AnswerOf(p) :
                /\ AnswerOf(p)[i] \in Notification
                /\ NoteTrue(AnswerOf(p)[i])
                /\ OrderOf(AnswerOf(p)[i].sid) = o
          /\ Result(o) = "YES" /\ read_errors = 0 =>
                AnswerOf(p) = Announcement(o)
  BY <1>1, AnswerTrue
<1>s. PICK answer : answer = AnswerOf(p)
  OBVIOUS
<1>3. notifications' = notifications \cup
          {answer[i] : i \in {j \in DOMAIN answer : Novel(answer, j)}}
  BY <1>s DEF FetchAnswered, Novel
<1>4. notifications' \subseteq Notification /\ \A n \in notifications' : NoteTrue(n)
  BY <1>2, <1>3, <1>s DEF PanelInv, DashTypeOK, PanelTrue
<1>5. \A n \in notifications' : NoteTrue(n)'
  BY <1>1, <1>4, SameServer DEF NoteTrue
<1>6. ASSUME NEW x \in Orders
      PROVE  AllOrNothing(x)'
  <2>a. PICK a : a = Announcement(x)
    OBVIOUS
  <2> SUFFICES ASSUME Closed(x), Result(x) = "YES", read_errors = 0
               PROVE  Shown(x)' = {} \/ Announced(x, a)'
    BY <1>1, <2>a, SameServer DEF AllOrNothing, Announced, SameId
  <2>1. Shown(x) = {} \/ Announced(x, a)
    BY <2>a DEF PanelInv, PanelTrue, AllOrNothing
  <2>2. Shown(x)' = {n \in notifications' : OrderOf(n.sid) = x}
    BY <1>1, SameServer DEF Shown
  <2>3. CASE x # o
    <3>1. Shown(x)' = Shown(x)
      BY <1>2, <1>3, <1>s, <2>2, <2>3 DEF Shown
    <3>2. QED
      BY <1>3, <2>1, <3>1 DEF Announced, SameId
  <2>4. CASE x = o
    <3>1. answer = a /\ \A i \in DOMAIN a : OrderOf(a[i].sid) = x
      BY <1>2, <1>s, <2>a, <2>4
    <3>2. PICK n \in Nat \ {0} : DOMAIN a = 1..n
      <4>1. Len(Decliners(x)) \in Nat
        BY DeclinersShape DEF ServerInv, Closed
      <4>2. DOMAIN a = 1..(1 + Len(Decliners(x)))
        BY <2>a DEF Announcement
      <4>3. QED
        BY <4>1, <4>2
    <3>3. \A i \in DOMAIN a : \E m \in notifications' : SameId(m, a[i])
      BY <1>3, <3>1, <3>2, EveryIdKept
    <3>4. \A m \in Shown(x)' : \E i \in DOMAIN a : m = a[i]
      <4>1. \A m \in Shown(x) : \E i \in DOMAIN a : m = a[i]
        BY <2>1 DEF Announced
      <4>2. \A m \in notifications' :
                m \in notifications \/ \E i \in DOMAIN a : m = a[i]
        BY <1>3, <3>1
      <4>3. QED
        BY <2>2, <4>1, <4>2 DEF Shown
    <3>5. a[1] \in Shown(x)'
      <4>1. 1 \in DOMAIN a
        BY <3>2
      <4>2. CASE Shown(x) = {}
        <5>1. a[1].decision = "YES"
          BY <2>a, <4>1 DEF Announcement
        <5>2. \A m \in notifications : ~SameId(m, a[1])
          BY <3>1, <4>1, <4>2, <5>1 DEF Shown, SameId
        <5>3. Novel(a, 1)
          BY <5>2 DEF Novel
        <5>4. QED
          BY <1>3, <2>2, <3>1, <4>1, <5>3
      <4>3. CASE Announced(x, a)
        BY <1>3, <2>2, <4>3 DEF Announced, Shown
      <4>4. QED
        BY <2>1, <4>2, <4>3
    <3>6. QED
      BY <3>3, <3>4, <3>5 DEF Announced, SameId
  <2>5. QED
    BY <2>3, <2>4
<1>7. /\ request' \in [Slots -> Request]
      /\ \A r \in {request[t] : t \in Slots}' : RequestTrue(r)'
  BY <1>1, IdleTyped, RequestsKept
<1>8. \A s \in Sids : CopyTrue(s)'
  BY <1>1, CopiesKept DEF PanelInv
<1>9. WatchTrue'
  BY <1>1, SameServer DEF PanelInv, WatchTrue
<1>10. DashTypeOK'
  BY <1>1, <1>4, <1>7 DEF PanelInv, DashTypeOK
<1>11. PanelTrue'
  BY <1>5, <1>6, <1>7, <1>8 DEF PanelTrue
<1>12. QED
  BY <1>9, <1>10, <1>11 DEF PanelInv

-----------------------------------------------------------------------------
(******************************************************************************)
(* The invariant of the composition, and what follows from it.                *)
(******************************************************************************)
\* The calls that the panel waits for or polls stay those of their orders.
LEMMA WatchKept ==
    ASSUME ~ClientOrderIds, FallbackInv, FallbackInv', [Next]_vars,
           UNCHANGED restarts, WatchTrue, UNCHANGED <<watched, timer>>
    PROVE  /\ \A s \in placing : \E o \in Orders : AskedFor(s, o)'
           /\ watched' # NoCall => \E o \in Orders : AskedFor(watched, o)'
           /\ timer' => watched' # NoCall
<1>1. \A s \in placing : \E o \in Orders : AskedFor(s, o)'
  BY AskedKept DEF WatchTrue
<1>2. PICK w : w = watched
  OBVIOUS
<1>3. w # NoCall => \E o \in Orders : AskedFor(w, o)'
  BY <1>2, AskedKept DEF WatchTrue
<1>4. timer => w # NoCall
  BY <1>2 DEF WatchTrue
<1>5. watched' = w /\ timer' = timer
  BY <1>2
<1>6. w # NoCall => \E o \in Orders : AskedFor(watched, o)'
  BY <1>3, <1>5 DEF AskedFor, PlacedFor
<1>7. QED
  BY <1>1, <1>4, <1>5, <1>6

LEMMA PanelStep ==
    ASSUME ~ClientOrderIds, ServerInv, ServerInv', PanelInv, [DashNext]_all_vars
    PROVE  PanelInv'
<1>1. /\ FallbackInv /\ FallbackInv' /\ [Next]_vars /\ UNCHANGED restarts
  BY ServerSteps DEF ServerInv
<1>2. ASSUME NEW o \in Orders, NEW v \in Vendors, NEW n \in Sids,
             PanelCalls(o, v, n)
      PROVE  PanelInv'
  <2>1. /\ InitiateCall(o, v, NoCategory, n)
        /\ callingVendor' = TRUE /\ placing' = placing \cup {n}
        /\ UNCHANGED <<watched, timer, request, notifications,
                       lambda_transcripts, read_errors, lost>>
    BY <1>2 DEF PanelCalls
  <2>2. PanelTrue'
    BY <1>1, <2>1, ServerKeepsPanel DEF PanelInv
  <2>3. AskedFor(n, o)'
    <3>1. ~HasChain(o)
      BY <1>1, <2>1, FirstCallSound DEF InitiateCall
    <3>2. order_chains \in [Orders -> Chain]
          /\ call_metadata_store \in [Sids -> Meta]
      BY <1>1 DEF FallbackInv, AlignInv, CallsInv, TypeOK
    <3>3. /\ order_chains'[o] = NewChain(v, n, NoCategory)
          /\ call_metadata_store'[n] = [order |-> o, vendor |-> v]
      BY <2>1, <3>1, <3>2 DEF InitiateCall, PlaceCall
    <3>4. QED
      BY <3>3 DEF AskedFor, PlacedFor, HasChain, FirstSid, NewChain
  <2>4. WatchTrue'
    <3>1. /\ \A s \in placing : \E x \in Orders : AskedFor(s, x)'
          /\ watched' # NoCall => \E x \in Orders : AskedFor(watched, x)'
          /\ timer' => watched' # NoCall
      BY <1>1, <2>1, WatchKept DEF PanelInv
    <3>2. \A s \in placing' : \E x \in Orders : AskedFor(s, x)'
      BY <2>1, <2>3, <3>1
    <3>3. QED
      BY <3>1, <3>2 DEF WatchTrue
  <2>5. DashTypeOK'
    BY <2>1 DEF PanelInv, DashTypeOK
  <2>6. QED
    BY <2>2, <2>4, <2>5 DEF PanelInv
<1>6. ASSUME NEW s \in Sids, CallRequestEnds(s)
      PROVE  PanelInv'
  <2>1. /\ s \in placing /\ placing' \subseteq placing
        /\ callingVendor' \in BOOLEAN /\ lost' \subseteq Sids
        /\ \/ UNCHANGED <<watched, timer>>
           \/ watched' = s /\ timer' = TRUE
        /\ UNCHANGED <<vars, request, notifications, lambda_transcripts,
                       read_errors>>
    BY <1>6 DEF CallRequestEnds, CallAnswered, CallAnswerLost, PanelInv,
                DashTypeOK
  <2>2. PanelTrue'
    BY <1>1, <2>1, ServerKeepsPanel DEF PanelInv
  <2>3. WatchTrue'
    BY <2>1, SameServer, ConstantsAssumption DEF PanelInv, WatchTrue
  <2>4. DashTypeOK'
    BY <2>1 DEF PanelInv, DashTypeOK
  <2>5. QED
    BY <2>2, <2>3, <2>4 DEF PanelInv
<1>3. ASSUME UNCHANGED dash_vars
      PROVE  PanelInv'
  <2>1. UNCHANGED <<callingVendor, placing, watched, timer, request,
                    notifications, lambda_transcripts, read_errors, lost>>
    BY <1>3 DEF dash_vars
  <2>2. PanelTrue'
    BY <1>1, <2>1, ServerKeepsPanel DEF PanelInv
  <2>3. WatchTrue'
    <3>1. /\ \A s \in placing : \E x \in Orders : AskedFor(s, x)'
          /\ watched' # NoCall => \E x \in Orders : AskedFor(watched, x)'
          /\ timer' => watched' # NoCall
      BY <1>1, <2>1, WatchKept DEF PanelInv
    <3>2. QED
      BY <2>1, <3>1 DEF WatchTrue
  <2>4. DashTypeOK'
    BY <2>1 DEF PanelInv, DashTypeOK
  <2>5. QED
    BY <2>2, <2>3, <2>4 DEF PanelInv
<1>4. ASSUME NEW p \in Slots, RequestStep(p)
      PROVE  PanelInv'
  BY <1>4, PollSteps, FetchTranscriptStep, FetchChainStep, FetchVendorStep,
     FetchAnsweredStep, FetchEndsStep DEF RequestStep
<1>5. QED
  BY <1>2, <1>3, <1>4, <1>6 DEF DashNext, ServerStep, all_vars

LEMMA PanelInvariant ==
    ASSUME ~ClientOrderIds
    PROVE  DashSpec => [](ServerInv /\ PanelInv)
<1>1. DashInit => PanelInv
  <2> SUFFICES ASSUME DashInit
               PROVE  PanelInv
    OBVIOUS
  <2>1. /\ \A p \in Slots : request[p] = Idle
        /\ request \in [Slots -> Request]
        /\ Idle.at = "idle"
    BY IdleTyped DEF DashInit, Idle
  <2>2. NoTranscript \in Transcript
    BY DEF NoTranscript, Transcript
  <2>3. DashTypeOK
    <3>1. 0 \in 0..MaxReadErrors
      BY DashboardAssumption
    <3>2. lambda_transcripts \in [Sids -> Transcript] /\ notifications = {}
      BY <2>2 DEF DashInit
    <3>3. QED
      BY <2>1, <3>1, <3>2 DEF DashInit, DashTypeOK
  <2>4. PanelTrue
    BY <2>1 DEF DashInit, Init, PanelTrue, RequestTrue, CopyTrue, AllOrNothing,
                Shown
  <2>5. QED
    BY <2>3, <2>4 DEF PanelInv, DashInit, WatchTrue
<1>2. ServerInv /\ ServerInv' /\ PanelInv /\ [DashNext]_all_vars => PanelInv'
  BY PanelStep
<1>3. QED
  BY <1>1, <1>2, ServerInvariant, PTL DEF DashSpec

\* The requests, notifications and copies have their types.
THEOREM PanelTyped ==
    ASSUME ~ClientOrderIds
    PROVE  DashSpec => []DashTypeOK
<1>1. PanelInv => DashTypeOK
  BY DEF PanelInv
<1>2. QED
  BY <1>1, PanelInvariant, PTL

\* The panel reports an order only once it is settled, and as what it was
\* settled, whatever the server does between the reads of one request.
THEOREM OnlySettledShown ==
    ASSUME ~ClientOrderIds
    PROVE  DashSpec => []ShownAsSettled
<1>1. PanelInv => ShownAsSettled
  <2> SUFFICES ASSUME PanelInv, NEW n \in notifications, n.main
               PROVE  LET status == order_chains[OrderOf(n.sid)].status
                      IN  IF n.decision = "YES" THEN status = "FULFILLED"
                          ELSE status = "FAILED"
    BY DEF ShownAsSettled
  <2>1. PICK o \in Orders : PlacedFor(n.sid, o) /\ Closed(o)
                            /\ n.decision = Result(o)
    BY DEF PanelInv, PanelTrue, NoteTrue
  <2>2. QED
    BY <2>1 DEF PlacedFor, OrderOf, Closed, Result
<1>2. QED
  BY <1>1, PanelInvariant, PTL

\* When every read succeeds the purchase order names the vendor that accepted,
\* and the vendors reported to have rejected are the others that were asked,
\* except those whose report has the id of one that the panel already holds.
THEOREM PurchaseOrderNamesAcceptor ==
    ASSUME ~ClientOrderIds
    PROVE  DashSpec => []PONamesAcceptor
<1>1. ASSUME ServerInv, PanelInv
      PROVE  PONamesAcceptor
  <2> SUFFICES ASSUME NEW n \in notifications, n.main, n.decision = "YES",
                      read_errors = 0
               PROVE  LET x       == OrderOf(n.sid)
                          c       == order_chains[x]
                          refused == 1..(Len(c.tried) - 1)
                      IN  /\ verdict[LastSid(x)] = "YES"
                          /\ n.vendor = c.tried[Len(c.tried)]
                          /\ \A m \in Shown(x) \ {n} : \E i \in refused :
                                m.sid = c.sids[i] /\ m.vendor = c.tried[i]
                          /\ \A i \in refused : \E m \in notifications :
                                m.decision # "YES" /\ Short[m.sid] = Short[c.sids[i]]
    BY DEF PONamesAcceptor
  <2>1. PICK o \in Orders : PlacedFor(n.sid, o) /\ Closed(o)
                            /\ n.decision = Result(o)
    BY <1>1 DEF PanelInv, PanelTrue, NoteTrue
  <2> DEFINE c == order_chains[o]
             k == Len(c.tried)
  <2>a. PICK a : a = Announcement(o)
    OBVIOUS
  <2>2. OrderOf(n.sid) = o /\ HasChain(o) /\ c.status = "FULFILLED"
    BY <2>1 DEF PlacedFor, OrderOf, Closed, Result
  <2>3. verdict[LastSid(o)] = "YES"
    BY <1>1, <2>2
    DEF ServerInv, FallbackInv, ChainsSound, Sound, LastSid, AnswerFor
  <2>4. Announced(o, a) /\ n \in Shown(o)
    BY <1>1, <2>1, <2>2, <2>a DEF PanelInv, PanelTrue, AllOrNothing, Shown
  <2>5. /\ k \in Nat \ {0}
        /\ DOMAIN Decliners(o) = 1..(k - 1) /\ Decliners(o) \in Seq(Vendors)
        /\ \A i \in 1..(k - 1) : Decliners(o)[i] = c.tried[i]
    BY <1>1, <2>2, DeclinersShape DEF ServerInv
  <2>6. Len(Decliners(o)) = k - 1
    <3> HIDE DEF k
    <3>1. Len(Decliners(o)) \in Nat
          /\ DOMAIN Decliners(o) = 1..Len(Decliners(o))
      BY <2>5
    <3>2. QED
      BY <2>5, <3>1
  <2>7. /\ DOMAIN a = 1..k
        /\ a[1].vendor = Acceptor(o)
        /\ \A i \in 2..k : /\ ~a[i].main /\ a[i].decision = "NO"
                           /\ a[i].sid = c.sids[i - 1]
                           /\ a[i].vendor = Decliners(o)[i - 1]
    <3> HIDE DEF k
    <3>1. 1 + Len(Decliners(o)) = k /\ 1 \in 1..k /\ \A i \in 2..k : i \in 1..k
      BY <2>5, <2>6
    <3>2. QED
      BY <2>a, <3>1 DEF Announcement
  <2> HIDE DEF c, k
  <2>8. n = a[1]
    <3>1. PICK i \in 1..k : n = a[i]
      BY <2>4, <2>7 DEF Announced
    <3>2. i \notin 2..k
      BY <2>7, <3>1
    <3>3. QED
      BY <2>5, <3>1, <3>2
  <2>9. ASSUME NEW m \in Shown(o) \ {n}
        PROVE  \E i \in 1..(k - 1) : m.sid = c.sids[i] /\ m.vendor = c.tried[i]
    <3>1. PICK i \in 1..k : m = a[i]
      BY <2>4, <2>7 DEF Announced
    <3>2. i \in 2..k /\ i - 1 \in 1..(k - 1)
      BY <2>5, <2>8, <3>1
    <3>3. m.sid = c.sids[i - 1] /\ m.vendor = c.tried[i - 1]
      BY <2>5, <2>7, <3>1, <3>2
    <3>4. QED
      BY <3>2, <3>3
  <2>10. ASSUME NEW i \in 1..(k - 1)
         PROVE  \E m \in notifications :
                    m.decision # "YES" /\ Short[m.sid] = Short[c.sids[i]]
    <3>1. i + 1 \in 2..k /\ i + 1 \in 1..k /\ (i + 1) - 1 = i
      BY <2>5
    <3>2. a[i + 1].decision = "NO" /\ a[i + 1].sid = c.sids[i]
      BY <2>7, <3>1
    <3>3. PICK m \in notifications : SameId(m, a[i + 1])
      BY <2>4, <2>7, <3>1 DEF Announced
    <3>4. QED
      BY <3>2, <3>3 DEF SameId
  <2>11. n.vendor = c.tried[k]
    BY <2>7, <2>8 DEF Acceptor, c, k
  <2>12. QED
    BY <2>2, <2>3, <2>9, <2>10, <2>11 DEF c, k
<1>2. QED
  BY <1>1, PanelInvariant, PTL
==============================================================================
