------------------------- MODULE LocalBackendProofs -------------------------
(******************************************************************************)
(* Theorems about LocalBackend, for every value of the constants: however     *)
(* often the reports of a call are delivered and however the fallback threads *)
(* interleave.                                                                *)
(******************************************************************************)
EXTENDS LocalBackend, FiniteSetTheorems, TLAPS

-----------------------------------------------------------------------------
(******************************************************************************)
(* The inductive invariant.                                                   *)
(******************************************************************************)

\* Where a thread is at work, where it holds a call that it has not recorded
\* yet, and where the chain has counted that call already.
Entering == {"listing", "pointing", "recording"}
Holding  == {"counting"} \cup Entering
Working  == {"pausing", "looking", "calling"} \cup Holding

\* A call that is not over has left no trace in the stores; a job that has
\* been started belongs to a call that is over.
CallsInv ==
    \A s \in Sids :
        /\ line[s] = "unused" => call_metadata_store[s] = NoMeta
        /\ line[s] # "over" =>
              /\ answer[s] = NoTranscript
              /\ call_transcripts_store[s] = NoTranscript
              /\ notifications_store[s] = "none"
              /\ \A k \in Reports : jobs[<<s, k>>].at = "none"
        /\ call_transcripts_store[s] \in {NoTranscript, answer[s]}

\* A fallback thread works for an order that has a chain, and calls a vendor.
ThreadsInv ==
    \A s \in Sids, k \in Reports :
        /\ jobs[<<s, k>>].at \in Working => HasChain(call_metadata_store[s].order)
        /\ jobs[<<s, k>>].at \in {"calling"} \cup Holding =>
               jobs[<<s, k>>].alt \in Vendors

\* A call that a thread holds was placed, is not recorded, and held by no other.
Held(j) ==
    LET n == jobs[j].sid
    IN  /\ n \in Sids
        /\ line[n] \in {"ringing", "missed"}
        /\ call_metadata_store[n] = NoMeta
        /\ \A i \in Sids \X Reports :
              jobs[i].at \in Holding /\ jobs[i].sid = n => i = j

HeldInv == \A j \in Sids \X Reports : jobs[j].at \in Holding => Held(j)

\* The chain of an order counts its calls, those that a thread has yet to
\* list or to record included.
Unlisted(o)   == Between(o, {"listing"})
Unrecorded(o) == Between(o, {"pointing", "recording"})

CurrentKnown(o) ==
    \/ order_chains[o].current \in CallsOf(o)
    \/ \E j \in Between(o, {"recording"}) : order_chains[o].current = jobs[j].sid

CountsCalls(o) ==
    LET c == order_chains[o]
    IN  /\ IsFiniteSet(CallsOf(o))
        /\ IsFiniteSet(Unlisted(o))
        /\ IsFiniteSet(Unrecorded(o))
        /\ c.attempt = Len(c.tried) + Cardinality(Unlisted(o))
        /\ Len(c.tried) = Cardinality(CallsOf(o)) + Cardinality(Unrecorded(o))
        /\ CurrentKnown(o)

CountFor(o) ==
    IF HasChain(o) THEN CountsCalls(o)
                   ELSE CallsOf(o) = {} /\ order_chains[o] = NoChain

CountInv == \A o \in Orders : CountFor(o)

LocalInv ==
    TypeOK /\ CallsInv /\ ThreadsInv /\ HeldInv /\ CountInv /\ NotificationIsEarned

-----------------------------------------------------------------------------
(******************************************************************************)
(* What a step does to the jobs, the calls and the chains.                    *)
(******************************************************************************)
Job == [at : {"none", "filed", "pausing", "looking", "calling",
              "counting", "listing", "pointing", "recording", "done"},
        alt : Vendors \cup {NoVendor},
        sid : Sids \cup {NoCall}]

Chain == [attempt : Nat, tried : Seq(Vendors), current : Sids \cup {NoCall},
          category : Categories \cup {NoCategory}]

\* What LocalInv says of the types, for the lemmas below.
LEMMA Types ==
    ASSUME LocalInv
    PROVE  /\ call_metadata_store \in
                 [Sids -> [order : Orders \cup {NoOrder},
                           vendor : Vendors \cup {NoVendor}]]
           /\ call_transcripts_store \in [Sids -> Transcripts \cup {NoTranscript}]
           /\ notifications_store \in [Sids -> {"none", "success", "rejection"}]
           /\ order_chains \in [Orders -> Chain]
           /\ jobs \in [Sids \X Reports -> Job]
           /\ line \in [Sids -> {"unused", "ringing", "over", "missed"}]
           /\ answer \in [Sids -> Transcripts \cup {NoTranscript}]
BY DEF LocalInv, TypeOK, Job, Chain

\* The type of a state whose jobs, chains, calls and metadata have theirs.
LEMMA TypesKept ==
    ASSUME LocalInv,
           call_metadata_store' \in
               [Sids -> [order : Orders \cup {NoOrder},
                         vendor : Vendors \cup {NoVendor}]],
           order_chains' \in [Orders -> Chain],
           jobs' \in [Sids \X Reports -> Job],
           line' \in [Sids -> {"unused", "ringing", "over", "missed"}],
           UNCHANGED <<call_transcripts_store, notifications_store, answer, clients>>
    PROVE  TypeOK'
BY DEF LocalInv, TypeOK, Job, Chain

\* One job moves, the others stay.
LEMMA JobMoves ==
    ASSUME LocalInv, NEW s \in Sids, NEW k \in Reports, NEW job \in Job,
           jobs' = [jobs EXCEPT ![<<s, k>>] = job]
    PROVE  /\ jobs' \in [Sids \X Reports -> Job]
           /\ jobs'[<<s, k>>] = job
           /\ \A t \in Sids, l \in Reports :
                 <<t, l>> # <<s, k>> => jobs'[<<t, l>>] = jobs[<<t, l>>]
           /\ \A j \in Sids \X Reports : j # <<s, k>> => jobs'[j] = jobs[j]
BY Types

\* The metadata of a call is written.
Recorded(o, v, n) ==
    /\ call_metadata_store[n] = NoMeta
    /\ call_metadata_store' =
          [call_metadata_store EXCEPT ![n] = [order |-> o, vendor |-> v]]

\* That adds the call to those of its order, and to no other's.
LEMMA RecordedForOrder ==
    ASSUME LocalInv, NEW o \in Orders, NEW v \in Vendors, NEW n \in Sids,
           Recorded(o, v, n)
    PROVE  /\ n \notin CallsOf(o)
           /\ CallsOf(o)' = CallsOf(o) \cup {n}
           /\ \A p \in Orders \ {o} : CallsOf(p)' = CallsOf(p)
           /\ call_metadata_store'[n] = [order |-> o, vendor |-> v]
           /\ \A s \in Sids : s # n =>
                 call_metadata_store'[s] = call_metadata_store[s]
           /\ call_metadata_store' \in
                 [Sids -> [order : Orders \cup {NoOrder},
                           vendor : Vendors \cup {NoVendor}]]
<1>1. call_metadata_store \in [Sids -> [order : Orders \cup {NoOrder},
                                        vendor : Vendors \cup {NoVendor}]]
  BY Types
<1>2. call_metadata_store[n] = NoMeta
  BY DEF Recorded
<1>3. /\ call_metadata_store'[n] = [order |-> o, vendor |-> v]
      /\ \A s \in Sids : s # n =>
            call_metadata_store'[s] = call_metadata_store[s]
  BY <1>1 DEF Recorded
<1>4. \A p \in Orders : call_metadata_store[n].order # p
  BY <1>2, LocalAssumption DEF NoMeta
<1>5. call_metadata_store'[n].order = o
  BY <1>3
<1>6. call_metadata_store' \in [Sids -> [order : Orders \cup {NoOrder},
                                         vendor : Vendors \cup {NoVendor}]]
  BY <1>1 DEF Recorded
<1>7. QED
  BY <1>3, <1>4, <1>5, <1>6 DEF CallsOf

\* One job of an order moves, and the metadata of a call without jobs may be
\* written.
JobShifts(o, s, k, job) ==
    /\ jobs' = [jobs EXCEPT ![<<s, k>>] = job]
    /\ call_metadata_store[s].order = o
    /\ \A t \in Sids :
          \/ call_metadata_store'[t] = call_metadata_store[t]
          \/ t # s /\ \A l \in Reports : jobs[<<t, l>>].at = "none"

\* Where the threads of the order stand then.
LEMMA BetweenMoves ==
    ASSUME LocalInv, NEW s \in Sids, NEW k \in Reports, NEW job \in Job,
           NEW o \in Orders, JobShifts(o, s, k, job)
    PROVE  \A X : "none" \notin X =>
              Between(o, X)' = IF job.at \in X THEN Between(o, X) \cup {<<s, k>>}
                                              ELSE Between(o, X) \ {<<s, k>>}
<1> SUFFICES ASSUME NEW X, "none" \notin X
             PROVE  Between(o, X)' = IF job.at \in X
                                     THEN Between(o, X) \cup {<<s, k>>}
                                     ELSE Between(o, X) \ {<<s, k>>}
  OBVIOUS
<1>1. /\ jobs'[<<s, k>>] = job
      /\ \A j \in Sids \X Reports : j # <<s, k>> => jobs'[j] = jobs[j]
  <2>1. jobs' = [jobs EXCEPT ![<<s, k>>] = job]
    BY DEF JobShifts
  <2>2. /\ jobs' \in [Sids \X Reports -> Job]
        /\ jobs'[<<s, k>>] = job
        /\ \A t \in Sids, l \in Reports :
              <<t, l>> # <<s, k>> => jobs'[<<t, l>>] = jobs[<<t, l>>]
        /\ \A j \in Sids \X Reports : j # <<s, k>> => jobs'[j] = jobs[j]
    BY <2>1, JobMoves
  <2>3. QED
    BY <2>2
<1>2. call_metadata_store'[s].order = o
  BY DEF JobShifts
<1>3. ASSUME NEW j \in Sids \X Reports, j # <<s, k>>
      PROVE  /\ jobs'[j].at \in X /\ call_metadata_store'[j[1]].order = o
             <=> jobs[j].at \in X /\ call_metadata_store[j[1]].order = o
  <2>1. jobs'[j] = jobs[j]
    BY <1>1, <1>3
  <2>2. PICK t \in Sids, l \in Reports : j = <<t, l>>
    OBVIOUS
  <2>3. CASE call_metadata_store'[t] = call_metadata_store[t]
    BY <2>1, <2>2, <2>3
  <2>4. CASE jobs[<<t, l>>].at = "none"
    BY <2>1, <2>2, <2>4
  <2>5. QED
    BY <2>3, <2>4 DEF JobShifts
<1>4. <<s, k>> \in Sids \X Reports /\ <<s, k>>[1] = s
  OBVIOUS
<1>5. Between(o, X)' = {j \in Sids \X Reports :
          jobs'[j].at \in X /\ call_metadata_store'[j[1]].order = o}
  BY DEF Between
<1>6. Between(o, X) = {j \in Sids \X Reports :
          jobs[j].at \in X /\ call_metadata_store[j[1]].order = o}
  BY DEF Between
<1>7. QED
  <2>1. ASSUME NEW j \in Sids \X Reports, j # <<s, k>>
        PROVE  j \in Between(o, X)' <=> j \in Between(o, X)
    BY <1>3, <1>5, <1>6, <2>1
  <2>2. <<s, k>> \in Between(o, X)' <=> job.at \in X
    BY <1>1, <1>2, <1>4, <1>5
  <2>3. Between(o, X)' \subseteq Sids \X Reports
        /\ Between(o, X) \subseteq Sids \X Reports
    BY <1>5, <1>6
  <2>4. QED
    BY <1>4, <2>1, <2>2, <2>3

\* The count of an order holds as long as its chain and its calls stay as they
\* are, and no thread of it enters or leaves the update of the chain.
LEMMA CountKept ==
    ASSUME LocalInv, NEW o \in Orders,
           order_chains'[o] = order_chains[o], CallsOf(o)' = CallsOf(o),
           \A j \in Sids \X Reports :
               \/ /\ jobs'[j] = jobs[j]
                  /\ call_metadata_store'[j[1]] = call_metadata_store[j[1]]
               \/ /\ jobs[j].at \notin Entering
                  /\ jobs'[j].at \notin Entering
               \/ /\ call_metadata_store[j[1]].order # o
                  /\ call_metadata_store'[j[1]].order # o
    PROVE  CountFor(o)'
<1>1. HasChain(o)' <=> HasChain(o)
  BY DEF HasChain
<1>2. ASSUME NEW X \in SUBSET Entering
      PROVE  Between(o, X)' = Between(o, X)
  <2>1. ASSUME NEW j \in Sids \X Reports
        PROVE  jobs'[j].at \in X /\ call_metadata_store'[j[1]].order = o
               <=> jobs[j].at \in X /\ call_metadata_store[j[1]].order = o
    <3>1. CASE /\ jobs'[j] = jobs[j]
               /\ call_metadata_store'[j[1]] = call_metadata_store[j[1]]
      BY <3>1
    <3>2. CASE jobs[j].at \notin Entering /\ jobs'[j].at \notin Entering
      BY <3>2, <1>2
    <3>3. CASE /\ call_metadata_store[j[1]].order # o
               /\ call_metadata_store'[j[1]].order # o
      BY <3>3
    <3>4. QED
      BY <3>1, <3>2, <3>3
  <2>2. QED
    BY <2>1 DEF Between
<1>3. /\ Unlisted(o)' = Unlisted(o)
      /\ Unrecorded(o)' = Unrecorded(o)
      /\ Between(o, {"recording"})' = Between(o, {"recording"})
  <2>1. {"listing"} \in SUBSET Entering /\ {"recording"} \in SUBSET Entering
        /\ {"pointing", "recording"} \in SUBSET Entering
    BY DEF Entering
  <2>2. QED
    BY <1>2, <2>1 DEF Unlisted, Unrecorded
<1>4. \A j \in Between(o, {"recording"}) : jobs'[j] = jobs[j]
  BY DEF Between, Entering
<1>5. CurrentKnown(o) => CurrentKnown(o)'
  BY <1>3, <1>4 DEF CurrentKnown
<1>6. CountFor(o)
  BY DEF LocalInv, CountInv
<1>7. QED
  BY <1>1, <1>3, <1>5, <1>6 DEF CountFor, CountsCalls

\* A fallback thread moves: what it holds was placed, and nobody else holds it.
ThreadMoves(s, k, job) ==
    /\ jobs' = [jobs EXCEPT ![<<s, k>>] = job]
    /\ jobs[<<s, k>>].at \in Working /\ job.at \in Working \cup {"done"}
    /\ UNCHANGED <<call_transcripts_store, notifications_store, answer>>
    /\ job.at \in {"calling"} \cup Holding => job.alt \in Vendors
    /\ \A p \in Orders : HasChain(p) => HasChain(p)'
    /\ line' \in [Sids -> {"unused", "ringing", "over", "missed"}]
    /\ \A t \in Sids : \/ line'[t] = line[t]
                       \/ line[t] = "unused" /\ line'[t] = "ringing"
    /\ \A t \in Sids :
          \/ call_metadata_store'[t] = call_metadata_store[t]
          \/ /\ line[t] \in {"ringing", "missed"}
             /\ jobs[<<s, k>>].at \in Holding /\ jobs[<<s, k>>].sid = t
             /\ job.at \notin Holding
    /\ job.at \in Holding =>
          \/ jobs[<<s, k>>].at \in Holding /\ job.sid = jobs[<<s, k>>].sid
          \/ /\ job.sid \in Sids
             /\ line[job.sid] = "unused" /\ line'[job.sid] = "ringing"

LEMMA ThreadKeeps ==
    ASSUME LocalInv, NEW s \in Sids, NEW k \in Reports, NEW job \in Job,
           ThreadMoves(s, k, job)
    PROVE  CallsInv' /\ ThreadsInv' /\ HeldInv' /\ NotificationIsEarned'
<1> USE DEF ThreadMoves
<1>1. /\ jobs' \in [Sids \X Reports -> Job]
      /\ jobs'[<<s, k>>] = job
      /\ \A t \in Sids, l \in Reports :
            <<t, l>> # <<s, k>> => jobs'[<<t, l>>] = jobs[<<t, l>>]
      /\ \A j \in Sids \X Reports : j # <<s, k>> => jobs'[j] = jobs[j]
  BY JobMoves
<1>2. jobs[<<s, k>>].at # "none" /\ line[s] = "over"
  BY DEF LocalInv, CallsInv, Working, Holding, Entering
<1>3. CallsInv'
  <2> SUFFICES ASSUME NEW t \in Sids
               PROVE  /\ line'[t] = "unused" => call_metadata_store'[t] = NoMeta
                      /\ line'[t] # "over" =>
                            /\ answer[t] = NoTranscript
                            /\ call_transcripts_store[t] = NoTranscript
                            /\ notifications_store[t] = "none"
                            /\ \A l \in Reports : jobs'[<<t, l>>].at = "none"
                      /\ call_transcripts_store[t] \in {NoTranscript, answer[t]}
    BY DEF CallsInv
  <2>1. line'[t] # "over" => line[t] # "over" /\ t # s
    BY <1>2
  <2>2. line'[t] = "unused" => line[t] = "unused"
    OBVIOUS
  <2>3. line[t] = "unused" => call_metadata_store'[t] = call_metadata_store[t]
    OBVIOUS
  <2>4. t # s => \A l \in Reports : jobs'[<<t, l>>] = jobs[<<t, l>>]
    BY <1>1
  <2>5. QED
    BY <2>1, <2>2, <2>3, <2>4 DEF LocalInv, CallsInv
<1>4. ASSUME NEW t \in Sids, NEW l \in Reports, jobs[<<t, l>>].at \in Working
      PROVE  HasChain(call_metadata_store[t].order)'
  <2>1. line[t] = "over" /\ HasChain(call_metadata_store[t].order)
    BY <1>4 DEF LocalInv, CallsInv, ThreadsInv, Working, Holding, Entering
  <2>2. call_metadata_store'[t] = call_metadata_store[t]
    BY <2>1
  <2>3. PICK p \in Orders : p = call_metadata_store[t].order /\ HasChain(p)
    BY <2>1 DEF HasChain
  <2>4. HasChain(p)'
    BY <2>3
  <2>5. QED
    BY <2>2, <2>3, <2>4 DEF HasChain
<1>5. ThreadsInv'
  <2> SUFFICES ASSUME NEW t \in Sids, NEW l \in Reports
               PROVE  /\ jobs'[<<t, l>>].at \in Working =>
                             HasChain(call_metadata_store[t].order)'
                      /\ jobs'[<<t, l>>].at \in {"calling"} \cup Holding =>
                             jobs'[<<t, l>>].alt \in Vendors
    BY DEF ThreadsInv
  <2>1. CASE <<t, l>> = <<s, k>>
    BY <1>1, <1>4, <2>1
  <2>2. CASE <<t, l>> # <<s, k>>
    BY <1>1, <1>4, <2>2 DEF LocalInv, ThreadsInv
  <2>3. QED
    BY <2>1, <2>2
<1>6. HeldInv'
  <2>0. <<s, k>> \in Sids \X Reports
    OBVIOUS
  <2>1. ASSUME NEW j \in Sids \X Reports, j # <<s, k>>, jobs'[j].at \in Holding
        PROVE  Held(j)'
    <3>1. jobs'[j] = jobs[j] /\ Held(j)
      BY <1>1, <2>1 DEF LocalInv, HeldInv
    <3>2. PICK n \in Sids :
              /\ n = jobs[j].sid /\ n = jobs'[j].sid
              /\ line[n] \in {"ringing", "missed"}
              /\ call_metadata_store[n] = NoMeta
              /\ \A i \in Sids \X Reports :
                    jobs[i].at \in Holding /\ jobs[i].sid = n => i = j
      BY <3>1 DEF Held
    <3>3. line'[n] \in {"ringing", "missed"}
      BY <3>2
    <3>4. ~(jobs[<<s, k>>].at \in Holding /\ jobs[<<s, k>>].sid = n)
      BY <2>0, <2>1, <3>2
    <3>5. call_metadata_store'[n] = NoMeta
      BY <3>2, <3>4
    <3>6. ~(job.at \in Holding /\ job.sid = n)
      BY <3>2, <3>4
    <3>7. \A i \in Sids \X Reports :
              jobs'[i].at \in Holding /\ jobs'[i].sid = n => i = j
      BY <1>1, <3>2, <3>6
    <3>8. QED
      BY <3>2, <3>3, <3>5, <3>7 DEF Held
  <2>2. ASSUME job.at \in Holding
        PROVE  Held(<<s, k>>)'
    <3>1. PICK n : n = job.sid
      OBVIOUS
    <3>2. CASE jobs[<<s, k>>].at \in Holding /\ n = jobs[<<s, k>>].sid
      <4>1. /\ n \in Sids /\ line[n] \in {"ringing", "missed"}
            /\ call_metadata_store[n] = NoMeta
            /\ \A i \in Sids \X Reports :
                  jobs[i].at \in Holding /\ jobs[i].sid = n => i = <<s, k>>
        BY <2>0, <3>2 DEF LocalInv, HeldInv, Held
      <4>2. line'[n] \in {"ringing", "missed"} /\ call_metadata_store'[n] = NoMeta
        BY <2>2, <4>1
      <4>3. \A i \in Sids \X Reports :
                jobs'[i].at \in Holding /\ jobs'[i].sid = n => i = <<s, k>>
        BY <1>1, <4>1
      <4>4. QED
        BY <1>1, <3>1, <4>1, <4>2, <4>3 DEF Held
    <3>3. CASE n \in Sids /\ line[n] = "unused" /\ line'[n] = "ringing"
      <4>1. call_metadata_store'[n] = NoMeta
        BY <2>2, <3>3 DEF LocalInv, CallsInv
      <4>2. \A i \in Sids \X Reports :
                ~(jobs[i].at \in Holding /\ jobs[i].sid = n)
        BY <3>3 DEF LocalInv, HeldInv, Held
      <4>3. \A i \in Sids \X Reports :
                jobs'[i].at \in Holding /\ jobs'[i].sid = n => i = <<s, k>>
        BY <1>1, <4>2
      <4>4. QED
        BY <1>1, <3>1, <3>3, <4>1, <4>3 DEF Held
    <3>4. QED
      BY <2>2, <3>1, <3>2, <3>3
  <2>3. QED
    BY <1>1, <2>1, <2>2 DEF HeldInv
<1>7. NotificationIsEarned'
  BY DEF LocalInv, NotificationIsEarned
<1>8. QED
  BY <1>3, <1>5, <1>6, <1>7

-----------------------------------------------------------------------------
(******************************************************************************)
(* The steps.                                                                 *)
(******************************************************************************)

\* A client's call opens a chain that counts it.
LEMMA CallVendorCounted ==
    ASSUME LocalInv, NEW o \in Orders, NEW v \in Vendors, NEW c \in Categories,
           NEW n \in Sids, CallVendor(o, v, c, n)
    PROVE  CountInv'
<1>1. /\ ~HasChain(o) /\ line[n] = "unused" /\ UNCHANGED jobs
      /\ order_chains' = [order_chains EXCEPT ![o] =
             [attempt |-> 1, tried |-> <<v>>, current |-> n,
              category |-> IF SendsCategory THEN c ELSE NoCategory]]
  BY DEF CallVendor
<1>2. Recorded(o, v, n) /\ \A l \in Reports : jobs[<<n, l>>].at = "none"
  BY <1>1 DEF CallVendor, Recorded, LocalInv, CallsInv
<1>3. /\ CallsOf(o)' = CallsOf(o) \cup {n}
      /\ \A p \in Orders \ {o} : CallsOf(p)' = CallsOf(p)
      /\ \A t \in Sids : t # n =>
            call_metadata_store'[t] = call_metadata_store[t]
  <2>1. /\ n \notin CallsOf(o)
        /\ CallsOf(o)' = CallsOf(o) \cup {n}
        /\ \A p \in Orders \ {o} : CallsOf(p)' = CallsOf(p)
        /\ call_metadata_store'[n] = [order |-> o, vendor |-> v]
        /\ \A t \in Sids : t # n =>
              call_metadata_store'[t] = call_metadata_store[t]
        /\ call_metadata_store' \in
              [Sids -> [order : Orders \cup {NoOrder},
                        vendor : Vendors \cup {NoVendor}]]
    BY <1>2, RecordedForOrder
  <2>2. QED
    BY <2>1
<1>4. ASSUME NEW j \in Sids \X Reports, jobs[j].at \in Entering
      PROVE  /\ call_metadata_store'[j[1]] = call_metadata_store[j[1]]
             /\ call_metadata_store[j[1]].order # o
  <2>1. PICK t \in Sids, l \in Reports : j = <<t, l>>
    OBVIOUS
  <2>2. HasChain(call_metadata_store[t].order) /\ t # n
    BY <1>2, <1>4, <2>1 DEF LocalInv, ThreadsInv, Working, Holding, Entering
  <2>3. QED
    BY <1>1, <1>3, <2>1, <2>2
<1>5. ASSUME NEW p \in Orders, p # o
      PROVE  CountFor(p)'
  <2>1. order_chains'[p] = order_chains[p] /\ CallsOf(p)' = CallsOf(p)
    BY <1>1, <1>3, <1>5, Types
  <2>2. \A j \in Sids \X Reports :
            \/ jobs'[j] = jobs[j] /\ call_metadata_store'[j[1]] = call_metadata_store[j[1]]
            \/ jobs[j].at \notin Entering /\ jobs'[j].at \notin Entering
    BY <1>1, <1>4
  <2>3. QED
    BY <2>1, <2>2, CountKept
<1>6. CountFor(o)'
  <2>1. order_chains'[o].attempt = 1 /\ order_chains'[o].tried = <<v>>
        /\ order_chains'[o].current = n
    BY <1>1, Types
  <2>2. CallsOf(o)' = {n}
    BY <1>1, <1>3 DEF LocalInv, CountInv, CountFor
  <2>3. \A X \in SUBSET Entering : Between(o, X)' = {}
    BY <1>1, <1>4 DEF Between
  <2>4. Unlisted(o)' = {} /\ Unrecorded(o)' = {}
    BY <2>3 DEF Unlisted, Unrecorded, Entering
  <2>5. /\ IsFiniteSet({n}) /\ Cardinality({n}) = 1
        /\ IsFiniteSet({}) /\ Cardinality({}) = 0
    BY FS_EmptySet, FS_Singleton
  <2>6. Len(<<v>>) = 1
    OBVIOUS
  <2>7. CurrentKnown(o)'
    BY <2>1, <2>2 DEF CurrentKnown
  <2>8. /\ order_chains'[o].attempt =
              Len(order_chains'[o].tried) + Cardinality(Unlisted(o)')
        /\ Len(order_chains'[o].tried) =
              Cardinality(CallsOf(o)') + Cardinality(Unrecorded(o)')
    BY <2>1, <2>2, <2>4, <2>5, <2>6
  <2>9. CountsCalls(o)'
    BY <2>2, <2>4, <2>5, <2>7, <2>8 DEF CountsCalls
  <2>10. QED
    BY <2>1, <2>9 DEF CountFor, HasChain
<1>7. QED
  BY <1>5, <1>6 DEF CountInv

LEMMA CallVendorStep ==
    ASSUME LocalInv, NEW o \in Orders, NEW v \in Vendors, NEW c \in Categories,
           NEW n \in Sids, CallVendor(o, v, c, n)
    PROVE  LocalInv'
<1>1. /\ ~HasChain(o) /\ line[n] = "unused"
      /\ line' = [line EXCEPT ![n] = "ringing"]
      /\ UNCHANGED <<jobs, call_transcripts_store, notifications_store, answer>>
  BY DEF CallVendor
<1>2. Recorded(o, v, n) /\ \A l \in Reports : jobs[<<n, l>>].at = "none"
  BY <1>1 DEF CallVendor, Recorded, LocalInv, CallsInv
<1>3. /\ \A t \in Sids : t # n =>
            /\ call_metadata_store'[t] = call_metadata_store[t]
            /\ line'[t] = line[t]
      /\ line'[n] = "ringing"
  <2>1. /\ n \notin CallsOf(o)
        /\ CallsOf(o)' = CallsOf(o) \cup {n}
        /\ \A p \in Orders \ {o} : CallsOf(p)' = CallsOf(p)
        /\ call_metadata_store'[n] = [order |-> o, vendor |-> v]
        /\ \A t \in Sids : t # n =>
              call_metadata_store'[t] = call_metadata_store[t]
        /\ call_metadata_store' \in
              [Sids -> [order : Orders \cup {NoOrder},
                        vendor : Vendors \cup {NoVendor}]]
    BY <1>2, RecordedForOrder
  <2>2. QED
    BY <1>1, <2>1, Types
<1>4. TypeOK'
  <2>1. <<v>> \in Seq(Vendors)
    OBVIOUS
  <2>2. PICK category \in Categories \cup {NoCategory} :
            category = IF SendsCategory THEN c ELSE NoCategory
    OBVIOUS
  <2>3. QED
    BY <2>1, <2>2 DEF CallVendor, LocalInv, TypeOK
<1>5. CallsInv'
  BY <1>1, <1>3 DEF LocalInv, CallsInv
<1>6. ThreadsInv'
  <2>1. order_chains'[o].attempt > 0 /\ \A p \in Orders : p # o =>
            order_chains'[p] = order_chains[p]
    BY Types DEF CallVendor
  <2>2. ASSUME NEW t \in Sids, NEW l \in Reports, jobs[<<t, l>>].at \in Working
        PROVE  HasChain(call_metadata_store[t].order)'
    <3>1. t # n
      BY <1>2, <2>2 DEF Working, Holding, Entering
    <3>2. HasChain(call_metadata_store[t].order)
      BY <2>2 DEF LocalInv, ThreadsInv
    <3>3. QED
      BY <1>3, <2>1, <3>1, <3>2 DEF HasChain
  <2>3. QED
    BY <1>1, <2>2 DEF LocalInv, ThreadsInv
<1>7. HeldInv'
  <2>1. ASSUME NEW j \in Sids \X Reports, jobs[j].at \in Holding
        PROVE  Held(j)'
    <3>1. Held(j) /\ jobs[j].sid # n
      BY <1>1, <2>1 DEF LocalInv, HeldInv, Held
    <3>2. QED
      BY <1>1, <1>3, <3>1 DEF Held
  <2>2. QED
    BY <1>1, <2>1 DEF HeldInv
<1>8. CountInv'
  BY CallVendorCounted
<1>9. NotificationIsEarned'
  BY <1>1 DEF LocalInv, NotificationIsEarned
<1>10. QED
  BY <1>4, <1>5, <1>6, <1>7, <1>8, <1>9 DEF LocalInv

\* Steps that leave metadata and chains alone, and the jobs in the update.
LEMMA AllCountsKept ==
    ASSUME LocalInv, UNCHANGED <<call_metadata_store, order_chains>>,
           \A j \in Sids \X Reports :
               \/ jobs'[j] = jobs[j]
               \/ jobs[j].at \notin Entering /\ jobs'[j].at \notin Entering
    PROVE  CountInv'
<1>1. ASSUME NEW o \in Orders
      PROVE  CountFor(o)'
  <2>1. CallsOf(o)' = CallsOf(o)
    BY DEF CallsOf
  <2>2. QED
    BY <2>1, CountKept
<1>2. QED
  BY <1>1 DEF CountInv

\* The end of a call comes before anything is filed of it.
LEMMA EndsStep ==
    ASSUME LocalInv, NEW s \in Sids, Ends(s)
    PROVE  LocalInv'
<1>1. /\ line[s] = "ringing"
      /\ \/ line' = [line EXCEPT ![s] = "missed"] /\ UNCHANGED answer
         \/ /\ call_metadata_store[s] # NoMeta
            /\ \E a \in Transcripts : /\ line' = [line EXCEPT ![s] = "over"]
                                      /\ answer' = [answer EXCEPT ![s] = a]
      /\ UNCHANGED <<call_metadata_store, call_transcripts_store,
                     notifications_store, order_chains, jobs, clients>>
  BY DEF Ends, NoAnswer, CallEnds
<1>2. /\ \A t \in Sids : t # s => line'[t] = line[t] /\ answer'[t] = answer[t]
      /\ line'[s] \in {"missed", "over"}
      /\ line'[s] = "missed" => answer'[s] = answer[s]
      /\ line'[s] = "over" => call_metadata_store[s] # NoMeta
      /\ line' \in [Sids -> {"unused", "ringing", "over", "missed"}]
      /\ answer' \in [Sids -> Transcripts \cup {NoTranscript}]
  BY <1>1, Types
<1>3. TypeOK'
  BY <1>1, <1>2 DEF LocalInv, TypeOK
<1>4. CallsInv'
  BY <1>1, <1>2 DEF LocalInv, CallsInv
<1>5. ThreadsInv' /\ CountInv'
  BY <1>1, AllCountsKept DEF LocalInv, ThreadsInv, HasChain
<1>6. HeldInv'
  BY <1>1, <1>2 DEF LocalInv, HeldInv, Held
<1>7. NotificationIsEarned'
  BY <1>1, <1>2 DEF LocalInv, CallsInv, NotificationIsEarned
<1>8. QED
  BY <1>3, <1>4, <1>5, <1>6, <1>7 DEF LocalInv

\* A report of a call that is over files what was said and moves its job.
LEMMA ReportStep ==
    ASSUME LocalInv, NEW s \in Sids, NEW k \in Reports,
           StoreTranscript(s, k) \/ HandleDecision(s, k)
    PROVE  LocalInv'
<1>1. line[s] = "over"
  BY DEF StoreTranscript, HandleDecision, LocalInv, CallsInv
<1>2. PICK job \in Job :
          /\ jobs' = [jobs EXCEPT ![<<s, k>>] = job]
          /\ job.at = "pausing" => HasChain(call_metadata_store[s].order)
          /\ job.at \in {"filed", "pausing", "done"}
  <2>1. jobs[<<s, k>>] \in Job
    BY Types
  <2>2. ASSUME NEW at \in {"filed", "pausing", "done"},
               jobs' = [jobs EXCEPT ![<<s, k>>].at = at],
               at = "pausing" => HasChain(call_metadata_store[s].order)
        PROVE  \E job \in Job :
                  /\ jobs' = [jobs EXCEPT ![<<s, k>>] = job]
                  /\ job.at = "pausing" => HasChain(call_metadata_store[s].order)
                  /\ job.at \in {"filed", "pausing", "done"}
    <3>1. PICK job \in Job : job = [jobs[<<s, k>>] EXCEPT !.at = at]
      BY <2>1, <2>2 DEF Job
    <3>2. job.at = at
      BY <2>1, <3>1 DEF Job
    <3>3. QED
      BY <2>2, <3>1, <3>2
  <2>3. CASE StoreTranscript(s, k)
    BY <2>2, <2>3 DEF StoreTranscript
  <2>4. CASE HandleDecision(s, k)
    BY <2>2, <2>4 DEF HandleDecision
  <2>5. QED
    BY <2>3, <2>4
<1>3. /\ jobs' \in [Sids \X Reports -> Job]
      /\ jobs'[<<s, k>>] = job
      /\ \A t \in Sids, l \in Reports :
            <<t, l>> # <<s, k>> => jobs'[<<t, l>>] = jobs[<<t, l>>]
      /\ \A j \in Sids \X Reports : j # <<s, k>> => jobs'[j] = jobs[j]
  BY <1>2, JobMoves
<1>4. UNCHANGED <<call_metadata_store, order_chains, line, answer, clients>>
  BY DEF StoreTranscript, HandleDecision
<1>5. \/ /\ call_transcripts_store' =
                [call_transcripts_store EXCEPT ![s] = answer[s]]
         /\ UNCHANGED notifications_store
      \/ /\ UNCHANGED call_transcripts_store
         /\ \/ UNCHANGED notifications_store
            \/ /\ answer[s].decision = "NO"
               /\ notifications_store' =
                      [notifications_store EXCEPT ![s] = "rejection"]
  BY DEF StoreTranscript, HandleDecision
<1>6. /\ call_transcripts_store' \in [Sids -> Transcripts \cup {NoTranscript}]
      /\ notifications_store' \in [Sids -> {"none", "success", "rejection"}]
      /\ \A t \in Sids : t # s =>
            /\ call_transcripts_store'[t] = call_transcripts_store[t]
            /\ notifications_store'[t] = notifications_store[t]
      /\ call_transcripts_store'[s] \in {call_transcripts_store[s], answer[s]}
      /\ \/ notifications_store'[s] = notifications_store[s]
         \/ answer[s].decision = "NO" /\ notifications_store'[s] = "rejection"
  BY <1>5, Types
<1>7. TypeOK'
  BY <1>3, <1>4, <1>6 DEF LocalInv, TypeOK, Job
<1>8. CallsInv'
  <2>1. \A t \in Sids, l \in Reports : t # s => jobs'[<<t, l>>] = jobs[<<t, l>>]
    BY <1>3
  <2>2. QED
    BY <1>1, <1>4, <1>6, <2>1 DEF LocalInv, CallsInv
<1>9. ThreadsInv'
  <2> SUFFICES ASSUME NEW t \in Sids, NEW l \in Reports
               PROVE  /\ jobs'[<<t, l>>].at \in Working =>
                             HasChain(call_metadata_store[t].order)
                      /\ jobs'[<<t, l>>].at \in {"calling"} \cup Holding =>
                             jobs'[<<t, l>>].alt \in Vendors
    BY <1>4 DEF ThreadsInv, HasChain
  <2>1. CASE <<t, l>> = <<s, k>>
    BY <1>2, <1>3, <2>1 DEF Working, Holding, Entering
  <2>2. CASE <<t, l>> # <<s, k>>
    BY <1>3, <2>2 DEF LocalInv, ThreadsInv
  <2>3. QED
    BY <2>1, <2>2
<1>10. CountInv' /\ HeldInv'
  <2>1. jobs[<<s, k>>].at \notin Holding /\ jobs'[<<s, k>>].at \notin Holding
    BY <1>2, <1>3 DEF StoreTranscript, HandleDecision, Holding, Entering
  <2>2. \A j \in Sids \X Reports :
            \/ jobs'[j] = jobs[j]
            \/ jobs[j].at \notin Holding /\ jobs'[j].at \notin Holding
    BY <1>3, <2>1
  <2>3. CountInv'
    BY <1>4, <2>2, AllCountsKept DEF Holding
  <2>4. HeldInv'
    BY <1>4, <2>2 DEF LocalInv, HeldInv, Held
  <2>5. QED
    BY <2>3, <2>4
<1>11. NotificationIsEarned'
  BY <1>4, <1>6 DEF LocalInv, NotificationIsEarned
<1>12. QED
  BY <1>7, <1>8, <1>9, <1>10, <1>11 DEF LocalInv

\* A poll caches the notification that the filed decision stands for.
LEMMA PollStep ==
    ASSUME LocalInv, NEW s \in Sids, GetTranscript(s)
    PROVE  LocalInv'
<1>1. /\ call_transcripts_store[s].text
      /\ UNCHANGED <<call_metadata_store, call_transcripts_store, order_chains,
                     jobs, line, answer, clients>>
      /\ notifications_store' = [notifications_store EXCEPT ![s] =
             IF call_transcripts_store[s].decision = "YES"
             THEN "success" ELSE "rejection"]
  BY DEF GetTranscript
<1>2. call_transcripts_store[s] # NoTranscript
  BY <1>1 DEF NoTranscript
<1>3. call_transcripts_store[s] = answer[s] /\ line[s] = "over"
  BY <1>2 DEF LocalInv, CallsInv
<1>4. answer[s].decision \in Decisions
  BY <1>2, <1>3, Types DEF Transcripts
<1>5. /\ notifications_store' \in [Sids -> {"none", "success", "rejection"}]
      /\ \A t \in Sids : t # s => notifications_store'[t] = notifications_store[t]
      /\ notifications_store'[s] =
             IF answer[s].decision = "YES" THEN "success" ELSE "rejection"
  BY <1>1, <1>3, Types
<1>6. TypeOK'
  BY <1>1, <1>5 DEF LocalInv, TypeOK
<1>7. CallsInv'
  BY <1>1, <1>3, <1>5 DEF LocalInv, CallsInv
<1>8. ThreadsInv' /\ CountInv' /\ HeldInv'
  BY <1>1, AllCountsKept DEF LocalInv, ThreadsInv, HasChain, HeldInv, Held
<1>9. NotificationIsEarned'
  BY <1>1, <1>4, <1>5 DEF LocalInv, NotificationIsEarned, Decisions
<1>10. QED
  BY <1>6, <1>7, <1>8, <1>9 DEF LocalInv

\* A fallback thread moves on, or ends, before it has placed a call.
MovesOn(s, k, job) ==
    /\ jobs[<<s, k>>].at \in Working \ Holding
    /\ \/ job = Finished
       \/ job.at = "looking"
       \/ job.at = "calling" /\ job.alt \in Vendors
    /\ Moves(s, k, job)
    /\ UNCHANGED <<call_metadata_store, order_chains, line>>

LEMMA ThreadStep ==
    ASSUME LocalInv, NEW s \in Sids, NEW k \in Reports, NEW job \in Job,
           MovesOn(s, k, job)
    PROVE  LocalInv'
<1>1. /\ jobs[<<s, k>>].at \in Working \ Holding
      /\ job.at \in Working \cup {"done"} /\ job.at \notin Holding
      /\ job.at = "calling" => job.alt \in Vendors
      /\ jobs' = [jobs EXCEPT ![<<s, k>>] = job]
      /\ UNCHANGED <<call_metadata_store, order_chains, line,
                     call_transcripts_store, notifications_store, answer, clients>>
  BY DEF MovesOn, Moves, Finished, NoJob, Working, Holding, Entering
<1>2. /\ jobs' \in [Sids \X Reports -> Job]
      /\ jobs'[<<s, k>>] = job
      /\ \A t \in Sids, l \in Reports :
            <<t, l>> # <<s, k>> => jobs'[<<t, l>>] = jobs[<<t, l>>]
      /\ \A j \in Sids \X Reports : j # <<s, k>> => jobs'[j] = jobs[j]
  BY <1>1, JobMoves
<1>3. TypeOK'
  BY <1>1, <1>2, Types, TypesKept
<1>4. \A p \in Orders : HasChain(p) => HasChain(p)'
  BY <1>1 DEF HasChain
<1>5. CallsInv' /\ ThreadsInv' /\ HeldInv' /\ NotificationIsEarned'
  <2>1. ThreadMoves(s, k, job)
    BY <1>1, <1>4, Types DEF ThreadMoves, Holding
  <2>2. QED
    BY <2>1, ThreadKeeps
<1>6. CountInv'
  <2>1. \A j \in Sids \X Reports :
            \/ jobs'[j] = jobs[j]
            \/ jobs[j].at \notin Entering /\ jobs'[j].at \notin Entering
    BY <1>1, <1>2 DEF Holding
  <2>2. QED
    BY <1>1, <2>1, AllCountsKept
<1>7. QED
  BY <1>3, <1>5, <1>6 DEF LocalInv

\* A fallback thread that holds a call, or is about to place one, works for an
\* order that has a chain.
LEMMA WorksFor ==
    ASSUME LocalInv, NEW s \in Sids, NEW k \in Reports,
           jobs[<<s, k>>].at \in {"calling"} \cup Holding
    PROVE  \E o \in Orders, v \in Vendors :
              /\ o = call_metadata_store[s].order /\ v = jobs[<<s, k>>].alt
              /\ HasChain(o) /\ CountsCalls(o)
<1>1. HasChain(call_metadata_store[s].order) /\ jobs[<<s, k>>].alt \in Vendors
  BY DEF LocalInv, ThreadsInv, Working
<1>2. PICK o \in Orders : o = call_metadata_store[s].order /\ HasChain(o)
  BY <1>1 DEF HasChain
<1>3. CountsCalls(o)
  BY <1>2 DEF LocalInv, CountInv, CountFor
<1>4. QED
  BY <1>1, <1>2, <1>3

\* The call is placed, before anything counts it.
LEMMA CallNextStep ==
    ASSUME LocalInv, NEW s \in Sids, NEW k \in Reports, NEW n \in Sids,
           CallNext(s, k, n)
    PROVE  LocalInv'
<1>1. /\ jobs[<<s, k>>].at = "calling"
      /\ UNCHANGED <<call_metadata_store, order_chains, call_transcripts_store,
                     notifications_store, answer, clients>>
  BY DEF CallNext, Moves
<1>2. jobs[<<s, k>>] \in Job /\ jobs[<<s, k>>].alt \in Vendors
  BY <1>1, Types DEF LocalInv, ThreadsInv
<1>3. CASE Moves(s, k, Finished) /\ UNCHANGED line
  <2>1. Finished \in Job
    BY DEF Finished, NoJob, Job
  <2>2. MovesOn(s, k, Finished)
    BY <1>1, <1>3 DEF MovesOn, Working, Holding, Entering
  <2>3. QED
    BY <2>1, <2>2, ThreadStep
<1>4. CASE /\ line[n] = "unused"
           /\ line' = [line EXCEPT ![n] = "ringing"]
           /\ Moves(s, k, [jobs[<<s, k>>] EXCEPT !.at = "counting", !.sid = n])
  <2>1. PICK job \in Job :
            /\ job = [jobs[<<s, k>>] EXCEPT !.at = "counting", !.sid = n]
            /\ job.at = "counting" /\ job.sid = n /\ job.alt = jobs[<<s, k>>].alt
    <3>1. PICK old \in Job : old = jobs[<<s, k>>]
      BY <1>2
    <3>2. PICK new : new = [old EXCEPT !.at = "counting", !.sid = n]
      OBVIOUS
    <3>3. new \in Job
      BY <3>2 DEF Job
    <3>4. new.at = "counting" /\ new.sid = n /\ new.alt = old.alt
      BY <3>2 DEF Job
    <3>5. QED
      BY <3>1, <3>2, <3>3, <3>4
  <2>2. jobs' = [jobs EXCEPT ![<<s, k>>] = job]
    BY <1>4, <2>1 DEF Moves
  <2>3. /\ jobs' \in [Sids \X Reports -> Job]
        /\ jobs'[<<s, k>>] = job
        /\ \A t \in Sids, l \in Reports :
              <<t, l>> # <<s, k>> => jobs'[<<t, l>>] = jobs[<<t, l>>]
        /\ \A j \in Sids \X Reports : j # <<s, k>> => jobs'[j] = jobs[j]
    BY <2>2, JobMoves
  <2>4. /\ line' \in [Sids -> {"unused", "ringing", "over", "missed"}]
        /\ line'[n] = "ringing"
        /\ \A t \in Sids : t # n => line'[t] = line[t]
    BY <1>4, Types
  <2>5. TypeOK'
    BY <1>1, <2>3, <2>4, Types, TypesKept
  <2>6. \A p \in Orders : HasChain(p) => HasChain(p)'
    BY <1>1 DEF HasChain
  <2>7. /\ jobs[<<s, k>>].at \in Working /\ job.at \in Working \cup {"done"}
        /\ job.alt \in Vendors
    BY <1>1, <1>2, <2>1 DEF Working, Holding, Entering
  <2>8. CallsInv' /\ ThreadsInv' /\ HeldInv' /\ NotificationIsEarned'
    <3>1. ThreadMoves(s, k, job)
      BY <1>1, <1>4, <2>1, <2>2, <2>4, <2>6, <2>7 DEF ThreadMoves
    <3>2. QED
      BY <3>1, ThreadKeeps
  <2>9. CountInv'
    <3>1. jobs[<<s, k>>].at \notin Entering /\ job.at \notin Entering
      BY <1>1, <2>1 DEF Entering
    <3>2. \A j \in Sids \X Reports :
              \/ jobs'[j] = jobs[j]
              \/ jobs[j].at \notin Entering /\ jobs'[j].at \notin Entering
      BY <2>3, <3>1
    <3>3. QED
      BY <1>1, <3>2, AllCountsKept
  <2>10. QED
    BY <2>5, <2>8, <2>9 DEF LocalInv
<1>5. QED
  BY <1>3, <1>4 DEF CallNext

\* A thread that updates the chain of its order leaves every other count alone.
LEMMA OthersCounted ==
    ASSUME LocalInv, NEW s \in Sids, NEW k \in Reports, NEW job \in Job,
           jobs' = [jobs EXCEPT ![<<s, k>>] = job],
           NEW p \in Orders, call_metadata_store[s].order # p,
           order_chains'[p] = order_chains[p], CallsOf(p)' = CallsOf(p),
           \A t \in Sids :
               \/ call_metadata_store'[t] = call_metadata_store[t]
               \/ t # s /\ \A l \in Reports : jobs[<<t, l>>].at = "none"
    PROVE  CountFor(p)'
<1>1. /\ jobs' \in [Sids \X Reports -> Job]
      /\ jobs'[<<s, k>>] = job
      /\ \A t \in Sids, l \in Reports :
            <<t, l>> # <<s, k>> => jobs'[<<t, l>>] = jobs[<<t, l>>]
      /\ \A j \in Sids \X Reports : j # <<s, k>> => jobs'[j] = jobs[j]
  BY JobMoves
<1>2. ASSUME NEW j \in Sids \X Reports
      PROVE  \/ /\ jobs'[j] = jobs[j]
                /\ call_metadata_store'[j[1]] = call_metadata_store[j[1]]
             \/ /\ jobs[j].at \notin Entering
                /\ jobs'[j].at \notin Entering
             \/ /\ call_metadata_store[j[1]].order # p
                /\ call_metadata_store'[j[1]].order # p
  <2>1. PICK t \in Sids, l \in Reports : j = <<t, l>> /\ j[1] = t
    OBVIOUS
  <2>2. CASE j = <<s, k>>
    <3>1. t = s
      BY <2>1, <2>2
    <3>2. call_metadata_store'[t] = call_metadata_store[t]
      BY <3>1
    <3>3. QED
      BY <2>1, <3>1, <3>2
  <2>3. CASE j # <<s, k>>
    BY <1>1, <2>1, <2>3 DEF Entering
  <2>4. QED
    BY <2>2, <2>3
<1>3. QED
  BY <1>2, CountKept

\* The thread of an order's job moves within the update of the chain, from one
\* place to the next, and takes its call and its vendor along.
Updates(o, s, k, from, job) ==
    /\ o = call_metadata_store[s].order
    /\ jobs[<<s, k>>].at = from /\ from \in Holding
    /\ jobs' = [jobs EXCEPT ![<<s, k>>] = job]
    /\ job.at \in Entering
    /\ job.alt = jobs[<<s, k>>].alt /\ job.sid = jobs[<<s, k>>].sid
    /\ \A p \in Orders \ {o} : order_chains'[p] = order_chains[p]
    /\ UNCHANGED <<call_metadata_store, line, call_transcripts_store,
                   notifications_store, answer, clients>>

\* That is what a step of the thread to such a place does.
LEMMA MoveUpdates ==
    ASSUME LocalInv, NEW s \in Sids, NEW k \in Reports, NEW from \in Holding,
           NEW at \in Entering, jobs[<<s, k>>].at = from,
           Moves(s, k, [jobs[<<s, k>>] EXCEPT !.at = at]),
           UNCHANGED <<call_metadata_store, line>>, NEW o \in Orders,
           o = call_metadata_store[s].order,
           \A p \in Orders \ {o} : order_chains'[p] = order_chains[p]
    PROVE  \E job \in Job : job.at = at /\ Updates(o, s, k, from, job)
<1>1. PICK old \in Job : old = jobs[<<s, k>>]
  BY Types
<1>2. PICK job : job = [old EXCEPT !.at = at]
  OBVIOUS
<1>3. job \in Job
  BY <1>2 DEF Job, Entering
<1>4. job.at = at /\ job.sid = old.sid /\ job.alt = old.alt
  BY <1>2 DEF Job
<1>5. Updates(o, s, k, from, job)
  BY <1>1, <1>2, <1>4 DEF Updates, Moves
<1>6. QED
  BY <1>3, <1>4, <1>5

\* If the chain keeps its type and its count, everything else is kept.
LEMMA UpdateStep ==
    ASSUME LocalInv, NEW o \in Orders, NEW s \in Sids, NEW k \in Reports,
           NEW from \in Holding, NEW job \in Job, Updates(o, s, k, from, job),
           order_chains' \in [Orders -> Chain],
           order_chains'[o].attempt > 0, CountsCalls(o)'
    PROVE  LocalInv'
<1>1. /\ o = call_metadata_store[s].order
      /\ jobs[<<s, k>>].at = from /\ from \in Holding
      /\ jobs' = [jobs EXCEPT ![<<s, k>>] = job]
      /\ job.at \in Entering
      /\ job.alt = jobs[<<s, k>>].alt /\ job.sid = jobs[<<s, k>>].sid
      /\ \A p \in Orders \ {o} : order_chains'[p] = order_chains[p]
      /\ UNCHANGED <<call_metadata_store, line, call_transcripts_store,
                     notifications_store, answer, clients>>
  BY DEF Updates
<1>2. /\ jobs' \in [Sids \X Reports -> Job]
      /\ jobs'[<<s, k>>] = job
      /\ \A t \in Sids, l \in Reports :
            <<t, l>> # <<s, k>> => jobs'[<<t, l>>] = jobs[<<t, l>>]
      /\ \A j \in Sids \X Reports : j # <<s, k>> => jobs'[j] = jobs[j]
  BY <1>1, JobMoves
<1>3. TypeOK'
  BY <1>1, <1>2, Types, TypesKept
<1>4. \A p \in Orders : HasChain(p) => HasChain(p)'
  BY <1>1 DEF HasChain
<1>5. jobs[<<s, k>>].alt \in Vendors
  BY <1>1 DEF LocalInv, ThreadsInv
<1>6. /\ jobs[<<s, k>>].at \in Working /\ job.at \in Working \cup {"done"}
      /\ job.alt \in Vendors /\ job.at \in Holding /\ jobs[<<s, k>>].at \in Holding
  BY <1>1, <1>5 DEF Working, Holding
<1>7. CallsInv' /\ ThreadsInv' /\ HeldInv' /\ NotificationIsEarned'
  <2>1. ThreadMoves(s, k, job)
    BY <1>1, <1>4, <1>6, Types DEF ThreadMoves
  <2>2. QED
    BY <2>1, ThreadKeeps
<1>8. CountInv'
  <2>1. CountFor(o)'
    BY DEF CountFor, HasChain
  <2>2. ASSUME NEW p \in Orders, p # o
        PROVE  CountFor(p)'
    <3>1. CallsOf(p)' = CallsOf(p) /\ order_chains'[p] = order_chains[p]
      BY <1>1, <2>2 DEF CallsOf
    <3>2. \A t \in Sids : call_metadata_store'[t] = call_metadata_store[t]
      BY <1>1
    <3>3. call_metadata_store[s].order # p
      BY <1>1, <2>2
    <3>4. QED
      BY <1>1, <3>1, <3>2, <3>3, OthersCounted
  <2>3. QED
    BY <2>1, <2>2 DEF CountInv
<1>9. QED
  BY <1>3, <1>7, <1>8 DEF LocalInv

\* Where the threads of the order stand after such a move.
LEMMA UpdateMoves ==
    ASSUME LocalInv, NEW o \in Orders, NEW s \in Sids, NEW k \in Reports,
           NEW from \in Holding, NEW job \in Job, Updates(o, s, k, from, job)
    PROVE  /\ CallsOf(o)' = CallsOf(o)
           /\ \A j \in Sids \X Reports : j # <<s, k>> => jobs'[j] = jobs[j]
           /\ jobs'[<<s, k>>] = job
           /\ Unlisted(o)' = IF job.at = "listing"
                             THEN Unlisted(o) \cup {<<s, k>>}
                             ELSE Unlisted(o) \ {<<s, k>>}
           /\ Unrecorded(o)' = IF job.at \in {"pointing", "recording"}
                               THEN Unrecorded(o) \cup {<<s, k>>}
                               ELSE Unrecorded(o) \ {<<s, k>>}
           /\ Between(o, {"recording"})' =
                  IF job.at = "recording"
                  THEN Between(o, {"recording"}) \cup {<<s, k>>}
                  ELSE Between(o, {"recording"}) \ {<<s, k>>}
           /\ <<s, k>> \in Unlisted(o) <=> from = "listing"
           /\ <<s, k>> \in Unrecorded(o) <=> from \in {"pointing", "recording"}
           /\ <<s, k>> \in Between(o, {"recording"}) <=> from = "recording"
<1>1. /\ o = call_metadata_store[s].order
      /\ jobs[<<s, k>>].at = from
      /\ jobs' = [jobs EXCEPT ![<<s, k>>] = job]
      /\ UNCHANGED call_metadata_store
  BY DEF Updates
<1>2. /\ jobs' \in [Sids \X Reports -> Job]
      /\ jobs'[<<s, k>>] = job
      /\ \A t \in Sids, l \in Reports :
            <<t, l>> # <<s, k>> => jobs'[<<t, l>>] = jobs[<<t, l>>]
      /\ \A j \in Sids \X Reports : j # <<s, k>> => jobs'[j] = jobs[j]
  BY <1>1, JobMoves
<1>3. \A X : "none" \notin X =>
          /\ Between(o, X)' = IF job.at \in X THEN Between(o, X) \cup {<<s, k>>}
                                              ELSE Between(o, X) \ {<<s, k>>}
          /\ <<s, k>> \in Between(o, X) <=> from \in X
  <2>1. JobShifts(o, s, k, job)
    BY <1>1 DEF JobShifts
  <2>2. \A X : "none" \notin X =>
            Between(o, X)' = IF job.at \in X THEN Between(o, X) \cup {<<s, k>>}
                                            ELSE Between(o, X) \ {<<s, k>>}
    BY <2>1, BetweenMoves
  <2>3. <<s, k>> \in Sids \X Reports /\ <<s, k>>[1] = s
    OBVIOUS
  <2>4. \A X : <<s, k>> \in Between(o, X) <=> from \in X
    BY <1>1, <2>3 DEF Between
  <2>5. QED
    BY <2>2, <2>4
<1>4. CallsOf(o)' = CallsOf(o)
  BY <1>1 DEF CallsOf
<1>5. /\ Unlisted(o)' = IF job.at = "listing"
                        THEN Unlisted(o) \cup {<<s, k>>}
                        ELSE Unlisted(o) \ {<<s, k>>}
      /\ <<s, k>> \in Unlisted(o) <=> from = "listing"
  <2>1. "none" \notin {"listing"}
    OBVIOUS
  <2>2. QED
    BY <1>3, <2>1 DEF Unlisted
<1>6. /\ Unrecorded(o)' = IF job.at \in {"pointing", "recording"}
                          THEN Unrecorded(o) \cup {<<s, k>>}
                          ELSE Unrecorded(o) \ {<<s, k>>}
      /\ <<s, k>> \in Unrecorded(o) <=> from \in {"pointing", "recording"}
  BY <1>3 DEF Unrecorded
<1>7. /\ Between(o, {"recording"})' =
             IF job.at = "recording"
             THEN Between(o, {"recording"}) \cup {<<s, k>>}
             ELSE Between(o, {"recording"}) \ {<<s, k>>}
      /\ <<s, k>> \in Between(o, {"recording"}) <=> from = "recording"
  <2>1. "none" \notin {"recording"}
    OBVIOUS
  <2>2. QED
    BY <1>3, <2>1
<1>8. QED
  BY <1>2, <1>4, <1>5, <1>6, <1>7

\* The attempt is counted: one more thread has yet to list its vendor.
LEMMA CountAttemptStep ==
    ASSUME LocalInv, NEW s \in Sids, NEW k \in Reports, CountAttempt(s, k)
    PROVE  LocalInv'
<1>1. jobs[<<s, k>>].at = "counting"
  BY DEF CountAttempt
<1>2. PICK o \in Orders, v \in Vendors :
          /\ o = call_metadata_store[s].order /\ v = jobs[<<s, k>>].alt
          /\ HasChain(o) /\ CountsCalls(o)
  BY <1>1, WorksFor DEF Holding
<1>3. /\ order_chains' = [order_chains EXCEPT ![o].attempt = @ + 1]
      /\ Moves(s, k, [jobs[<<s, k>>] EXCEPT !.at = "listing"])
      /\ UNCHANGED <<call_metadata_store, line>>
  BY <1>2 DEF CountAttempt
<1>4. PICK c \in Chain, d \in Chain :
          /\ c = order_chains[o] /\ d = order_chains'[o]
          /\ d.attempt = c.attempt + 1 /\ d.tried = c.tried
          /\ d.current = c.current
          /\ c.attempt \in Nat /\ Len(c.tried) \in Nat
  <2>1. PICK c \in Chain : c = order_chains[o]
    BY Types
  <2>2. order_chains'[o] = [c EXCEPT !.attempt = @ + 1]
    BY <1>3, <2>1, Types
  <2>3. PICK d : d = [c EXCEPT !.attempt = @ + 1]
    OBVIOUS
  <2>4. c.attempt \in Nat /\ Len(c.tried) \in Nat
    BY DEF Chain
  <2>5. /\ d \in Chain /\ d.attempt = c.attempt + 1 /\ d.tried = c.tried
        /\ d.current = c.current
    BY <2>3, <2>4 DEF Chain
  <2>6. QED
    BY <2>1, <2>2, <2>3, <2>4, <2>5
<1>5. order_chains' \in [Orders -> Chain]
      /\ \A p \in Orders \ {o} : order_chains'[p] = order_chains[p]
  BY <1>3, <1>4, Types
<1>6. PICK job \in Job : job.at = "listing" /\ Updates(o, s, k, "counting", job)
  BY <1>1, <1>2, <1>3, <1>5, MoveUpdates DEF Holding, Entering
<1>7. /\ CallsOf(o)' = CallsOf(o)
      /\ \A j \in Sids \X Reports : j # <<s, k>> => jobs'[j] = jobs[j]
      /\ jobs'[<<s, k>>] = job
      /\ Unlisted(o)' = IF job.at = "listing"
                        THEN Unlisted(o) \cup {<<s, k>>}
                        ELSE Unlisted(o) \ {<<s, k>>}
      /\ Unrecorded(o)' = IF job.at \in {"pointing", "recording"}
                          THEN Unrecorded(o) \cup {<<s, k>>}
                          ELSE Unrecorded(o) \ {<<s, k>>}
      /\ Between(o, {"recording"})' =
             IF job.at = "recording"
             THEN Between(o, {"recording"}) \cup {<<s, k>>}
             ELSE Between(o, {"recording"}) \ {<<s, k>>}
      /\ <<s, k>> \in Unlisted(o) <=> "counting" = "listing"
      /\ <<s, k>> \in Unrecorded(o) <=> "counting" \in {"pointing", "recording"}
      /\ <<s, k>> \in Between(o, {"recording"}) <=> "counting" = "recording"
  BY <1>6, UpdateMoves DEF Holding
<1>8. /\ Unlisted(o)' = Unlisted(o) \cup {<<s, k>>} /\ <<s, k>> \notin Unlisted(o)
      /\ Unrecorded(o)' = Unrecorded(o)
      /\ Between(o, {"recording"})' = Between(o, {"recording"})
  BY <1>6, <1>7
<1>9. /\ IsFiniteSet(CallsOf(o)) /\ IsFiniteSet(Unlisted(o))
      /\ IsFiniteSet(Unrecorded(o))
      /\ c.attempt = Len(c.tried) + Cardinality(Unlisted(o))
      /\ Len(c.tried) = Cardinality(CallsOf(o)) + Cardinality(Unrecorded(o))
      /\ CurrentKnown(o)
  BY <1>2, <1>4 DEF CountsCalls
<1>10. /\ IsFiniteSet(Unlisted(o)')
       /\ Cardinality(Unlisted(o)') = Cardinality(Unlisted(o)) + 1
       /\ Cardinality(Unlisted(o)) \in Nat
  BY <1>8, <1>9, FS_AddElement, FS_CardinalityType
<1>11. d.attempt = Len(d.tried) + Cardinality(Unlisted(o)') /\ d.attempt > 0
  BY <1>4, <1>9, <1>10
<1>12. CurrentKnown(o)'
  <2>1. \A j \in Between(o, {"recording"}) : jobs'[j] = jobs[j]
    BY <1>7 DEF Between
  <2>2. order_chains'[o].current = order_chains[o].current
    BY <1>4
  <2>3. QED
    BY <1>7, <1>8, <1>9, <2>1, <2>2 DEF CurrentKnown
<1>13. CountsCalls(o)'
  BY <1>4, <1>7, <1>8, <1>9, <1>10, <1>11, <1>12 DEF CountsCalls
<1>14. QED
  BY <1>4, <1>5, <1>6, <1>11, <1>13, UpdateStep DEF Holding

\* The vendor is listed: its thread has yet to record the call.
LEMMA ListVendorStep ==
    ASSUME LocalInv, NEW s \in Sids, NEW k \in Reports, ListVendor(s, k)
    PROVE  LocalInv'
<1>1. jobs[<<s, k>>].at = "listing"
  BY DEF ListVendor
<1>2. PICK o \in Orders, v \in Vendors :
          /\ o = call_metadata_store[s].order /\ v = jobs[<<s, k>>].alt
          /\ HasChain(o) /\ CountsCalls(o)
  BY <1>1, WorksFor DEF Holding, Entering
<1>3. /\ order_chains' = [order_chains EXCEPT ![o].tried = Append(@, v)]
      /\ Moves(s, k, [jobs[<<s, k>>] EXCEPT !.at = "pointing"])
      /\ UNCHANGED <<call_metadata_store, line>>
  BY <1>2 DEF ListVendor
<1>4. PICK c \in Chain, d \in Chain :
          /\ c = order_chains[o] /\ d = order_chains'[o]
          /\ d.attempt = c.attempt /\ Len(d.tried) = Len(c.tried) + 1
          /\ d.current = c.current
          /\ c.attempt \in Nat /\ Len(c.tried) \in Nat
  <2>1. PICK c \in Chain : c = order_chains[o]
    BY Types
  <2>2. order_chains'[o] = [c EXCEPT !.tried = Append(@, v)]
    BY <1>3, <2>1, Types
  <2>3. PICK d : d = [c EXCEPT !.tried = Append(@, v)]
    OBVIOUS
  <2>4. c.attempt \in Nat /\ c.tried \in Seq(Vendors)
    BY DEF Chain
  <2>5. /\ Append(c.tried, v) \in Seq(Vendors) /\ Len(c.tried) \in Nat
        /\ Len(Append(c.tried, v)) = Len(c.tried) + 1
    BY <2>4
  <2>6. /\ d \in Chain /\ d.attempt = c.attempt /\ d.tried = Append(c.tried, v)
        /\ d.current = c.current
    BY <2>3, <2>5 DEF Chain
  <2>7. QED
    BY <2>1, <2>2, <2>3, <2>4, <2>5, <2>6
<1>5. order_chains' \in [Orders -> Chain]
      /\ \A p \in Orders \ {o} : order_chains'[p] = order_chains[p]
  BY <1>3, <1>4, Types
<1>6. PICK job \in Job : job.at = "pointing" /\ Updates(o, s, k, "listing", job)
  BY <1>1, <1>2, <1>3, <1>5, MoveUpdates DEF Holding, Entering
<1>7. /\ CallsOf(o)' = CallsOf(o)
      /\ \A j \in Sids \X Reports : j # <<s, k>> => jobs'[j] = jobs[j]
      /\ jobs'[<<s, k>>] = job
      /\ Unlisted(o)' = IF job.at = "listing"
                        THEN Unlisted(o) \cup {<<s, k>>}
                        ELSE Unlisted(o) \ {<<s, k>>}
      /\ Unrecorded(o)' = IF job.at \in {"pointing", "recording"}
                          THEN Unrecorded(o) \cup {<<s, k>>}
                          ELSE Unrecorded(o) \ {<<s, k>>}
      /\ Between(o, {"recording"})' =
             IF job.at = "recording"
             THEN Between(o, {"recording"}) \cup {<<s, k>>}
             ELSE Between(o, {"recording"}) \ {<<s, k>>}
      /\ <<s, k>> \in Unlisted(o) <=> "listing" = "listing"
      /\ <<s, k>> \in Unrecorded(o) <=> "listing" \in {"pointing", "recording"}
      /\ <<s, k>> \in Between(o, {"recording"}) <=> "listing" = "recording"
  BY <1>6, UpdateMoves DEF Holding, Entering
<1>8. /\ Unlisted(o)' = Unlisted(o) \ {<<s, k>>} /\ <<s, k>> \in Unlisted(o)
      /\ Unrecorded(o)' = Unrecorded(o) \cup {<<s, k>>}
      /\ <<s, k>> \notin Unrecorded(o)
      /\ Between(o, {"recording"})' = Between(o, {"recording"})
  BY <1>6, <1>7
<1>9. /\ IsFiniteSet(CallsOf(o)) /\ IsFiniteSet(Unlisted(o))
      /\ IsFiniteSet(Unrecorded(o))
      /\ c.attempt = Len(c.tried) + Cardinality(Unlisted(o))
      /\ Len(c.tried) = Cardinality(CallsOf(o)) + Cardinality(Unrecorded(o))
      /\ CurrentKnown(o)
  BY <1>2, <1>4 DEF CountsCalls
<1>10. /\ IsFiniteSet(Unlisted(o)')
       /\ Cardinality(Unlisted(o)') = Cardinality(Unlisted(o)) - 1
       /\ IsFiniteSet(Unrecorded(o)')
       /\ Cardinality(Unrecorded(o)') = Cardinality(Unrecorded(o)) + 1
  <2>1. /\ IsFiniteSet(Unlisted(o) \ {<<s, k>>})
        /\ Cardinality(Unlisted(o) \ {<<s, k>>}) = Cardinality(Unlisted(o)) - 1
    BY <1>8, <1>9, FS_RemoveElement
  <2>2. /\ IsFiniteSet(Unrecorded(o) \cup {<<s, k>>})
        /\ Cardinality(Unrecorded(o) \cup {<<s, k>>}) =
               Cardinality(Unrecorded(o)) + 1
    BY <1>8, <1>9, FS_AddElement
  <2>3. QED
    BY <1>8, <2>1, <2>2
<1>11. /\ Cardinality(Unlisted(o)) \in Nat /\ Cardinality(Unrecorded(o)) \in Nat
       /\ Cardinality(CallsOf(o)) \in Nat
  BY <1>9, FS_CardinalityType
<1>12. /\ d.attempt = Len(d.tried) + Cardinality(Unlisted(o)')
       /\ Len(d.tried) = Cardinality(CallsOf(o)) + Cardinality(Unrecorded(o)')
       /\ d.attempt > 0
  <2>1. c.attempt > 0
    BY <1>2, <1>4 DEF HasChain
  <2>2. QED
    BY <1>4, <1>9, <1>10, <1>11, <2>1
<1>13. CurrentKnown(o)'
  <2>1. \A j \in Between(o, {"recording"}) : jobs'[j] = jobs[j]
    BY <1>7 DEF Between
  <2>2. order_chains'[o].current = order_chains[o].current
    BY <1>4
  <2>3. QED
    BY <1>7, <1>8, <1>9, <2>1, <2>2 DEF CurrentKnown
<1>14. CountsCalls(o)'
  BY <1>4, <1>7, <1>9, <1>10, <1>12, <1>13 DEF CountsCalls
<1>15. QED
  BY <1>4, <1>5, <1>6, <1>12, <1>14, UpdateStep DEF Holding, Entering

\* The chain points at the call that its thread is about to record.
LEMMA PointAtCallStep ==
    ASSUME LocalInv, NEW s \in Sids, NEW k \in Reports, PointAtCall(s, k)
    PROVE  LocalInv'
<1>1. jobs[<<s, k>>].at = "pointing"
  BY DEF PointAtCall
<1>2. PICK o \in Orders, v \in Vendors :
          /\ o = call_metadata_store[s].order /\ v = jobs[<<s, k>>].alt
          /\ HasChain(o) /\ CountsCalls(o)
  BY <1>1, WorksFor DEF Holding, Entering
<1>3. PICK n \in Sids : n = jobs[<<s, k>>].sid
  BY <1>1 DEF LocalInv, HeldInv, Held, Holding, Entering
<1>4. /\ order_chains' = [order_chains EXCEPT ![o].current = n]
      /\ Moves(s, k, [jobs[<<s, k>>] EXCEPT !.at = "recording"])
      /\ UNCHANGED <<call_metadata_store, line>>
  BY <1>2, <1>3 DEF PointAtCall
<1>5. PICK c \in Chain, d \in Chain :
          /\ c = order_chains[o] /\ d = order_chains'[o]
          /\ d.attempt = c.attempt /\ d.tried = c.tried /\ d.current = n
  <2>1. PICK c \in Chain : c = order_chains[o]
    BY Types
  <2>2. order_chains'[o] = [c EXCEPT !.current = n]
    BY <1>4, <2>1, Types
  <2>3. PICK d : d = [c EXCEPT !.current = n]
    OBVIOUS
  <2>4. /\ d \in Chain /\ d.attempt = c.attempt /\ d.tried = c.tried
        /\ d.current = n
    BY <2>3 DEF Chain
  <2>5. QED
    BY <2>1, <2>2, <2>3, <2>4
<1>6. order_chains' \in [Orders -> Chain]
      /\ \A p \in Orders \ {o} : order_chains'[p] = order_chains[p]
  BY <1>4, <1>5, Types
<1>7. PICK job \in Job : job.at = "recording" /\ Updates(o, s, k, "pointing", job)
  BY <1>1, <1>2, <1>4, <1>6, MoveUpdates DEF Holding, Entering
<1>8. /\ CallsOf(o)' = CallsOf(o)
      /\ \A j \in Sids \X Reports : j # <<s, k>> => jobs'[j] = jobs[j]
      /\ jobs'[<<s, k>>] = job
      /\ Unlisted(o)' = IF job.at = "listing"
                        THEN Unlisted(o) \cup {<<s, k>>}
                        ELSE Unlisted(o) \ {<<s, k>>}
      /\ Unrecorded(o)' = IF job.at \in {"pointing", "recording"}
                          THEN Unrecorded(o) \cup {<<s, k>>}
                          ELSE Unrecorded(o) \ {<<s, k>>}
      /\ Between(o, {"recording"})' =
             IF job.at = "recording"
             THEN Between(o, {"recording"}) \cup {<<s, k>>}
             ELSE Between(o, {"recording"}) \ {<<s, k>>}
      /\ <<s, k>> \in Unlisted(o) <=> "pointing" = "listing"
      /\ <<s, k>> \in Unrecorded(o) <=> "pointing" \in {"pointing", "recording"}
      /\ <<s, k>> \in Between(o, {"recording"}) <=> "pointing" = "recording"
  BY <1>7, UpdateMoves DEF Holding, Entering
<1>9. /\ Unlisted(o)' = Unlisted(o) /\ Unrecorded(o)' = Unrecorded(o)
      /\ <<s, k>> \in Between(o, {"recording"})'
  BY <1>7, <1>8
<1>10. CurrentKnown(o)'
  <2>1. jobs'[<<s, k>>].sid = n
    BY <1>3, <1>7, <1>8 DEF Updates
  <2>2. QED
    BY <1>5, <1>9, <2>1 DEF CurrentKnown
<1>11. CountsCalls(o)' /\ d.attempt > 0
  BY <1>2, <1>5, <1>8, <1>9, <1>10 DEF CountsCalls, HasChain
<1>12. QED
  BY <1>5, <1>6, <1>7, <1>11, UpdateStep DEF Holding, Entering

\* The call is recorded: the thread no longer holds it.
LEMMA RecordCallStep ==
    ASSUME LocalInv, NEW s \in Sids, NEW k \in Reports, RecordCall(s, k)
    PROVE  LocalInv'
<1>1. /\ jobs[<<s, k>>].at = "recording"
      /\ jobs' = [jobs EXCEPT ![<<s, k>>] = Finished]
      /\ UNCHANGED <<order_chains, line, call_transcripts_store,
                     notifications_store, answer, clients>>
  BY DEF RecordCall, Moves
<1>2. PICK o \in Orders, v \in Vendors :
          /\ o = call_metadata_store[s].order /\ v = jobs[<<s, k>>].alt
          /\ HasChain(o) /\ CountsCalls(o)
  BY <1>1, WorksFor DEF Holding, Entering
<1>3. PICK n \in Sids :
          /\ n = jobs[<<s, k>>].sid
          /\ line[n] \in {"ringing", "missed"} /\ call_metadata_store[n] = NoMeta
          /\ \A l \in Reports : jobs[<<n, l>>].at = "none"
          /\ n # s
  <2>1. PICK n \in Sids :
            /\ n = jobs[<<s, k>>].sid
            /\ line[n] \in {"ringing", "missed"} /\ call_metadata_store[n] = NoMeta
    BY <1>1 DEF LocalInv, HeldInv, Held, Holding, Entering
  <2>2. \A l \in Reports : jobs[<<n, l>>].at = "none"
    BY <2>1 DEF LocalInv, CallsInv
  <2>3. n # s
    BY <1>2, <2>1, LocalAssumption DEF NoMeta
  <2>4. QED
    BY <2>1, <2>2, <2>3
<1>4. Recorded(o, v, n)
  BY <1>2, <1>3 DEF RecordCall, Recorded
<1>5. /\ n \notin CallsOf(o)
      /\ CallsOf(o)' = CallsOf(o) \cup {n}
      /\ \A p \in Orders \ {o} : CallsOf(p)' = CallsOf(p)
      /\ call_metadata_store'[n] = [order |-> o, vendor |-> v]
      /\ \A t \in Sids : t # n =>
            call_metadata_store'[t] = call_metadata_store[t]
      /\ call_metadata_store' \in
            [Sids -> [order : Orders \cup {NoOrder},
                      vendor : Vendors \cup {NoVendor}]]
  BY <1>4, RecordedForOrder
<1>6. Finished \in Job /\ Finished.at = "done"
  BY DEF Finished, NoJob, Job
<1>7. /\ jobs' \in [Sids \X Reports -> Job]
      /\ jobs'[<<s, k>>] = Finished
      /\ \A t \in Sids, l \in Reports :
            <<t, l>> # <<s, k>> => jobs'[<<t, l>>] = jobs[<<t, l>>]
      /\ \A j \in Sids \X Reports : j # <<s, k>> => jobs'[j] = jobs[j]
  BY <1>1, <1>6, JobMoves
<1>8. TypeOK'
  BY <1>1, <1>5, <1>7, Types, TypesKept
<1>9. CallsInv' /\ ThreadsInv' /\ HeldInv' /\ NotificationIsEarned'
  <2>1. \A p \in Orders : HasChain(p) => HasChain(p)'
    BY <1>1 DEF HasChain
  <2>2. /\ jobs[<<s, k>>].at \in Working /\ jobs[<<s, k>>].at \in Holding
        /\ Finished.at \in Working \cup {"done"}
        /\ Finished.at \notin {"calling"} \cup Holding
    BY <1>1, <1>6 DEF Working, Holding, Entering
  <2>3. \A t \in Sids :
            \/ call_metadata_store'[t] = call_metadata_store[t]
            \/ /\ line[t] \in {"ringing", "missed"}
               /\ jobs[<<s, k>>].at \in Holding /\ jobs[<<s, k>>].sid = t
               /\ Finished.at \notin Holding
    BY <1>3, <1>5, <2>2
  <2>4. QED
    <3>1. /\ line' \in [Sids -> {"unused", "ringing", "over", "missed"}]
          /\ \A t \in Sids : line'[t] = line[t]
      BY <1>1, Types
    <3>2. PICK job \in Job : job = Finished
      BY <1>6
    <3>3. /\ jobs' = [jobs EXCEPT ![<<s, k>>] = job]
          /\ job.at \in Working \cup {"done"} /\ job.at \notin {"calling"} \cup Holding
          /\ \A t \in Sids :
                \/ call_metadata_store'[t] = call_metadata_store[t]
                \/ /\ line[t] \in {"ringing", "missed"}
                   /\ jobs[<<s, k>>].at \in Holding /\ jobs[<<s, k>>].sid = t
                   /\ job.at \notin Holding
      BY <1>1, <2>2, <2>3, <3>2
    <3>4. ThreadMoves(s, k, job)
      BY <1>1, <2>1, <2>2, <3>1, <3>3 DEF ThreadMoves
    <3>5. QED
      BY <3>4, ThreadKeeps
<1>10. CountFor(o)'
  <2>1. JobShifts(o, s, k, Finished)
    BY <1>1, <1>2, <1>3, <1>5 DEF JobShifts
  <2>2. \A X : "none" \notin X =>
            Between(o, X)' = IF Finished.at \in X THEN Between(o, X) \cup {<<s, k>>}
                                                 ELSE Between(o, X) \ {<<s, k>>}
    BY <1>6, <2>1, BetweenMoves
  <2>3. <<s, k>> \in Sids \X Reports /\ <<s, k>>[1] = s
    OBVIOUS
  <2>4. /\ Unlisted(o)' = Unlisted(o)
        /\ Unrecorded(o)' = Unrecorded(o) \ {<<s, k>>}
        /\ <<s, k>> \in Unrecorded(o)
        /\ Between(o, {"recording"})' = Between(o, {"recording"}) \ {<<s, k>>}
    <3>1. "none" \notin {"listing"} /\ "none" \notin {"pointing", "recording"}
          /\ "none" \notin {"recording"}
      OBVIOUS
    <3>2. <<s, k>> \notin Between(o, {"listing"})
          /\ <<s, k>> \in Between(o, {"pointing", "recording"})
      BY <1>1, <1>2, <2>3 DEF Between
    <3>3. /\ Between(o, {"listing"})' = Between(o, {"listing"}) \ {<<s, k>>}
          /\ Between(o, {"pointing", "recording"})' =
                Between(o, {"pointing", "recording"}) \ {<<s, k>>}
          /\ Between(o, {"recording"})' = Between(o, {"recording"}) \ {<<s, k>>}
      BY <1>6, <2>2, <3>1
    <3>4. QED
      BY <3>2, <3>3 DEF Unlisted, Unrecorded
  <2>5. PICK c \in Chain : c = order_chains[o] /\ c = order_chains'[o]
    BY <1>1, Types
  <2>6. /\ IsFiniteSet(CallsOf(o)) /\ IsFiniteSet(Unlisted(o))
        /\ IsFiniteSet(Unrecorded(o))
        /\ c.attempt = Len(c.tried) + Cardinality(Unlisted(o))
        /\ Len(c.tried) = Cardinality(CallsOf(o)) + Cardinality(Unrecorded(o))
        /\ CurrentKnown(o)
    BY <1>2, <2>5 DEF CountsCalls
  <2>7. /\ IsFiniteSet(Unrecorded(o) \ {<<s, k>>})
        /\ Cardinality(Unrecorded(o) \ {<<s, k>>}) = Cardinality(Unrecorded(o)) - 1
    BY <2>4, <2>6, FS_RemoveElement
  <2>8. /\ IsFiniteSet(CallsOf(o) \cup {n})
        /\ Cardinality(CallsOf(o) \cup {n}) = Cardinality(CallsOf(o)) + 1
    BY <1>5, <2>6, FS_AddElement
  <2>9. Cardinality(CallsOf(o)) \in Nat /\ Cardinality(Unrecorded(o)) \in Nat
    BY <2>6, FS_CardinalityType
  <2>10. Len(c.tried) = Cardinality(CallsOf(o)') + Cardinality(Unrecorded(o)')
    BY <1>5, <2>4, <2>6, <2>7, <2>8, <2>9
  <2>11. CurrentKnown(o)'
    <3>1. CASE c.current \in CallsOf(o)
      BY <1>5, <2>5, <3>1 DEF CurrentKnown
    <3>2. CASE c.current = n
      BY <1>5, <2>5, <3>2 DEF CurrentKnown
    <3>3. ASSUME NEW j \in Between(o, {"recording"}), j # <<s, k>>,
                 c.current = jobs[j].sid
          PROVE  CurrentKnown(o)'
      <4>1. jobs'[j] = jobs[j] /\ j \in Between(o, {"recording"})'
        BY <1>7, <2>4, <3>3 DEF Between
      <4>2. QED
        BY <2>5, <3>3, <4>1 DEF CurrentKnown
    <3>4. QED
      BY <1>3, <2>5, <2>6, <3>1, <3>2, <3>3 DEF CurrentKnown
  <2>12. HasChain(o)'
    BY <1>1, <1>2 DEF HasChain
  <2>13. CountsCalls(o)'
    BY <1>5, <2>4, <2>5, <2>6, <2>7, <2>8, <2>10, <2>11 DEF CountsCalls
  <2>14. QED
    BY <2>12, <2>13 DEF CountFor
<1>11. ASSUME NEW p \in Orders, p # o
       PROVE  CountFor(p)'
  <2>1. CallsOf(p)' = CallsOf(p) /\ order_chains'[p] = order_chains[p]
    BY <1>1, <1>5, <1>11
  <2>2. \A t \in Sids :
            \/ call_metadata_store'[t] = call_metadata_store[t]
            \/ t # s /\ \A l \in Reports : jobs[<<t, l>>].at = "none"
    BY <1>3, <1>5
  <2>3. call_metadata_store[s].order # p
    BY <1>2, <1>11
  <2>4. QED
    BY <1>1, <1>6, <2>1, <2>2, <2>3, OthersCounted
<1>12. QED
  BY <1>8, <1>9, <1>10, <1>11 DEF LocalInv, CountInv

LEMMA ProceedsStep ==
    ASSUME LocalInv, NEW s \in Sids, NEW k \in Reports, Proceeds(s, k)
    PROVE  LocalInv'
<1>1. Finished \in Job /\ [NoJob EXCEPT !.at = "looking"] \in Job
      /\ [NoJob EXCEPT !.at = "looking"].at = "looking"
  BY DEF Finished, NoJob, Job
<1>2. CASE HandleDecision(s, k)
  BY <1>2, ReportStep
<1>3. CASE CheckAttempts(s, k)
  <2>1. PICK job \in Job : MovesOn(s, k, job)
    BY <1>1, <1>3 DEF CheckAttempts, MovesOn, Working, Holding, Entering
  <2>2. QED
    BY <2>1, ThreadStep
<1>4. CASE FindAlternative(s, k)
  <2>1. HasChain(call_metadata_store[s].order)
    BY <1>4 DEF FindAlternative, LocalInv, ThreadsInv, Working
  <2>2. Alternatives(call_metadata_store[s].order) \subseteq Vendors
    <3>1. PICK o \in Orders : o = call_metadata_store[s].order
      BY <2>1 DEF HasChain
    <3>2. order_chains[o].category \in Categories \cup {NoCategory}
      BY DEF LocalInv, TypeOK
    <3>3. QED
      BY <3>1, <3>2, LocalAssumption DEF Alternatives
  <2>3. ASSUME NEW v \in Vendors,
               Moves(s, k, [at |-> "calling", alt |-> v, sid |-> NoCall])
        PROVE  \E job \in Job : MovesOn(s, k, job)
    <3>1. PICK job : job = [at |-> "calling", alt |-> v, sid |-> NoCall]
      OBVIOUS
    <3>2. job \in Job /\ job.at = "calling" /\ job.alt = v
      BY <3>1 DEF Job
    <3>3. MovesOn(s, k, job)
      BY <1>4, <2>3, <3>1, <3>2
      DEF FindAlternative, MovesOn, Working, Holding, Entering
    <3>4. QED
      BY <3>2, <3>3
  <2>4. ASSUME Moves(s, k, Finished)
        PROVE  MovesOn(s, k, Finished)
    BY <1>4, <2>4 DEF FindAlternative, MovesOn, Working, Holding, Entering
  <2>5. PICK job \in Job : MovesOn(s, k, job)
    BY <1>1, <1>4, <2>2, <2>3, <2>4 DEF FindAlternative
  <2>6. QED
    BY <2>5, ThreadStep
<1>5. CASE \E n \in Sids : CallNext(s, k, n)
  BY <1>5, CallNextStep
<1>6. QED
  BY <1>2, <1>3, <1>4, <1>5, CountAttemptStep, ListVendorStep, PointAtCallStep,
     RecordCallStep DEF Proceeds

-----------------------------------------------------------------------------
(******************************************************************************)
(* The theorems.                                                              *)
(******************************************************************************)
\* The invariant holds at the start and is kept by every step.
LEMMA LocalInit ==
    ASSUME Init
    PROVE  LocalInv
<1>1. TypeOK
  <2>1. <<>> \in Seq(Vendors)
    OBVIOUS
  <2>2. QED
    BY <2>1 DEF Init, TypeOK, NoMeta, NoTranscript, NoChain, NoClient, NoJob
<1>2. CallsInv /\ ThreadsInv /\ HeldInv /\ NotificationIsEarned
  BY DEF Init, CallsInv, ThreadsInv, HeldInv, NotificationIsEarned, NoJob,
         Working, Holding, Entering
<1>3. ASSUME NEW o \in Orders
      PROVE  ~HasChain(o) /\ CallsOf(o) = {} /\ order_chains[o] = NoChain
  BY LocalAssumption DEF Init, HasChain, CallsOf, NoChain, NoMeta
<1>4. QED
  BY <1>1, <1>2, <1>3 DEF LocalInv, CountInv, CountFor

LEMMA LocalStep ==
    ASSUME LocalInv, [Next]_vars
    PROVE  LocalInv'
<1>1. ASSUME NEW o \in Orders, DashboardPolls(o)
      PROVE  LocalInv'
  <2>1. clients[o].sid \in Sids
    BY <1>1 DEF DashboardPolls, LocalInv, TypeOK
  <2>2. QED
    BY <1>1, <2>1, PollStep DEF DashboardPolls
<1>2. CASE UNCHANGED vars
  <2>1. CountInv'
    BY <1>2, AllCountsKept DEF vars
  <2>2. QED
    BY <1>2, <2>1
    DEF vars, LocalInv, TypeOK, CallsInv, ThreadsInv, HeldInv, Held, HasChain,
        NotificationIsEarned
<1>3. QED
  BY <1>1, <1>2, CallVendorStep, EndsStep, ReportStep, ProceedsStep DEF Next

LEMMA LocalInvariant == Spec => []LocalInv
BY LocalInit, LocalStep, PTL DEF Spec

\* Every store of the backend holds values of its type.
THEOREM LocalTypeCorrect == Spec => []TypeOK
<1>1. LocalInv => TypeOK
  BY DEF LocalInv
<1>2. QED
  BY <1>1, LocalInvariant, PTL

\* A notification says what the vendor answered.
THEOREM NotificationsAreEarned == Spec => []NotificationIsEarned
<1>1. LocalInv => NotificationIsEarned
  BY DEF LocalInv
<1>2. QED
  BY <1>1, LocalInvariant, PTL


-----------------------------------------------------------------------------
(******************************************************************************)
(* The fallback of an order whose calls are reported once each.  That it is   *)
(* orderly is not inductive: a thread compares the attempts and looks for a   *)
(* vendor long before it calls, and writes its call down in several steps.    *)
(* What makes it safe is that only the last call of the order can have a      *)
(* thread at work, so nobody uses up the attempt, calls the vendor or updates *)
(* the chain meanwhile; every earlier call was declined and its thread is     *)
(* done.                                                                      *)
(******************************************************************************)

\* A call that was declined and whose thread is done.
Retired(s) ==
    /\ answer[s].decision = "NO"
    /\ \A k \in Reports : k = 1 => jobs[<<s, k>>].at = "done"

\* What a thread found out about its order, or wrote down of it, still holds.
JobFits(o, job) ==
    LET c == order_chains[o]
    IN  /\ job.at \in {"looking", "calling", "counting"} => c.attempt < MaxAttempts
        /\ job.at \in {"calling"} \cup Holding =>
              \A t \in CallsOf(o) : call_metadata_store[t].vendor # job.alt
        /\ job.at \in {"pointing", "recording"} =>
              Len(c.tried) > 0 /\ c.tried[Len(c.tried)] = job.alt
        /\ job.at = "recording" => c.current = job.sid

LastIsAtWork(o) ==
    /\ \A s, t \in CallsOf(o) : s = t \/ Retired(s) \/ Retired(t)
    /\ \A s \in CallsOf(o), k \in Reports : JobFits(o, jobs[<<s, k>>])

\* The vendors of the calls are among those the chain lists as tried.
VendorsListed(o) ==
    \A t \in CallsOf(o) : \E i \in 1..Len(order_chains[o].tried) :
        order_chains[o].tried[i] = call_metadata_store[t].vendor

\* Between two updates the current call is that of the vendor listed last.
LastNamed(o) ==
    /\ HasChain(o)
    /\ \A s \in CallsOf(o), k \in Reports : jobs[<<s, k>>].at \notin Entering
    => LET c == order_chains[o]
       IN  /\ c.current \in CallsOf(o)
           /\ call_metadata_store[c.current].vendor = c.tried[Len(c.tried)]

Orderly(o) ==
    /\ order_chains[o].attempt <= MaxAttempts
    /\ VendorsDiffer(o)
    /\ VendorsListed(o)
    /\ LastIsAtWork(o)
    /\ LastNamed(o)

JobsInv ==
    \A s \in Sids, k \in Reports :
        /\ jobs[<<s, k>>].at = "none" => jobs[<<s, k>>] = NoJob
        /\ jobs[<<s, k>>].at \in Working => answer[s].decision = "NO"

AllOrderly == \A o \in Orders : ReportedOnce(o) => Orderly(o)

OnceInv == LocalInv /\ JobsInv /\ AllOrderly

\* An order that a step leaves alone: its chain, the calls made for it with
\* their vendors and their jobs, and what was declined in them.
Untouched(o) ==
    /\ order_chains'[o] = order_chains[o]
    /\ CallsOf(o)' = CallsOf(o)
    /\ \A s \in CallsOf(o) :
          /\ call_metadata_store'[s] = call_metadata_store[s]
          /\ answer[s].decision = "NO" => answer'[s] = answer[s]
          /\ \A k \in Reports : jobs'[<<s, k>>] = jobs[<<s, k>>]

LEMMA UntouchedKeeps ==
    ASSUME OnceInv, NEW o \in Orders, Untouched(o)
    PROVE  (ReportedOnce(o) => Orderly(o))'
<1> SUFFICES ASSUME ReportedOnce(o)'
             PROVE  Orderly(o)'
  OBVIOUS
<1>1. CallsOf(o)' = CallsOf(o)
  BY DEF Untouched
<1>2. ReportedOnce(o)
  BY <1>1 DEF Untouched, ReportedOnce
<1>3. Orderly(o)
  BY <1>2 DEF OnceInv, AllOrderly
<1>4. /\ order_chains'[o] = order_chains[o]
      /\ \A s \in CallsOf(o) :
          /\ call_metadata_store'[s] = call_metadata_store[s]
          /\ answer[s].decision = "NO" => answer'[s] = answer[s]
          /\ \A k \in Reports : jobs'[<<s, k>>] = jobs[<<s, k>>]
  BY DEF Untouched
<1>5. VendorsDiffer(o)' /\ VendorsListed(o)'
  BY <1>1, <1>3, <1>4 DEF Orderly, VendorsDiffer, VendorsListed
<1>6. LastIsAtWork(o)'
  <2>1. ASSUME NEW s \in CallsOf(o), NEW k \in Reports
        PROVE  JobFits(o, jobs[<<s, k>>])'
    <3>1. JobFits(o, jobs[<<s, k>>])
      BY <1>3 DEF Orderly, LastIsAtWork
    <3>2. QED
      BY <1>1, <1>4, <3>1 DEF JobFits
  <2>2. \A s \in CallsOf(o) : Retired(s) => Retired(s)'
    BY <1>4 DEF Retired
  <2>3. QED
    BY <1>1, <1>3, <2>1, <2>2 DEF Orderly, LastIsAtWork
<1>7. LastNamed(o)'
  <2>1. HasChain(o)' <=> HasChain(o)
    BY <1>4 DEF HasChain
  <2>2. QED
    BY <1>1, <1>3, <1>4, <2>1 DEF Orderly, LastNamed
<1>8. QED
  BY <1>3, <1>4, <1>5, <1>6, <1>7 DEF Orderly

\* While a call has work to do, its order has no other that has.
LEMMA OthersRetired ==
    ASSUME OnceInv, NEW o \in Orders, ReportedOnce(o), NEW s \in CallsOf(o),
           NEW k \in Reports, k = 1, jobs[<<s, k>>].at # "done"
    PROVE  /\ Orderly(o)
           /\ \A t \in CallsOf(o) \ {s} : Retired(t)
           /\ \A t \in CallsOf(o), l \in Reports :
                 <<t, l>> # <<s, k>> => jobs[<<t, l>>].at \in {"none", "done"}
<1>1. Orderly(o)
  BY DEF OnceInv, AllOrderly
<1>2. ~Retired(s)
  BY DEF Retired
<1>3. \A t \in CallsOf(o) \ {s} : Retired(t)
  BY <1>1, <1>2 DEF Orderly, LastIsAtWork
<1>4. ASSUME NEW t \in CallsOf(o), NEW l \in Reports, <<t, l>> # <<s, k>>
      PROVE  jobs[<<t, l>>].at \in {"none", "done"}
  <2>1. CASE l = 1
    BY <1>3, <1>4, <2>1 DEF Retired
  <2>2. CASE l # 1
    BY <2>2 DEF ReportedOnce, NoJob
  <2>3. QED
    BY <2>1, <2>2
<1>5. QED
  BY <1>1, <1>3, <1>4

\* A job moves and may change the chain of its order; the calls stay as they
\* are.
JobGoes(o, s, k, job) ==
    /\ jobs' = [jobs EXCEPT ![<<s, k>>] = job]
    /\ jobs[<<s, k>>].at # "done" /\ job.at # "none"
    /\ UNCHANGED <<call_metadata_store, answer>>
    /\ s \notin CallsOf(o) => order_chains'[o] = order_chains[o]
    /\ s \in CallsOf(o) /\ k = 1 /\ ReportedOnce(o) =>
          /\ order_chains'[o].attempt <= MaxAttempts
          /\ VendorsListed(o)'
          /\ JobFits(o, job)'
          /\ LastNamed(o)'

LEMMA MoveKeepsOrder ==
    ASSUME OnceInv, NEW s \in Sids, NEW k \in Reports, NEW job \in Job,
           NEW o \in Orders, JobGoes(o, s, k, job)
    PROVE  (ReportedOnce(o) => Orderly(o))'
<1>1. /\ jobs'[<<s, k>>] = job
      /\ \A t \in Sids, l \in Reports :
            <<t, l>> # <<s, k>> => jobs'[<<t, l>>] = jobs[<<t, l>>]
  BY JobMoves DEF OnceInv, JobGoes
<1>2. CallsOf(o)' = CallsOf(o) /\ CallsOf(o) \subseteq Sids
  BY DEF CallsOf, JobGoes
<1>3. CASE s \notin CallsOf(o)
  <2>1. \A t \in CallsOf(o), l \in Reports : jobs'[<<t, l>>] = jobs[<<t, l>>]
    BY <1>1, <1>2, <1>3
  <2>2. Untouched(o)
    BY <1>2, <1>3, <2>1 DEF Untouched, JobGoes
  <2>3. QED
    BY <2>2, UntouchedKeeps
<1>4. CASE s \in CallsOf(o) /\ k # 1
  <2>1. jobs'[<<s, k>>] # NoJob
    BY <1>1 DEF NoJob, JobGoes
  <2>2. ~ReportedOnce(o)'
    BY <1>2, <1>4, <2>1 DEF ReportedOnce
  <2>3. QED
    BY <2>2
<1>5. CASE s \in CallsOf(o) /\ k = 1
  <2> SUFFICES ASSUME ReportedOnce(o)'
               PROVE  Orderly(o)'
    OBVIOUS
  <2>1. ReportedOnce(o)
    <3>1. ASSUME NEW t \in CallsOf(o), NEW l \in Reports \ {1}
          PROVE  jobs[<<t, l>>] = NoJob
      <4>1. jobs'[<<t, l>>] = NoJob
        BY <1>2 DEF ReportedOnce
      <4>2. <<t, l>> # <<s, k>> /\ t \in Sids
        BY <1>2, <1>5
      <4>3. QED
        BY <1>1, <4>1, <4>2
    <3>2. QED
      BY <3>1 DEF ReportedOnce
  <2>2. /\ Orderly(o)
        /\ \A t \in CallsOf(o) \ {s} : Retired(t)
        /\ \A t \in CallsOf(o), l \in Reports :
              <<t, l>> # <<s, k>> => jobs[<<t, l>>].at \in {"none", "done"}
    <3>1. jobs[<<s, k>>].at # "done"
      BY DEF JobGoes
    <3>2. QED
      BY <1>5, <2>1, <3>1, OthersRetired
  <2>3. /\ order_chains'[o].attempt <= MaxAttempts
        /\ VendorsListed(o)' /\ JobFits(o, job)' /\ LastNamed(o)'
    BY <1>5, <2>1 DEF JobGoes
  <2>4. \A t \in CallsOf(o) \ {s} : Retired(t)'
    BY <1>1, <1>2, <2>2 DEF Retired, JobGoes
  <2>5. ASSUME NEW t \in CallsOf(o), NEW l \in Reports
        PROVE  JobFits(o, jobs[<<t, l>>])'
    <3>1. CASE <<t, l>> = <<s, k>>
      BY <1>1, <2>3, <3>1 DEF JobFits
    <3>2. CASE <<t, l>> # <<s, k>>
      <4>1. jobs'[<<t, l>>].at \in {"none", "done"}
        BY <1>1, <1>2, <2>2, <3>2
      <4>2. QED
        BY <4>1 DEF JobFits, Holding, Entering
    <3>3. QED
      BY <3>1, <3>2
  <2>6. LastIsAtWork(o)'
    BY <1>2, <2>4, <2>5 DEF LastIsAtWork
  <2>7. VendorsDiffer(o)'
    BY <1>2, <2>2 DEF Orderly, VendorsDiffer, JobGoes
  <2>8. QED
    BY <2>3, <2>6, <2>7 DEF Orderly
<1>6. QED
  BY <1>3, <1>4, <1>5

\* A job moves outside the update of the chain, which stays as it is.
LEMMA NamedKept ==
    ASSUME OnceInv, NEW s \in Sids, NEW k \in Reports, NEW job \in Job,
           jobs' = [jobs EXCEPT ![<<s, k>>] = job],
           jobs[<<s, k>>].at \notin Entering,
           UNCHANGED <<call_metadata_store, order_chains>>,
           NEW o \in Orders, LastNamed(o)
    PROVE  LastNamed(o)'
<1>1. \A t \in Sids, l \in Reports :
            <<t, l>> # <<s, k>> => jobs'[<<t, l>>] = jobs[<<t, l>>]
  BY JobMoves DEF OnceInv
<1>2. CallsOf(o)' = CallsOf(o) /\ CallsOf(o) \subseteq Sids
  BY DEF CallsOf
<1>3. ASSUME \A t \in CallsOf(o), l \in Reports : jobs'[<<t, l>>].at \notin Entering
      PROVE  \A t \in CallsOf(o), l \in Reports : jobs[<<t, l>>].at \notin Entering
  <2>1. ASSUME NEW t \in CallsOf(o), NEW l \in Reports
        PROVE  jobs[<<t, l>>].at \notin Entering
    <3>1. CASE <<t, l>> = <<s, k>>
      BY <3>1
    <3>2. CASE <<t, l>> # <<s, k>>
      BY <1>1, <1>2, <1>3, <3>2
    <3>3. QED
      BY <3>1, <3>2
  <2>2. QED
    BY <2>1
<1>4. HasChain(o)' <=> HasChain(o)
  BY DEF HasChain
<1>5. QED
  BY <1>2, <1>3, <1>4 DEF LastNamed

\* Only a job that stands for a NO goes to work, and none returns to "none".
LEMMA MoveKeepsJobs ==
    ASSUME OnceInv, NEW s \in Sids, NEW k \in Reports, NEW job \in Job,
           jobs' = [jobs EXCEPT ![<<s, k>>] = job], UNCHANGED answer,
           job.at # "none",
           job.at \in Working => answer[s].decision = "NO"
    PROVE  JobsInv'
<1>1. /\ jobs'[<<s, k>>] = job
      /\ \A t \in Sids, l \in Reports :
            <<t, l>> # <<s, k>> => jobs'[<<t, l>>] = jobs[<<t, l>>]
  BY JobMoves DEF OnceInv
<1>2. ASSUME NEW t \in Sids, NEW l \in Reports
      PROVE  /\ jobs'[<<t, l>>].at = "none" => jobs'[<<t, l>>] = NoJob
             /\ jobs'[<<t, l>>].at \in Working => answer'[t].decision = "NO"
  <2>1. CASE <<t, l>> = <<s, k>>
    BY <1>1, <2>1
  <2>2. CASE <<t, l>> # <<s, k>>
    BY <1>1, <2>2 DEF OnceInv, JobsInv
  <2>3. QED
    BY <2>1, <2>2
<1>3. QED
  BY <1>2 DEF JobsInv

-----------------------------------------------------------------------------
(******************************************************************************)
(* The steps that write the chain.                                            *)
(******************************************************************************)

\* A thread writes down its call: what it wrote fits, and other orders are left
\* alone.
LEMMA UpdateKeepsOrders ==
    ASSUME OnceInv, NEW o \in Orders, NEW s \in Sids, NEW k \in Reports,
           NEW from \in Holding, NEW job \in Job, Updates(o, s, k, from, job),
           ReportedOnce(o) /\ Orderly(o) =>
               /\ order_chains'[o].attempt <= MaxAttempts
               /\ VendorsListed(o)'
               /\ JobFits(o, job)'
    PROVE  JobsInv' /\ AllOrderly'
<1>1. /\ o = call_metadata_store[s].order /\ s \in CallsOf(o)
      /\ jobs[<<s, k>>].at = from /\ from \in Holding
      /\ jobs' = [jobs EXCEPT ![<<s, k>>] = job]
      /\ job.at \in Entering
      /\ \A p \in Orders \ {o} : order_chains'[p] = order_chains[p]
      /\ UNCHANGED <<call_metadata_store, answer>>
  BY DEF Updates, CallsOf
<1>2. answer[s].decision = "NO"
  BY <1>1 DEF OnceInv, JobsInv, Working
<1>3. JobsInv'
  BY <1>1, <1>2, MoveKeepsJobs DEF Entering
<1>4. jobs[<<s, k>>].at # "done" /\ job.at # "none"
  BY <1>1 DEF Holding, Entering
<1>5. LastNamed(o)'
  <2>1. jobs'[<<s, k>>] = job
    <3>1. LocalInv
      BY DEF OnceInv
    <3>2. /\ jobs' \in [Sids \X Reports -> Job]
          /\ jobs'[<<s, k>>] = job
          /\ \A t \in Sids, l \in Reports :
                <<t, l>> # <<s, k>> => jobs'[<<t, l>>] = jobs[<<t, l>>]
          /\ \A j \in Sids \X Reports : j # <<s, k>> => jobs'[j] = jobs[j]
      BY <1>1, <3>1, JobMoves
    <3>3. QED
      BY <3>2
  <2>2. s \in CallsOf(o)'
    BY <1>1 DEF CallsOf
  <2>3. QED
    BY <1>1, <2>1, <2>2 DEF LastNamed
<1>6. JobGoes(o, s, k, job)
  BY <1>1, <1>4, <1>5 DEF JobGoes, OnceInv, AllOrderly
<1>7. ASSUME NEW p \in Orders, p # o
      PROVE  JobGoes(p, s, k, job)
  BY <1>1, <1>4, <1>7 DEF JobGoes, CallsOf
<1>8. QED
  BY <1>3, <1>6, <1>7, MoveKeepsOrder DEF AllOrderly

\* What a thread that holds a call knows of its order.
LEMMA HolderFits ==
    ASSUME OnceInv, NEW s \in Sids, NEW k \in Reports,
           jobs[<<s, k>>].at \in {"calling"} \cup Holding
    PROVE  \E o \in Orders, v \in Vendors, c \in Chain :
              /\ o = call_metadata_store[s].order /\ v = jobs[<<s, k>>].alt
              /\ c = order_chains[o]
              /\ HasChain(o)
              /\ Orderly(o) => JobFits(o, jobs[<<s, k>>])
<1>1. LocalInv
  BY DEF OnceInv
<1>2. PICK o \in Orders, v \in Vendors :
          /\ o = call_metadata_store[s].order /\ v = jobs[<<s, k>>].alt
          /\ HasChain(o) /\ CountsCalls(o)
  BY <1>1, WorksFor
<1>3. PICK c \in Chain : c = order_chains[o]
  BY <1>1, Types
<1>4. s \in CallsOf(o)
  BY <1>2 DEF CallsOf
<1>5. QED
  BY <1>2, <1>3, <1>4 DEF Orderly, LastIsAtWork

LEMMA CountKeepsOrders ==
    ASSUME OnceInv, NEW s \in Sids, NEW k \in Reports, CountAttempt(s, k)
    PROVE  JobsInv' /\ AllOrderly'
<1>0. jobs[<<s, k>>].at = "counting" /\ LocalInv
  BY DEF CountAttempt, OnceInv
<1>1. PICK o \in Orders, v \in Vendors, c \in Chain :
          /\ o = call_metadata_store[s].order /\ v = jobs[<<s, k>>].alt
          /\ c = order_chains[o]
          /\ HasChain(o)
          /\ Orderly(o) => JobFits(o, jobs[<<s, k>>])
  BY <1>0, HolderFits DEF Holding
<1>2. /\ order_chains' = [order_chains EXCEPT ![o].attempt = @ + 1]
      /\ Moves(s, k, [jobs[<<s, k>>] EXCEPT !.at = "listing"])
      /\ UNCHANGED <<call_metadata_store, line>>
  BY <1>1 DEF CountAttempt
<1>3. \A p \in Orders \ {o} : order_chains'[p] = order_chains[p]
  BY <1>0, <1>2, Types
<1>4. PICK job \in Job : job.at = "listing" /\ Updates(o, s, k, "counting", job)
  BY <1>0, <1>1, <1>2, <1>3, MoveUpdates DEF Holding, Entering
<1>5. /\ order_chains'[o].attempt = c.attempt + 1
      /\ order_chains'[o].tried = c.tried
  <2>1. order_chains'[o] = [c EXCEPT !.attempt = c.attempt + 1]
    BY <1>0, <1>1, <1>2, Types
  <2>2. QED
    BY <2>1 DEF Chain
<1>6. ASSUME Orderly(o)
      PROVE  /\ order_chains'[o].attempt <= MaxAttempts
             /\ VendorsListed(o)'
             /\ JobFits(o, job)'
  <2>1. JobFits(o, jobs[<<s, k>>]) /\ job.alt = jobs[<<s, k>>].alt
    BY <1>1, <1>4, <1>6 DEF Updates
  <2>2. c.attempt \in Nat /\ c.attempt < MaxAttempts
    BY <1>0, <1>1, <2>1 DEF JobFits, Chain
  <2>3. order_chains'[o].attempt <= MaxAttempts
    BY <1>5, <2>2, LocalAssumption
  <2>4. CallsOf(o)' = CallsOf(o)
    BY <1>2 DEF CallsOf
  <2>5. \A t \in CallsOf(o) : call_metadata_store[t].vendor # job.alt
    BY <1>0, <2>1 DEF JobFits, Holding
  <2>6. VendorsListed(o)'
    BY <1>1, <1>2, <1>5, <1>6, <2>4 DEF Orderly, VendorsListed
  <2>7. JobFits(o, job)'
    BY <1>2, <1>4, <2>4, <2>5 DEF JobFits
  <2>8. QED
    BY <2>3, <2>6, <2>7
<1>7. QED
  BY <1>4, <1>6, UpdateKeepsOrders DEF Holding

LEMMA ListKeepsOrders ==
    ASSUME OnceInv, NEW s \in Sids, NEW k \in Reports, ListVendor(s, k)
    PROVE  JobsInv' /\ AllOrderly'
<1>0. jobs[<<s, k>>].at = "listing" /\ LocalInv
  BY DEF ListVendor, OnceInv
<1>1. PICK o \in Orders, v \in Vendors, c \in Chain :
          /\ o = call_metadata_store[s].order /\ v = jobs[<<s, k>>].alt
          /\ c = order_chains[o]
          /\ HasChain(o)
          /\ Orderly(o) => JobFits(o, jobs[<<s, k>>])
  BY <1>0, HolderFits DEF Holding, Entering
<1>2. /\ order_chains' = [order_chains EXCEPT ![o].tried = Append(@, v)]
      /\ Moves(s, k, [jobs[<<s, k>>] EXCEPT !.at = "pointing"])
      /\ UNCHANGED <<call_metadata_store, line>>
  BY <1>1 DEF ListVendor
<1>3. \A p \in Orders \ {o} : order_chains'[p] = order_chains[p]
  BY <1>0, <1>2, Types
<1>4. PICK job \in Job : job.at = "pointing" /\ Updates(o, s, k, "listing", job)
  BY <1>0, <1>1, <1>2, <1>3, MoveUpdates DEF Holding, Entering
<1>5. PICK d :
          /\ d = order_chains'[o]
          /\ d.attempt = c.attempt /\ d.tried = Append(c.tried, v)
          /\ c.tried \in Seq(Vendors)
  <2>1. order_chains'[o] = [c EXCEPT !.tried = Append(c.tried, v)]
    BY <1>0, <1>1, <1>2, Types
  <2>2. QED
    BY <2>1 DEF Chain
<1>6. /\ Len(d.tried) = Len(c.tried) + 1 /\ Len(c.tried) \in Nat
      /\ d.tried[Len(c.tried) + 1] = v
      /\ \A i \in 1..Len(c.tried) : i \in 1..Len(d.tried)
                                    /\ d.tried[i] = c.tried[i]
  BY <1>5
<1>7. ASSUME Orderly(o)
      PROVE  /\ order_chains'[o].attempt <= MaxAttempts
             /\ VendorsListed(o)'
             /\ JobFits(o, job)'
  <2>1. JobFits(o, jobs[<<s, k>>]) /\ job.alt = v
    BY <1>1, <1>4, <1>7 DEF Updates
  <2>2. order_chains'[o].attempt <= MaxAttempts
    BY <1>1, <1>5, <1>7 DEF Orderly
  <2>3. CallsOf(o)' = CallsOf(o)
    BY <1>2 DEF CallsOf
  <2>4. \A t \in CallsOf(o) : call_metadata_store[t].vendor # job.alt
    BY <1>0, <1>1, <2>1 DEF JobFits, Holding, Entering
  <2>5. VendorsListed(o)'
    <3>1. ASSUME NEW t \in CallsOf(o)
          PROVE  \E i \in 1..Len(d.tried) :
                     d.tried[i] = call_metadata_store'[t].vendor
      <4>1. PICK i \in 1..Len(c.tried) :
                c.tried[i] = call_metadata_store[t].vendor
        BY <1>1, <1>7 DEF Orderly, VendorsListed
      <4>2. QED
        BY <1>2, <1>6, <4>1
    <3>2. QED
      BY <1>5, <2>3, <3>1 DEF VendorsListed
  <2>6. Len(d.tried) > 0 /\ d.tried[Len(d.tried)] = job.alt
    BY <1>6, <2>1
  <2>7. JobFits(o, job)'
    BY <1>2, <1>4, <1>5, <2>3, <2>4, <2>6 DEF JobFits
  <2>8. QED
    BY <2>2, <2>5, <2>7
<1>8. QED
  BY <1>4, <1>7, UpdateKeepsOrders DEF Holding, Entering

LEMMA PointKeepsOrders ==
    ASSUME OnceInv, NEW s \in Sids, NEW k \in Reports, PointAtCall(s, k)
    PROVE  JobsInv' /\ AllOrderly'
<1>0. jobs[<<s, k>>].at = "pointing" /\ LocalInv
  BY DEF PointAtCall, OnceInv
<1>1. PICK o \in Orders, v \in Vendors, c \in Chain :
          /\ o = call_metadata_store[s].order /\ v = jobs[<<s, k>>].alt
          /\ c = order_chains[o]
          /\ HasChain(o)
          /\ Orderly(o) => JobFits(o, jobs[<<s, k>>])
  BY <1>0, HolderFits DEF Holding, Entering
<1>2. PICK n : n = jobs[<<s, k>>].sid
  OBVIOUS
<1>3. /\ order_chains' = [order_chains EXCEPT ![o].current = n]
      /\ Moves(s, k, [jobs[<<s, k>>] EXCEPT !.at = "recording"])
      /\ UNCHANGED <<call_metadata_store, line>>
  BY <1>1, <1>2 DEF PointAtCall
<1>4. \A p \in Orders \ {o} : order_chains'[p] = order_chains[p]
  BY <1>0, <1>3, Types
<1>5. PICK job \in Job : job.at = "recording" /\ Updates(o, s, k, "pointing", job)
  BY <1>0, <1>1, <1>3, <1>4, MoveUpdates DEF Holding, Entering
<1>6. /\ order_chains'[o].attempt = c.attempt
      /\ order_chains'[o].tried = c.tried /\ order_chains'[o].current = n
  <2>1. order_chains'[o] = [c EXCEPT !.current = n]
    BY <1>0, <1>1, <1>3, Types
  <2>2. QED
    BY <2>1 DEF Chain
<1>7. ASSUME Orderly(o)
      PROVE  /\ order_chains'[o].attempt <= MaxAttempts
             /\ VendorsListed(o)'
             /\ JobFits(o, job)'
  <2>1. /\ JobFits(o, jobs[<<s, k>>])
        /\ job.alt = jobs[<<s, k>>].alt /\ job.sid = n
    BY <1>1, <1>2, <1>5, <1>7 DEF Updates
  <2>2. order_chains'[o].attempt <= MaxAttempts
    BY <1>1, <1>6, <1>7 DEF Orderly
  <2>3. CallsOf(o)' = CallsOf(o)
    BY <1>3 DEF CallsOf
  <2>4. /\ \A t \in CallsOf(o) : call_metadata_store[t].vendor # job.alt
        /\ Len(c.tried) > 0 /\ c.tried[Len(c.tried)] = job.alt
    BY <1>0, <1>1, <2>1 DEF JobFits, Holding, Entering
  <2>5. VendorsListed(o)'
    BY <1>1, <1>3, <1>6, <1>7, <2>3 DEF Orderly, VendorsListed
  <2>6. JobFits(o, job)'
    BY <1>3, <1>5, <1>6, <2>1, <2>3, <2>4 DEF JobFits
  <2>7. QED
    BY <2>2, <2>5, <2>6
<1>8. QED
  BY <1>5, <1>7, UpdateKeepsOrders DEF Holding, Entering

-----------------------------------------------------------------------------
(******************************************************************************)
(* The steps that record a call.                                              *)
(******************************************************************************)

\* A call without metadata is no order's, and has no jobs.
LEMMA FreshCall ==
    ASSUME OnceInv, NEW n \in Sids, line[n] # "over", call_metadata_store[n] = NoMeta
    PROVE  /\ \A q \in Orders : n \notin CallsOf(q)
           /\ \A l \in Reports : jobs[<<n, l>>].at = "none"
BY LocalAssumption DEF OnceInv, LocalInv, CallsInv, CallsOf, NoMeta

\* A call that is recorded leaves every other order alone.
LEMMA RecordedElsewhere ==
    ASSUME OnceInv, NEW o \in Orders, NEW v \in Vendors, NEW n \in Sids,
           Recorded(o, v, n), line[n] # "over", NEW q \in Orders, q # o,
           order_chains'[q] = order_chains[q], UNCHANGED answer,
           \A t \in CallsOf(q), l \in Reports : jobs'[<<t, l>>] = jobs[<<t, l>>]
    PROVE  (ReportedOnce(q) => Orderly(q))'
<1>1. CallsOf(q)' = CallsOf(q) /\ CallsOf(q) \subseteq Sids
      /\ \A t \in Sids : t # n => call_metadata_store'[t] = call_metadata_store[t]
  <2>1. CallsOf(q) \subseteq Sids
    BY DEF CallsOf
  <2>2. LocalInv
    BY DEF OnceInv
  <2>3. /\ n \notin CallsOf(o)
        /\ CallsOf(o)' = CallsOf(o) \cup {n}
        /\ \A p \in Orders \ {o} : CallsOf(p)' = CallsOf(p)
        /\ call_metadata_store'[n] = [order |-> o, vendor |-> v]
        /\ \A s \in Sids : s # n =>
              call_metadata_store'[s] = call_metadata_store[s]
        /\ call_metadata_store' \in
              [Sids -> [order : Orders \cup {NoOrder},
                        vendor : Vendors \cup {NoVendor}]]
    BY <2>2, RecordedForOrder
  <2>4. QED
    BY <2>1, <2>3
<1>2. n \notin CallsOf(q)
  <2>1. call_metadata_store[n] = NoMeta
    BY DEF Recorded
  <2>2. QED
    BY <2>1, FreshCall
<1>3. Untouched(q)
  BY <1>1, <1>2 DEF Untouched
<1>4. QED
  BY <1>3, UntouchedKeeps

\* The thread of a NO records its call, which becomes the last of the order.
LEMMA RecordKeepsOrder ==
    ASSUME OnceInv, NEW s \in Sids, NEW k \in Reports, NEW n \in Sids,
           NEW o \in Orders, NEW v \in Vendors, NEW c \in Chain,
           s \in CallsOf(o), jobs[<<s, k>>].at = "recording",
           v = jobs[<<s, k>>].alt, n = jobs[<<s, k>>].sid,
           c = order_chains[o], order_chains'[o] = c,
           line[n] # "over", Recorded(o, v, n),
           jobs' = [jobs EXCEPT ![<<s, k>>] = Finished], UNCHANGED answer
    PROVE  (ReportedOnce(o) => Orderly(o))'
<1> SUFFICES ASSUME ReportedOnce(o)'
             PROVE  Orderly(o)'
  OBVIOUS
<1>0. LocalInv /\ Finished \in Job /\ Finished.at = "done"
  BY DEF OnceInv, Finished, NoJob, Job
<1>1. /\ jobs'[<<s, k>>] = Finished
      /\ \A t \in Sids, l \in Reports :
            <<t, l>> # <<s, k>> => jobs'[<<t, l>>] = jobs[<<t, l>>]
  BY <1>0, JobMoves
<1>2. /\ n \notin CallsOf(o)
      /\ CallsOf(o)' = CallsOf(o) \cup {n}
      /\ call_metadata_store'[n] = [order |-> o, vendor |-> v]
      /\ \A t \in Sids : t # n =>
            call_metadata_store'[t] = call_metadata_store[t]
  <2>1. /\ n \notin CallsOf(o)
        /\ CallsOf(o)' = CallsOf(o) \cup {n}
        /\ \A p \in Orders \ {o} : CallsOf(p)' = CallsOf(p)
        /\ call_metadata_store'[n] = [order |-> o, vendor |-> v]
        /\ \A t \in Sids : t # n =>
              call_metadata_store'[t] = call_metadata_store[t]
        /\ call_metadata_store' \in
              [Sids -> [order : Orders \cup {NoOrder},
                        vendor : Vendors \cup {NoVendor}]]
    BY <1>0, RecordedForOrder
  <2>2. QED
    BY <2>1
<1>3. \A t \in CallsOf(o) : t # n /\ t \in Sids
          /\ call_metadata_store'[t] = call_metadata_store[t]
  BY <1>2 DEF CallsOf
<1>4. k = 1
  BY <1>1, <1>2 DEF ReportedOnce, Finished, NoJob
<1>5. ReportedOnce(o)
  <2>1. ASSUME NEW t \in CallsOf(o), NEW l \in Reports \ {1}
        PROVE  jobs[<<t, l>>] = NoJob
    <3>1. jobs'[<<t, l>>] = NoJob /\ <<t, l>> # <<s, k>>
      BY <1>2, <1>4 DEF ReportedOnce
    <3>2. QED
      BY <1>1, <1>3, <3>1
  <2>2. QED
    BY <2>1 DEF ReportedOnce
<1>6. /\ Orderly(o)
      /\ \A t \in CallsOf(o) \ {s} : Retired(t)
      /\ \A t \in CallsOf(o), l \in Reports :
            <<t, l>> # <<s, k>> => jobs[<<t, l>>].at \in {"none", "done"}
  <2>1. jobs[<<s, k>>].at # "done"
    OBVIOUS
  <2>2. QED
    BY <1>4, <1>5, <2>1, OthersRetired
<1>7. /\ \A t \in CallsOf(o) : call_metadata_store[t].vendor # v
      /\ Len(c.tried) > 0 /\ c.tried[Len(c.tried)] = v
      /\ c.current = n
  <2>1. JobFits(o, jobs[<<s, k>>])
    BY <1>6 DEF Orderly, LastIsAtWork
  <2>2. QED
    BY <2>1 DEF JobFits, Holding, Entering
<1>8. call_metadata_store'[n].vendor = v
  BY <1>2
<1>9. VendorsDiffer(o)'
  <2>1. \A t \in CallsOf(o) : call_metadata_store'[t].vendor # v
    BY <1>3, <1>7
  <2>2. \A t, u \in CallsOf(o) :
            call_metadata_store'[t].vendor = call_metadata_store'[u].vendor
            => t = u
    BY <1>3, <1>6 DEF Orderly, VendorsDiffer
  <2>3. QED
    BY <1>2, <1>8, <2>1, <2>2 DEF VendorsDiffer
<1>10. VendorsListed(o)'
  <2>1. Len(c.tried) \in 1..Len(c.tried)
    BY <1>7 DEF Chain
  <2>2. \A t \in CallsOf(o) : \E i \in 1..Len(c.tried) :
            c.tried[i] = call_metadata_store'[t].vendor
    BY <1>3, <1>6 DEF Orderly, VendorsListed
  <2>3. QED
    BY <1>2, <1>7, <1>8, <2>1, <2>2 DEF VendorsListed
<1>11. LastNamed(o)'
  BY <1>2, <1>7, <1>8 DEF LastNamed
<1>12. \A t \in CallsOf(o) : Retired(t)'
  <2>1. Retired(s)'
    <3>1. answer[s].decision = "NO"
      BY DEF OnceInv, JobsInv, Working, Holding, Entering
    <3>2. QED
      BY <1>0, <1>1, <1>4, <3>1 DEF Retired
  <2>2. \A t \in CallsOf(o) \ {s} : Retired(t)'
    BY <1>1, <1>3, <1>6 DEF Retired
  <2>3. QED
    BY <2>1, <2>2
<1>13. ASSUME NEW t \in CallsOf(o)', NEW l \in Reports
       PROVE  JobFits(o, jobs[<<t, l>>])'
  <2>1. jobs'[<<t, l>>].at \in {"none", "done"}
    <3>1. CASE t = n
      <4>1. call_metadata_store[n] = NoMeta
        BY DEF Recorded
      <4>2. jobs[<<n, l>>].at = "none"
        BY <4>1, FreshCall
      <4>3. n # s
        BY <1>3
      <4>4. jobs'[<<n, l>>] = jobs[<<n, l>>]
        BY <1>1, <4>3
      <4>5. QED
        BY <3>1, <4>2, <4>4
    <3>2. CASE t \in CallsOf(o) /\ <<t, l>> # <<s, k>>
      BY <1>1, <1>3, <1>6, <3>2
    <3>3. CASE <<t, l>> = <<s, k>>
      BY <1>0, <1>1, <3>3
    <3>4. QED
      BY <1>2, <3>1, <3>2, <3>3
  <2>2. QED
    BY <2>1 DEF JobFits, Holding, Entering
<1>14. LastIsAtWork(o)'
  BY <1>2, <1>12, <1>13 DEF LastIsAtWork
<1>15. order_chains'[o].attempt <= MaxAttempts
  BY <1>6 DEF Orderly
<1>16. QED
  BY <1>9, <1>10, <1>11, <1>14, <1>15 DEF Orderly

LEMMA RecordKeepsOrders ==
    ASSUME OnceInv, NEW s \in Sids, NEW k \in Reports, RecordCall(s, k)
    PROVE  JobsInv' /\ AllOrderly'
<1>0. LocalInv /\ Finished \in Job /\ Finished.at = "done"
  BY DEF OnceInv, Finished, NoJob, Job
<1>1. /\ jobs[<<s, k>>].at = "recording"
      /\ jobs' = [jobs EXCEPT ![<<s, k>>] = Finished]
      /\ UNCHANGED <<order_chains, answer>>
  BY DEF RecordCall, Moves
<1>2. PICK o \in Orders, v \in Vendors, c \in Chain :
          /\ o = call_metadata_store[s].order /\ v = jobs[<<s, k>>].alt
          /\ c = order_chains[o]
          /\ HasChain(o)
          /\ Orderly(o) => JobFits(o, jobs[<<s, k>>])
  BY <1>1, HolderFits DEF Holding, Entering
<1>3. PICK n \in Sids :
          /\ n = jobs[<<s, k>>].sid
          /\ line[n] \in {"ringing", "missed"} /\ call_metadata_store[n] = NoMeta
  BY <1>0, <1>1 DEF LocalInv, HeldInv, Held, Holding, Entering
<1>4. Recorded(o, v, n) /\ line[n] # "over" /\ s \in CallsOf(o)
  BY <1>2, <1>3 DEF RecordCall, Recorded, CallsOf
<1>5. JobsInv'
  BY <1>0, <1>1, MoveKeepsJobs DEF Working, Holding, Entering
<1>6. (ReportedOnce(o) => Orderly(o))'
  BY <1>1, <1>2, <1>3, <1>4, RecordKeepsOrder
<1>7. ASSUME NEW p \in Orders, p # o
      PROVE  (ReportedOnce(p) => Orderly(p))'
  <2>1. \A t \in CallsOf(p), l \in Reports : jobs'[<<t, l>>] = jobs[<<t, l>>]
    <3>1. s \notin CallsOf(p) /\ CallsOf(p) \subseteq Sids
      BY <1>2, <1>7 DEF CallsOf
    <3>2. \A t \in Sids, l \in Reports :
              <<t, l>> # <<s, k>> => jobs'[<<t, l>>] = jobs[<<t, l>>]
      BY <1>0, <1>1, JobMoves
    <3>3. QED
      BY <3>1, <3>2
  <2>2. order_chains'[p] = order_chains[p]
    BY <1>1
  <2>3. QED
    BY <1>1, <1>4, <1>7, <2>1, <2>2, RecordedElsewhere
<1>8. QED
  BY <1>5, <1>6, <1>7 DEF AllOrderly

\* A client's call opens its own order only, and orderly.
LEMMA OrderKeepsOrders ==
    ASSUME OnceInv, NEW o \in Orders, NEW v \in Vendors, NEW c \in Categories,
           NEW n \in Sids, CallVendor(o, v, c, n)
    PROVE  JobsInv' /\ AllOrderly'
<1>0. LocalInv
  BY DEF OnceInv
<1>1. /\ Recorded(o, v, n) /\ line[n] # "over" /\ UNCHANGED <<jobs, answer>>
      /\ call_metadata_store[n] = NoMeta
  BY DEF CallVendor, Recorded, OnceInv, LocalInv, CallsInv
<1>2. /\ CallsOf(o) = {} /\ order_chains'[o].attempt = 1
      /\ order_chains'[o].tried = <<v>> /\ order_chains'[o].current = n
  BY <1>0, Types DEF CallVendor, LocalInv, CountInv, CountFor
<1>3. CallsOf(o)' = {n} /\ call_metadata_store'[n].vendor = v
  <2>1. /\ n \notin CallsOf(o)
        /\ CallsOf(o)' = CallsOf(o) \cup {n}
        /\ \A p \in Orders \ {o} : CallsOf(p)' = CallsOf(p)
        /\ call_metadata_store'[n] = [order |-> o, vendor |-> v]
        /\ \A t \in Sids : t # n =>
              call_metadata_store'[t] = call_metadata_store[t]
        /\ call_metadata_store' \in
              [Sids -> [order : Orders \cup {NoOrder},
                        vendor : Vendors \cup {NoVendor}]]
    BY <1>0, <1>1, RecordedForOrder
  <2>2. QED
    BY <1>2, <2>1
<1>4. \A l \in Reports : jobs'[<<n, l>>].at = "none"
  BY <1>1, FreshCall
<1>5. Orderly(o)'
  <2>1. 1 \in 1..Len(<<v>>) /\ <<v>>[1] = v /\ Len(<<v>>) = 1
    OBVIOUS
  <2>2. VendorsListed(o)' /\ LastNamed(o)'
    BY <1>2, <1>3, <2>1 DEF VendorsListed, LastNamed
  <2>3. VendorsDiffer(o)' /\ LastIsAtWork(o)'
    BY <1>3, <1>4 DEF VendorsDiffer, LastIsAtWork, JobFits, Holding, Entering
  <2>4. QED
    BY <1>2, <2>2, <2>3, LocalAssumption DEF Orderly
<1>6. ASSUME NEW p \in Orders, p # o
      PROVE  (ReportedOnce(p) => Orderly(p))'
  <2>1. order_chains'[p] = order_chains[p]
    BY <1>0, <1>6, Types DEF CallVendor
  <2>2. QED
    BY <1>1, <1>6, <2>1, RecordedElsewhere
<1>7. JobsInv'
  BY <1>1 DEF OnceInv, JobsInv
<1>8. QED
  BY <1>5, <1>6, <1>7 DEF AllOrderly

\* The end of a call takes back no answer.
LEMMA EndKeepsOrders ==
    ASSUME OnceInv, NEW s \in Sids, Ends(s)
    PROVE  JobsInv' /\ AllOrderly'
<1>1. /\ line[s] = "ringing"
      /\ UNCHANGED <<call_metadata_store, order_chains, jobs>>
      /\ \A t \in Sids : t # s => answer'[t] = answer[t]
  BY DEF Ends, NoAnswer, CallEnds, OnceInv, LocalInv, TypeOK
<1>2. answer[s] = NoTranscript /\ \A l \in Reports : jobs[<<s, l>>].at = "none"
  BY <1>1 DEF OnceInv, LocalInv, CallsInv
<1>3. ASSUME NEW o \in Orders
      PROVE  Untouched(o)
  <2>1. CallsOf(o)' = CallsOf(o) /\ CallsOf(o) \subseteq Sids
    BY <1>1 DEF CallsOf
  <2>2. \A t \in Sids : answer[t].decision = "NO" => answer'[t] = answer[t]
    BY <1>1, <1>2 DEF NoTranscript
  <2>3. QED
    BY <1>1, <2>1, <2>2 DEF Untouched
<1>4. JobsInv'
  BY <1>1, <1>2 DEF OnceInv, JobsInv, Working, Holding, Entering
<1>5. QED
  BY <1>3, <1>4, UntouchedKeeps DEF AllOrderly

-----------------------------------------------------------------------------
(******************************************************************************)
(* The steps that leave the chains alone.                                     *)
(******************************************************************************)

\* A job moves without writing, and what it found out still holds.
WorksTo(s, k, job) ==
    /\ jobs' = [jobs EXCEPT ![<<s, k>>] = job]
    /\ UNCHANGED <<call_metadata_store, order_chains, answer>>
    /\ jobs[<<s, k>>].at \notin {"done"} \cup Entering /\ job.at # "none"
    /\ job.at \in Working => answer[s].decision = "NO"
    /\ \A o \in Orders : s \in CallsOf(o) /\ Orderly(o) => JobFits(o, job)

LEMMA WorkKeepsOrders ==
    ASSUME OnceInv, NEW s \in Sids, NEW k \in Reports, NEW job \in Job,
           WorksTo(s, k, job)
    PROVE  JobsInv' /\ AllOrderly'
<1>1. JobsInv'
  BY MoveKeepsJobs DEF WorksTo
<1>2. ASSUME NEW o \in Orders
      PROVE  JobGoes(o, s, k, job)
  <2>1. /\ jobs' = [jobs EXCEPT ![<<s, k>>] = job]
        /\ jobs[<<s, k>>].at # "done" /\ jobs[<<s, k>>].at \notin Entering
        /\ job.at # "none"
        /\ UNCHANGED <<call_metadata_store, order_chains, answer>>
        /\ CallsOf(o)' = CallsOf(o)
    BY DEF WorksTo, CallsOf
  <2>2. ASSUME s \in CallsOf(o), ReportedOnce(o)
        PROVE  /\ order_chains'[o].attempt <= MaxAttempts
               /\ VendorsListed(o)' /\ JobFits(o, job)' /\ LastNamed(o)'
    <3>1. Orderly(o)
      BY <2>2 DEF OnceInv, AllOrderly
    <3>2. JobFits(o, job)
      BY <2>2, <3>1 DEF WorksTo
    <3>3. JobFits(o, job)' /\ VendorsListed(o)'
      BY <2>1, <3>1, <3>2 DEF JobFits, Orderly, VendorsListed
    <3>4. LastNamed(o)'
      BY <2>1, <3>1, NamedKept DEF Orderly
    <3>5. QED
      BY <2>1, <3>1, <3>3, <3>4 DEF Orderly
  <2>3. QED
    BY <2>1, <2>2 DEF JobGoes
<1>3. QED
  BY <1>1, <1>2, MoveKeepsOrder DEF AllOrderly

\* A report is filed, or its decision is handled.
LEMMA ReportWorks ==
    ASSUME OnceInv, NEW s \in Sids, NEW k \in Reports,
           StoreTranscript(s, k) \/ HandleDecision(s, k)
    PROVE  \E job \in Job : WorksTo(s, k, job)
<1>1. /\ jobs \in [Sids \X Reports -> Job] /\ jobs[<<s, k>>] \in Job
      /\ UNCHANGED <<call_metadata_store, order_chains, answer>>
  BY Types DEF OnceInv, StoreTranscript, HandleDecision
<1>2. PICK at \in {"filed", "pausing", "done"} :
          /\ jobs' = [jobs EXCEPT ![<<s, k>>].at = at]
          /\ jobs[<<s, k>>].at \in {"none", "filed"}
          /\ at = "pausing" => answer[s].decision = "NO"
  BY DEF StoreTranscript, HandleDecision
<1>3. PICK job : job = [jobs[<<s, k>>] EXCEPT !.at = at]
  OBVIOUS
<1>4. job \in Job /\ job.at = at
  BY <1>1, <1>2, <1>3 DEF Job
<1>5. jobs' = [jobs EXCEPT ![<<s, k>>] = job]
  BY <1>1, <1>2, <1>3
<1>6. \A o \in Orders : JobFits(o, job)
  BY <1>4 DEF JobFits, Holding, Entering
<1>7. QED
  BY <1>1, <1>2, <1>4, <1>5, <1>6 DEF Working, Holding, Entering, WorksTo

\* The thread compares the attempts again.
LEMMA CheckWorks ==
    ASSUME OnceInv, NEW s \in Sids, NEW k \in Reports, CheckAttempts(s, k)
    PROVE  \E job \in Job : WorksTo(s, k, job)
<1>1. PICK job \in {Finished, [NoJob EXCEPT !.at = "looking"]} :
          /\ Moves(s, k, job) /\ jobs[<<s, k>>].at = "pausing"
          /\ job.at = "looking" => ~Exhausted(call_metadata_store[s].order)
  BY DEF CheckAttempts, Finished, NoJob
<1>2. job \in Job /\ job.at \in {"done", "looking"}
  BY DEF Job, Finished, NoJob
<1>3. \A o \in Orders : s \in CallsOf(o) => JobFits(o, job)
  <2>1. \A o \in Orders : order_chains[o].attempt \in Nat
    BY DEF OnceInv, LocalInv, TypeOK
  <2>2. QED
    BY <1>1, <1>2, <2>1, LocalAssumption
    DEF JobFits, CallsOf, Exhausted, Holding, Entering
<1>4. answer[s].decision = "NO"
  BY <1>1 DEF OnceInv, JobsInv, Working
<1>5. UNCHANGED <<call_metadata_store, order_chains, answer>>
  BY DEF CheckAttempts, Moves
<1>6. QED
  BY <1>1, <1>2, <1>3, <1>4, <1>5 DEF Moves, WorksTo, Entering

\* The thread finds a vendor that the chain does not list, or none.
LEMMA FindWorks ==
    ASSUME OnceInv, NEW s \in Sids, NEW k \in Reports, FindAlternative(s, k)
    PROVE  \E job \in Job : WorksTo(s, k, job)
<1>1. /\ LocalInv /\ jobs[<<s, k>>].at = "looking"
      /\ UNCHANGED <<call_metadata_store, order_chains, answer>>
  BY DEF OnceInv, FindAlternative, Moves
<1>2. answer[s].decision = "NO"
  BY <1>1 DEF OnceInv, JobsInv, Working
<1>3. PICK p \in Orders : p = call_metadata_store[s].order
  BY <1>1 DEF LocalInv, ThreadsInv, Working, HasChain
<1>4. CASE Moves(s, k, Finished)
  <2>1. Finished \in Job /\ Finished.at = "done"
        /\ \A o \in Orders : JobFits(o, Finished)
    BY DEF Finished, NoJob, Job, JobFits, Holding, Entering
  <2>2. Finished.at \notin Working
    BY <2>1 DEF Working, Holding, Entering
  <2>3. QED
    BY <1>1, <1>4, <2>1, <2>2 DEF Moves, WorksTo, Entering
<1>5. ASSUME NEW v \in Alternatives(p),
             Moves(s, k, [at |-> "calling", alt |-> v, sid |-> NoCall])
      PROVE  \E job \in Job : WorksTo(s, k, job)
  <2>1. /\ v \in Vendors
        /\ \A i \in DOMAIN order_chains[p].tried : order_chains[p].tried[i] # v
    <3>1. order_chains[p].category \in Categories \cup {NoCategory}
      BY <1>1 DEF LocalInv, TypeOK
    <3>2. QED
      BY <3>1, LocalAssumption DEF Alternatives
  <2>2. PICK job : job = [at |-> "calling", alt |-> v, sid |-> NoCall]
    OBVIOUS
  <2>3. job \in Job /\ job.at = "calling" /\ job.alt = v
    BY <2>1, <2>2 DEF Job
  <2>4. ASSUME NEW o \in Orders, s \in CallsOf(o), Orderly(o)
        PROVE  JobFits(o, job)
    <3>1. p = o
      BY <1>3, <2>4 DEF CallsOf
    <3>2. order_chains[o].attempt < MaxAttempts
      BY <1>1, <2>4 DEF Orderly, LastIsAtWork, JobFits
    <3>3. \A t \in CallsOf(o) : call_metadata_store[t].vendor # v
      <4>1. DOMAIN order_chains[o].tried = 1..Len(order_chains[o].tried)
        BY <1>1 DEF LocalInv, TypeOK
      <4>2. QED
        BY <2>1, <2>4, <3>1, <4>1 DEF Orderly, VendorsListed
    <3>4. QED
      BY <2>3, <3>2, <3>3 DEF JobFits
  <2>5. jobs' = [jobs EXCEPT ![<<s, k>>] = job]
    BY <1>5, <2>2 DEF Moves
  <2>6. QED
    BY <1>1, <1>2, <2>3, <2>4, <2>5 DEF WorksTo, Entering
<1>6. QED
  BY <1>3, <1>4, <1>5 DEF FindAlternative

\* Twilio places the call of the thread, or refuses it.
LEMMA DialWorks ==
    ASSUME OnceInv, NEW s \in Sids, NEW k \in Reports, NEW n \in Sids,
           CallNext(s, k, n)
    PROVE  \E job \in Job : WorksTo(s, k, job)
<1>1. /\ LocalInv /\ jobs[<<s, k>>].at = "calling"
      /\ UNCHANGED <<call_metadata_store, order_chains, answer>>
  BY DEF OnceInv, CallNext, Moves
<1>2. answer[s].decision = "NO"
  BY <1>1 DEF OnceInv, JobsInv, Working
<1>3. CASE Moves(s, k, Finished)
  <2>1. Finished \in Job /\ Finished.at = "done"
        /\ \A o \in Orders : JobFits(o, Finished)
    BY DEF Finished, NoJob, Job, JobFits, Holding, Entering
  <2>2. Finished.at \notin Working
    BY <2>1 DEF Working, Holding, Entering
  <2>3. QED
    BY <1>1, <1>3, <2>1, <2>2 DEF Moves, WorksTo, Entering
<1>4. CASE Moves(s, k, [jobs[<<s, k>>] EXCEPT !.at = "counting", !.sid = n])
  <2>1. PICK old \in Job : old = jobs[<<s, k>>]
    BY <1>1, Types
  <2>2. PICK job : job = [old EXCEPT !.at = "counting", !.sid = n]
    OBVIOUS
  <2>3. job \in Job /\ job.at = "counting" /\ job.alt = old.alt
    BY <2>2 DEF Job
  <2>4. jobs' = [jobs EXCEPT ![<<s, k>>] = job]
    BY <1>4, <2>1, <2>2 DEF Moves
  <2>5. ASSUME NEW o \in Orders, s \in CallsOf(o), Orderly(o)
        PROVE  JobFits(o, job)
    <3>1. JobFits(o, old)
      BY <2>1, <2>5 DEF Orderly, LastIsAtWork
    <3>2. QED
      BY <1>1, <2>1, <2>3, <3>1 DEF JobFits
  <2>6. QED
    BY <1>1, <1>2, <2>3, <2>4, <2>5 DEF WorksTo, Entering
<1>5. QED
  BY <1>3, <1>4 DEF CallNext

-----------------------------------------------------------------------------
\* Every step keeps the fallback of every order orderly.
LEMMA OnceSteps ==
    ASSUME OnceInv, [Next]_vars
    PROVE  OnceInv'
<1>1. LocalInv'
  BY LocalStep DEF OnceInv
<1>2. ASSUME UNCHANGED <<call_metadata_store, order_chains, jobs, answer>>
      PROVE  JobsInv' /\ AllOrderly'
  <2>1. ASSUME NEW p \in Orders
        PROVE  Untouched(p)
    <3>1. CallsOf(p)' = CallsOf(p)
      BY <1>2 DEF CallsOf
    <3>2. QED
      BY <1>2, <3>1 DEF Untouched
  <2>2. JobsInv'
    BY <1>2 DEF OnceInv, JobsInv
  <2>3. QED
    BY <2>1, <2>2, UntouchedKeeps DEF AllOrderly
<1>3. UNCHANGED vars \/ (\E o \in Orders : DashboardPolls(o)) =>
          UNCHANGED <<call_metadata_store, order_chains, jobs, answer>>
  BY DEF vars, DashboardPolls, GetTranscript
<1>4. ASSUME NEW s \in Sids, NEW k \in Reports,
             StoreTranscript(s, k) \/ Proceeds(s, k)
      PROVE  JobsInv' /\ AllOrderly'
  <2>1. CASE \E job \in Job : WorksTo(s, k, job)
    BY <2>1, WorkKeepsOrders
  <2>2. QED
    BY <1>4, <2>1, ReportWorks, CheckWorks, FindWorks, DialWorks,
       CountKeepsOrders, ListKeepsOrders, PointKeepsOrders, RecordKeepsOrders
    DEF Proceeds
<1>5. JobsInv' /\ AllOrderly'
  BY <1>2, <1>3, <1>4, OrderKeepsOrders, EndKeepsOrders DEF Next
<1>6. QED
  BY <1>1, <1>5 DEF OnceInv

LEMMA OnceInit ==
    ASSUME Init
    PROVE  OnceInv
<1>1. LocalInv
  BY LocalInit
<1>2. JobsInv
  BY DEF Init, JobsInv, NoJob, Working, Holding, Entering
<1>3. ASSUME NEW o \in Orders
      PROVE  Orderly(o)
  <2>1. CallsOf(o) = {} /\ order_chains[o].attempt = 0
    BY LocalAssumption DEF Init, CallsOf, NoChain, NoMeta
  <2>2. QED
    BY <2>1, LocalAssumption
    DEF Orderly, VendorsDiffer, VendorsListed, LastIsAtWork, LastNamed, HasChain
<1>4. QED
  BY <1>1, <1>2, <1>3 DEF OnceInv, AllOrderly

LEMMA OnceInvariant == Spec => []OnceInv
BY OnceInit, OnceSteps, PTL DEF Spec

\* The chain counts the calls that were placed for its order and lists their
\* vendors, also when reports are repeated and threads race between the writes
\* of the update; it names one of the order's calls, and between updates, as
\* long as no report is repeated, the call of the vendor it lists last.
THEOREM CallsAreCounted == Spec => []ChainCountsCalls
<1>1. OnceInv => ChainCountsCalls
  <2> SUFFICES ASSUME OnceInv, NEW o \in Orders, HasChain(o)
               PROVE  LET c == order_chains[o]
                      IN  /\ c.attempt = Len(c.tried)
                                + Cardinality(Between(o, {"listing"}))
                          /\ Len(c.tried) = Cardinality(CallsOf(o))
                                + Cardinality(Between(o, {"pointing", "recording"}))
                          /\ \/ c.current \in CallsOf(o)
                             \/ \E j \in Between(o, {"recording"}) :
                                   c.current = jobs[j].sid
                          /\ /\ ReportedOnce(o)
                             /\ Between(o, {"listing", "pointing", "recording"}) = {}
                             => call_metadata_store[c.current] =
                                   [order |-> o, vendor |-> c.tried[Len(c.tried)]]
    BY DEF ChainCountsCalls
  <2> DEFINE c == order_chains[o]
  <2>1. CountsCalls(o)
    BY DEF OnceInv, LocalInv, CountInv, CountFor
  <2>2. ASSUME ReportedOnce(o),
               Between(o, {"listing", "pointing", "recording"}) = {}
        PROVE  call_metadata_store[c.current] =
                  [order |-> o, vendor |-> c.tried[Len(c.tried)]]
    <3>1. \A s \in CallsOf(o), k \in Reports : jobs[<<s, k>>].at \notin Entering
      <4>1. ASSUME NEW s \in CallsOf(o), NEW k \in Reports,
                   jobs[<<s, k>>].at \in Entering
            PROVE  FALSE
        <5>1. /\ <<s, k>> \in Sids \X Reports /\ <<s, k>>[1] = s
              /\ call_metadata_store[s].order = o
          BY DEF CallsOf
        <5>2. <<s, k>> \in Between(o, {"listing", "pointing", "recording"})
          BY <4>1, <5>1 DEF Between, Entering
        <5>3. QED
          BY <2>2, <5>2
      <4>2. QED
        BY <4>1
    <3>2. /\ c.current \in CallsOf(o)
          /\ call_metadata_store[c.current].vendor = c.tried[Len(c.tried)]
      BY <2>2, <3>1 DEF OnceInv, AllOrderly, Orderly, LastNamed
    <3>3. /\ call_metadata_store[c.current].order = o
          /\ call_metadata_store[c.current] \in
                [order : Orders \cup {NoOrder}, vendor : Vendors \cup {NoVendor}]
      BY <3>2, Types DEF OnceInv, CallsOf
    <3>4. QED
      BY <3>2, <3>3
  <2>3. QED
    BY <2>1, <2>2 DEF CountsCalls, CurrentKnown, Unlisted, Unrecorded
<1>2. QED
  BY <1>1, OnceInvariant, PTL

\* An order whose calls are reported once each is offered to different vendors,
\* at most max_attempts of them, and to the next one only after a NO, however
\* the threads of this and of other orders interleave and whatever is reported
\* twice of other orders.
THEOREM OnceReportedIsOrderly == Spec => []FallbackIsOrderly
<1>1. OnceInv => FallbackIsOrderly
  <2> SUFFICES ASSUME OnceInv, NEW o \in Orders, ReportedOnce(o)
               PROVE  /\ Bounded(o)
                      /\ VendorsDiffer(o)
                      /\ Cardinality(CallsOf(o)) <= 1 + Cardinality(Declines(o))
    BY DEF FallbackIsOrderly
  <2>1. Orderly(o)
    BY DEF OnceInv, AllOrderly
  <2>2. CASE HasChain(o)
    <3>1. PICK c \in Chain : c = order_chains[o]
      BY Types DEF OnceInv
    <3>2. /\ IsFiniteSet(CallsOf(o)) /\ IsFiniteSet(Unlisted(o))
          /\ IsFiniteSet(Unrecorded(o))
          /\ c.attempt = Len(c.tried) + Cardinality(Unlisted(o))
          /\ Len(c.tried) = Cardinality(CallsOf(o)) + Cardinality(Unrecorded(o))
      BY <2>2, <3>1 DEF OnceInv, LocalInv, CountInv, CountFor, CountsCalls
    <3>3. /\ Cardinality(CallsOf(o)) \in Nat /\ Cardinality(Unlisted(o)) \in Nat
          /\ Cardinality(Unrecorded(o)) \in Nat
      BY <3>2, FS_CardinalityType
    <3>4. Bounded(o)
      <4>1. c.attempt <= MaxAttempts
        BY <2>1, <3>1 DEF Orderly
      <4>2. QED
        BY <3>2, <3>3, <4>1, LocalAssumption DEF Bounded
    <3>5. \E s : CallsOf(o) \subseteq Declines(o) \cup {s}
      <4>1. CASE \A s \in CallsOf(o) : Retired(s)
        BY <4>1 DEF Retired, Declines
      <4>2. ASSUME NEW s \in CallsOf(o), ~Retired(s)
            PROVE  CallsOf(o) \subseteq Declines(o) \cup {s}
        BY <2>1, <4>2 DEF Orderly, LastIsAtWork, Retired, Declines
      <4>3. QED
        BY <4>1, <4>2
    <3>6. PICK s : CallsOf(o) \subseteq Declines(o) \cup {s}
      BY <3>5
    <3>7. IsFiniteSet(Declines(o))
      <4>1. Declines(o) \subseteq CallsOf(o)
        BY DEF Declines
      <4>2. QED
        BY <3>2, <4>1, FS_Subset
    <3>8. /\ IsFiniteSet(Declines(o) \cup {s})
          /\ \/ Cardinality(Declines(o) \cup {s}) = Cardinality(Declines(o))
             \/ Cardinality(Declines(o) \cup {s}) = Cardinality(Declines(o)) + 1
      BY <3>7, FS_AddElement
    <3>9. Cardinality(CallsOf(o)) <= Cardinality(Declines(o) \cup {s})
      BY <3>6, <3>8, FS_Subset
    <3>10. Cardinality(Declines(o)) \in Nat
      BY <3>7, FS_CardinalityType
    <3>11. Cardinality(CallsOf(o)) <= 1 + Cardinality(Declines(o))
      BY <3>3, <3>8, <3>9, <3>10
    <3>12. QED
      BY <2>1, <3>4, <3>11 DEF Orderly
  <2>3. CASE ~HasChain(o)
    <3>1. CallsOf(o) = {}
      BY <2>3 DEF OnceInv, LocalInv, CountInv, CountFor
    <3>2. Declines(o) = {}
      BY <3>1 DEF Declines
    <3>3. QED
      BY <3>1, <3>2, FS_EmptySet, LocalAssumption DEF Bounded, VendorsDiffer
  <2>4. QED
    BY <2>2, <2>3
<1>2. QED
  BY <1>1, OnceInvariant, PTL
=============================================================================
