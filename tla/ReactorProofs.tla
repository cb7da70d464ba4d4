----------------------------- MODULE ReactorProofs -----------------------------
(***************************************************************************)
(* Proofs about the event loops: table and epoll agree, and no answer is    *)
(* lost, for every number of clients and fds, all sizes and all programs.   *)
(***************************************************************************)
EXTENDS Reactor, FiniteSetTheorems, WellFoundedInduction, TLAPS

-----------------------------------------------------------------------------
(* The inductive invariant                                                 *)

Entries ==
  [reg : {"closed", "none", "in", "out"}, status : BOOLEAN, want : {"in", "out"},
   held : Nat, machine : {"handshake", "transmission", "end"}]

LoopTypes ==
  /\ prog \in {"plain", "mulcb", "singecb", "c1000k", "http", "websocket"}
  /\ entry \in [ConnFds -> Entries]
  /\ round \in SUBSET (ConnFds \cup {Listener})
  /\ at \in ConnFds \cup {NULL}
  /\ phase \in {"poll", "round", "read", "write", "killed", "returned"}
  /\ done \in Nat

KernelTypes ==
  /\ file \in [ConnFds -> Clients \cup {NULL}]
  /\ peer \in [Clients ->
       {"new", "backlog", "open", "shut", "reset", "gone", "dropped"}]
  /\ err \in [Clients -> BOOLEAN]
  /\ input \in [Clients -> Nat]
  /\ output \in [Clients -> Nat]
  /\ sent \in [Clients -> Nat]
  /\ got \in [Clients -> Nat]
  /\ fdlimit \in FdLimits

Accepted(c) == peer[c] \in {"open", "shut"}

\* An fd has its client alone, from accept to close.
Files ==
  /\ \A f \in ConnFds : file[f] # NULL => peer[file[f]] \in {"open", "shut", "reset"}
  /\ \A f, g \in ConnFds : f # g /\ file[f] # NULL => file[f] # file[g]
  /\ \A c \in Clients : Accepted(c) => \E f \in ConnFds : file[f] = c

\* The callback that runs, and those of this round that are to come, have a
\* connection: no fd is closed but by its own callback.
Callbacks ==
  /\ at # NULL <=> phase \in {"read", "write", "killed"}
  /\ at # NULL => file[at] # NULL
  /\ \A f \in round : f # Listener => file[f] # NULL /\ f # at
  /\ phase = "poll" => round = {}

\* The table entry of f and what epoll knows of it.
EntryMatches(f) ==
  /\ entry[f].reg = "closed" <=> file[f] = NULL
  /\ file[f] # NULL => entry[f].status /\ entry[f].reg = entry[f].want
  /\ file[f] = NULL => ~entry[f].status \/ prog = "websocket"

\* Nothing is received into a buffer that holds something, the websocket
\* server's loop around recv excepted.
Buffers ==
  /\ \A f \in ConnFds : file[f] = NULL => entry[f].held = 0
  /\ \A f \in ConnFds : f # at /\ entry[f].want = "in" => entry[f].held = 0
  /\ phase = "read" /\ prog # "websocket" => entry[at].held = 0
  /\ phase \notin {"write", "killed"} => done = 0
  /\ at # NULL => done <= entry[at].held

Holds(f) == entry[f].held - (IF f = at THEN done ELSE 0)

Answers(f) ==
  Reliable(file[f]) /\ Accepted(file[f]) =>
    sent[file[f]] = input[file[f]] + output[file[f]] + got[file[f]] + Holds(f)

Bytes ==
  /\ \A c \in Clients : peer[c] \in {"new", "backlog"} =>
       sent[c] = input[c] /\ output[c] = 0 /\ got[c] = 0
  /\ \A f \in ConnFds : file[f] # NULL => Answers(f)
  /\ \A c \in Clients \cap Polite : sent[c] <= got[c] + SendBuffer

ReactorInv ==
  /\ LoopTypes /\ KernelTypes /\ Files /\ Callbacks
  /\ \A f \in ConnFds : EntryMatches(f)
  /\ Buffers /\ Bytes

-----------------------------------------------------------------------------
(* Entries                                                                 *)

LEMMA AddedEntry ==
  ASSUME NEW e \in Entries, NEW want \in {"in", "out"}
  PROVE  /\ Added(e, want) \in Entries
         /\ Added(e, want).status /\ Added(e, want).want = want
         /\ Added(e, want).held = e.held
         /\ e.reg = "closed" => Added(e, want).reg = "closed"
         /\ e.reg = "none" /\ ~e.status => Added(e, want).reg = want
         /\ e.reg = e.want /\ e.status => Added(e, want).reg = want
<1>1. PICK r : r = IF e.status = (e.reg \in {"in", "out"}) /\ e.reg # "closed"
                   THEN want ELSE e.reg
  OBVIOUS
<1>2. Added(e, want) = [e EXCEPT !.status = TRUE, !.want = want, !.reg = r]
  BY <1>1 DEF Added
<1>3. r \in {"closed", "none", "in", "out"}
  BY <1>1 DEF Entries
<1>4. /\ Added(e, want) \in Entries
      /\ Added(e, want).status /\ Added(e, want).want = want
      /\ Added(e, want).held = e.held /\ Added(e, want).reg = r
  BY <1>2, <1>3 DEF Entries
<1>5. e.reg = "closed" => r = "closed"
  BY <1>1
<1>6. e.reg = "none" /\ ~e.status => r = want
  <2>1. e.status \in BOOLEAN
    BY DEF Entries
  <2> QED BY <1>1, <2>1
<1>7. e.reg = e.want /\ e.status => r = want
  <2>1. e.status \in BOOLEAN /\ e.want \in {"in", "out"}
    BY DEF Entries
  <2> QED BY <1>1, <2>1
<1> QED BY <1>4, <1>5, <1>6, <1>7

LEMMA DeletedEntry ==
  ASSUME NEW e \in Entries
  PROVE  /\ Deleted(e) \in Entries
         /\ ~Deleted(e).status /\ Deleted(e).want = e.want /\ Deleted(e).held = e.held
         /\ e.reg = "closed" => Deleted(e).reg = "closed"
         /\ e.reg # "closed" /\ e.status => Deleted(e).reg = "none"
  BY DEF Entries, Deleted

LEMMA ClosedEntry ==
  ASSUME NEW e \in Entries
  PROVE  /\ Closed(e) \in Entries
         /\ Closed(e).reg = "closed" /\ Closed(e).status = e.status
         /\ Closed(e).want = e.want /\ Closed(e).held = e.held
  BY DEF Entries, Closed

LEMMA HoldingEntry ==
  ASSUME NEW e \in Entries, NEW n \in Nat
  PROVE  LET h == [e EXCEPT !.held = n] IN
         /\ h \in Entries /\ h.held = n
         /\ h.status = e.status /\ h.reg = e.reg /\ h.want = e.want
  BY DEF Entries

LEMMA RearmedEntry ==
  ASSUME NEW e \in Entries, e.status, e.reg = e.want, NEW want \in {"in", "out"}
  PROVE  /\ Rearmed(e, want) \in Entries
         /\ Rearmed(e, want).status
         /\ Rearmed(e, want).want = want /\ Rearmed(e, want).reg = want
         /\ Rearmed(e, want).held = e.held
<1>1. e.reg # "closed"
  BY DEF Entries
<1>2. CASE Family
  <2>1. Deleted(e) \in Entries /\ ~Deleted(e).status /\ Deleted(e).reg = "none"
        /\ Deleted(e).held = e.held
    BY <1>1, DeletedEntry
  <2>2. Rearmed(e, want) = Added(Deleted(e), want)
    BY <1>2 DEF Rearmed
  <2> QED BY <2>1, <2>2, AddedEntry
<1>3. CASE ~Family
  BY <1>3, AddedEntry DEF Rearmed
<1> QED BY <1>2, <1>3

LEMMA OneEntry ==
  ASSUME LoopTypes, NEW f \in ConnFds, NEW e \in Entries,
         entry' = [entry EXCEPT ![f] = e]
  PROVE  /\ entry' \in [ConnFds -> Entries]
         /\ \A g \in ConnFds : entry'[g] = IF g = f THEN e ELSE entry[g]
  BY DEF LoopTypes

-----------------------------------------------------------------------------
(* File descriptors                                                        *)

LEMMA LeastNumber ==
  ASSUME NEW T \in SUBSET Nat, T # {}
  PROVE  \E x \in T : \A y \in T : x <= y
<1>1. IsWellFoundedOn(OpToRel(<, Nat), Nat)
  BY NatLessThanWellFounded
<1>2. PICK x \in T : \A y \in T : ~(<<y, x>> \in OpToRel(<, Nat))
  BY <1>1, WFMin
<1>3. \A y \in T : <<y, x>> \in OpToRel(<, Nat) <=> y < x
  BY DEF OpToRel
<1>4. \A y \in T : ~(y < x)
  BY <1>2, <1>3, Zenon
<1>5. \A y \in T : x <= y
  BY <1>4
<1> QED BY <1>5

\* Below the limit there is an fd to give.
LEMMA LowestIsFree ==
  ASSUME KernelTypes, Cardinality(OpenFds) < fdlimit
  PROVE  LowestFd \in ConnFds /\ file[LowestFd] = NULL
<1>1. OpenFds \subseteq ConnFds
  BY DEF OpenFds
<1>2. ConnFds \ OpenFds # {}
  <2> SUFFICES ASSUME ConnFds \ OpenFds = {} PROVE FALSE
    OBVIOUS
  <2>1. OpenFds = ConnFds
    BY <1>1
  <2>2. fdlimit \in 0 .. Cardinality(ConnFds) /\ Cardinality(ConnFds) \in Nat
    BY ReactorAssumption, FS_CardinalityType DEF KernelTypes
  <2> QED BY <2>1, <2>2
<1>3. ConnFds \ OpenFds \in SUBSET Nat
  BY ReactorAssumption
<1>4. \E f \in ConnFds \ OpenFds : \A g \in ConnFds \ OpenFds : f <= g
  BY <1>2, <1>3, LeastNumber
<1>5. LowestFd \in ConnFds \ OpenFds
  BY <1>4 DEF LowestFd
<1> QED BY <1>5 DEF OpenFds

-----------------------------------------------------------------------------
(* What steps of a kind keep                                               *)

\* A callback goes on, or comes to its end, with its connection open.
LEMMA CallbackKeeps ==
  ASSUME ReactorInv, at # NULL,
         NEW e \in Entries, entry' = [entry EXCEPT ![at] = e],
         e.status, e.reg = e.want,
         UNCHANGED <<prog, round, file, peer, sent, got, fdlimit>>,
         err' \in [Clients -> BOOLEAN],
         NEW i \in Nat, input' = [input EXCEPT ![file[at]] = i],
         NEW o \in Nat, output' = [output EXCEPT ![file[at]] = o],
         \/ /\ at' = NULL /\ phase' = "round" /\ done' = 0
            /\ e.want = "in" => e.held = 0
         \/ /\ at' = at /\ phase' \in {"read", "write"}
            /\ done' \in Nat /\ done' <= e.held
            /\ phase' = "read" => done' = 0 /\ (prog = "websocket" \/ e.held = 0),
         Reliable(file[at]) /\ Accepted(file[at]) =>
           i + o + (e.held - done')
             = input[file[at]] + output[file[at]] + (entry[at].held - done)
  PROVE  ReactorInv'
<1> DEFINE c == file[at]
<1>1. /\ at \in ConnFds /\ file[at] # NULL /\ c \in Clients
      /\ LoopTypes /\ KernelTypes /\ NULL \notin ConnFds
      /\ peer[c] \in {"open", "shut", "reset"}
  BY ReactorAssumption DEF ReactorInv, LoopTypes, KernelTypes, Callbacks, Files
<1>2. /\ entry' \in [ConnFds -> Entries]
      /\ \A g \in ConnFds : entry'[g] = IF g = at THEN e ELSE entry[g]
  BY <1>1, OneEntry
<1>3. /\ \A d \in Clients : d # c => input'[d] = input[d] /\ output'[d] = output[d]
      /\ input'[c] = i /\ output'[c] = o
      /\ input' \in [Clients -> Nat] /\ output' \in [Clients -> Nat]
  BY <1>1 DEF KernelTypes
<1>4. LoopTypes' /\ KernelTypes'
  BY <1>1, <1>2, <1>3 DEF LoopTypes, KernelTypes
<1>5. Files'
  BY DEF ReactorInv, Files, Accepted
<1>6. Callbacks'
  <2>1. \A f \in round : f # Listener => f \in ConnFds
    BY <1>1 DEF LoopTypes
  <2> QED BY <1>1, <2>1 DEF ReactorInv, Callbacks
<1>7. \A f \in ConnFds : EntryMatches(f)'
  <2> SUFFICES ASSUME NEW f \in ConnFds PROVE EntryMatches(f)'
    OBVIOUS
  <2>1. CASE f # at
    BY <1>2, <2>1 DEF ReactorInv, EntryMatches
  <2>2. CASE f = at
    BY <1>1, <1>2, <2>2 DEF EntryMatches, Entries
  <2> QED BY <2>1, <2>2
<1>8. Buffers'
  <2>1. \A f \in ConnFds : file'[f] = NULL => entry'[f].held = 0
    BY <1>1, <1>2 DEF ReactorInv, Buffers
  <2>2. \A f \in ConnFds : f # at' /\ entry'[f].want = "in" => entry'[f].held = 0
    BY <1>1, <1>2 DEF ReactorInv, Buffers
  <2>3. /\ phase' = "read" /\ prog' # "websocket" => entry'[at'].held = 0
        /\ phase' \notin {"write", "killed"} => done' = 0
        /\ at' # NULL => done' <= entry'[at'].held
    BY <1>1, <1>2
  <2> QED BY <2>1, <2>2, <2>3 DEF Buffers
<1>9. Bytes'
  <2>1. ASSUME NEW d \in Clients, peer'[d] \in {"new", "backlog"}
        PROVE  sent'[d] = input'[d] /\ output'[d] = 0 /\ got'[d] = 0
    BY <1>1, <1>3, <2>1 DEF ReactorInv, Bytes
  <2>2. ASSUME NEW f \in ConnFds, file'[f] # NULL PROVE Answers(f)'
    <3> SUFFICES ASSUME Reliable(file[f]), Accepted(file[f])
                 PROVE  sent[file[f]] = input'[file[f]] + output'[file[f]]
                                        + got[file[f]] + Holds(f)'
      BY DEF Answers, Reliable, Accepted, Blocking
    <3>1. sent[file[f]] = input[file[f]] + output[file[f]] + got[file[f]] + Holds(f)
      BY <2>2 DEF ReactorInv, Bytes, Answers
    <3>2. CASE f = at
      <4>1. /\ Holds(f) = entry[at].held - done
            /\ Holds(f)' = e.held - done'
        BY <1>1, <1>2, <3>2 DEF Holds, Entries
      <4>2. /\ sent[c] \in Nat /\ got[c] \in Nat /\ input[c] \in Nat /\ output[c] \in Nat
            /\ entry[at].held \in Nat /\ done \in Nat /\ e.held \in Nat /\ done' \in Nat
        BY <1>1 DEF LoopTypes, KernelTypes, Entries
      <4> QED BY <1>3, <3>1, <3>2, <4>1, <4>2
    <3>3. CASE f # at
      <4>1. file[f] # c /\ file[f] \in Clients
        BY <1>1, <2>2, <3>3 DEF ReactorInv, Files, KernelTypes
      <4>2. Holds(f)' = Holds(f)
        BY <1>1, <1>2, <3>3 DEF Holds
      <4> QED BY <1>3, <3>1, <4>1, <4>2
    <3> QED BY <3>2, <3>3
  <2>3. \A d \in Clients \cap Polite : sent'[d] <= got'[d] + SendBuffer
    BY DEF ReactorInv, Bytes
  <2> QED BY <2>1, <2>2, <2>3 DEF Bytes
<1> QED BY <1>4, <1>5, <1>6, <1>7, <1>8, <1>9 DEF ReactorInv

\* The server closes f: by f's callback, or between two rounds.
LEMMA CloseKeeps ==
  ASSUME ReactorInv, NEW f \in ConnFds, file[f] # NULL,
         NEW e \in Entries, entry' = [entry EXCEPT ![f] = e],
         e.reg = "closed", ~e.status \/ prog = "websocket", e.held = 0,
         NEW how \in {"gone", "dropped"}, CloseFile(f, how),
         UNCHANGED <<prog, round, input, output, sent, got, fdlimit>>,
         \/ at = f /\ phase' = "round"
         \/ at = NULL /\ phase = "poll" /\ phase' = "poll",
         at' = NULL, done' = 0
  PROVE  ReactorInv'
<1> DEFINE c == file[f]
<1>1. /\ c \in Clients /\ LoopTypes /\ KernelTypes /\ NULL \notin ConnFds
      /\ peer[c] \in {"open", "shut", "reset"}
  BY ReactorAssumption DEF ReactorInv, LoopTypes, KernelTypes, Files
<1>2. /\ entry' \in [ConnFds -> Entries]
      /\ \A g \in ConnFds : entry'[g] = IF g = f THEN e ELSE entry[g]
  BY <1>1, OneEntry
<1>3. /\ file' \in [ConnFds -> Clients \cup {NULL}]
      /\ \A g \in ConnFds : file'[g] = IF g = f THEN NULL ELSE file[g]
      /\ \A d \in Clients : d # c => peer'[d] = peer[d]
      /\ peer'[c] \in {"reset", "gone", "dropped"}
      /\ peer' \in [Clients ->
           {"new", "backlog", "open", "shut", "reset", "gone", "dropped"}]
      /\ err' \in [Clients -> BOOLEAN]
  BY <1>1 DEF CloseFile, KernelTypes
<1>4. f \notin round
  BY ReactorAssumption DEF ReactorInv, Callbacks
<1>5. LoopTypes' /\ KernelTypes'
  BY <1>1, <1>2, <1>3 DEF LoopTypes, KernelTypes
<1>6. \A g \in ConnFds : g # f /\ file[g] # NULL => file[g] # c
  BY DEF ReactorInv, Files
<1>7. Files'
  <2>1. \A g \in ConnFds : file'[g] # NULL => peer'[file'[g]] \in {"open", "shut", "reset"}
    BY <1>1, <1>3, <1>6 DEF ReactorInv, Files, KernelTypes
  <2>2. \A g, h \in ConnFds : g # h /\ file'[g] # NULL => file'[g] # file'[h]
    BY <1>3 DEF ReactorInv, Files
  <2>3. ASSUME NEW d \in Clients, Accepted(d)' PROVE \E g \in ConnFds : file'[g] = d
    <3>1. d # c /\ Accepted(d)
      BY <1>3, <2>3 DEF Accepted
    <3>2. PICK g \in ConnFds : file[g] = d
      BY <3>1 DEF ReactorInv, Files
    <3>3. file'[g] = d
      BY <1>3, <3>1, <3>2
    <3> QED BY <3>3
  <2> QED BY <2>1, <2>2, <2>3 DEF Files
<1>8. Callbacks'
  BY <1>1, <1>3, <1>4 DEF ReactorInv, Callbacks, LoopTypes
<1>9. \A g \in ConnFds : EntryMatches(g)'
  BY <1>2, <1>3 DEF ReactorInv, EntryMatches
<1>10. Buffers'
  BY <1>1, <1>2, <1>3 DEF ReactorInv, Buffers
<1>11. Bytes'
  <2>1. ASSUME NEW g \in ConnFds, file'[g] # NULL PROVE Answers(g)'
    <3>1. g # f /\ file'[g] = file[g] /\ file[g] # c /\ file[g] \in Clients
      BY <1>1, <1>3, <1>6, <2>1 DEF KernelTypes
    <3>2. Holds(g)' = Holds(g)
      BY <1>1, <1>2, <3>1 DEF Holds
    <3>3. Answers(g)
      BY <2>1, <3>1 DEF ReactorInv, Bytes
    <3>4. peer'[file[g]] = peer[file[g]]
      BY <1>3, <3>1
    <3> QED BY <3>1, <3>2, <3>3, <3>4 DEF Answers, Reliable, Accepted, Blocking
  <2>2. \A d \in Clients : peer'[d] \in {"new", "backlog"} =>
          sent'[d] = input'[d] /\ output'[d] = 0 /\ got'[d] = 0
    BY <1>3 DEF ReactorInv, Bytes
  <2>3. \A d \in Clients \cap Polite : sent'[d] <= got'[d] + SendBuffer
    BY DEF ReactorInv, Bytes
  <2> QED BY <2>1, <2>2, <2>3 DEF Bytes
<1> QED BY <1>5, <1>7, <1>8, <1>9, <1>10, <1>11 DEF ReactorInv

\* The loop goes on: it takes events, chooses one, or stops.
LEMMA LoopKeeps ==
  ASSUME ReactorInv, UNCHANGED <<prog, entry, done, kernelVars>>,
         round' \in SUBSET (ConnFds \cup {Listener}),
         at' \in ConnFds \cup {NULL},
         phase' \in {"poll", "round", "read", "write", "killed", "returned"},
         Callbacks',
         \/ at' = at /\ phase' = "killed"
         \/ at = NULL,
         phase' = "read" => entry[at'].want = "in"
  PROVE  ReactorInv'
<1>1. LoopTypes' /\ KernelTypes'
  BY DEF ReactorInv, LoopTypes, KernelTypes, kernelVars
<1>2. Files'
  BY DEF ReactorInv, Files, Accepted, kernelVars
<1>3. \A f \in ConnFds : EntryMatches(f)'
  BY DEF ReactorInv, EntryMatches, kernelVars
<1>4. at = NULL => done = 0 /\ \A f \in ConnFds : f # at
  BY ReactorAssumption DEF ReactorInv, Callbacks, Buffers
<1>5. Buffers'
  <2>1. CASE at = NULL
    <3>1. \A f \in ConnFds : entry[f].held \in Nat
      BY DEF ReactorInv, LoopTypes, Entries
    <3>2. at' # NULL => 0 <= entry[at'].held
      BY <3>1
    <3>3. phase' = "read" => at' # NULL
      BY DEF Callbacks
    <3> QED BY <1>4, <2>1, <3>2, <3>3 DEF ReactorInv, Buffers, kernelVars
  <2>2. CASE at' = at /\ phase' = "killed"
    BY <2>2 DEF ReactorInv, Buffers, kernelVars
  <2> QED BY <2>1, <2>2
<1>6. Bytes'
  <2>1. ASSUME NEW f \in ConnFds PROVE Holds(f)' = Holds(f)
    <3>1. CASE at' = at
      BY <3>1 DEF Holds
    <3>2. CASE at = NULL
      BY <1>4, <3>2 DEF Holds
    <3> QED BY <3>1, <3>2
  <2>2. \A f \in ConnFds : file'[f] # NULL => Answers(f)'
    BY <2>1 DEF ReactorInv, Bytes, Answers, Reliable, Blocking, Accepted, kernelVars
  <2> QED BY <2>2 DEF ReactorInv, Bytes, kernelVars
<1> QED BY <1>1, <1>2, <1>3, <1>5, <1>6 DEF ReactorInv

-----------------------------------------------------------------------------
(* What each step keeps                                                    *)

LEMMA InitInv == Init => ReactorInv
<1> SUFFICES ASSUME Init PROVE ReactorInv
  OBVIOUS
<1>1. /\ file = [f \in ConnFds |-> NULL] /\ peer = [c \in Clients |-> "new"]
      /\ err = [c \in Clients |-> FALSE] /\ input = [c \in Clients |-> 0]
      /\ output = [c \in Clients |-> 0] /\ sent = [c \in Clients |-> 0]
      /\ got = [c \in Clients |-> 0] /\ fdlimit \in FdLimits
      /\ prog \in Programs /\ round = {} /\ at = NULL /\ phase = "poll" /\ done = 0
      /\ entry = [f \in ConnFds |->
           [reg |-> "closed", status |-> FALSE, want |-> "in", held |-> 0,
            machine |-> "handshake"]]
  BY DEF Init, TcpInit
<1>2. LoopTypes
  <2>1. [reg |-> "closed", status |-> FALSE, want |-> "in", held |-> 0,
         machine |-> "handshake"] \in Entries
    BY DEF Entries
  <2> QED BY <1>1, <2>1, ReactorAssumption DEF LoopTypes
<1>3. KernelTypes
  BY <1>1 DEF KernelTypes
<1>4. Files /\ Callbacks
  BY <1>1 DEF Files, Callbacks, Accepted
<1>5. \A f \in ConnFds : EntryMatches(f)
  BY <1>1 DEF EntryMatches
<1>6. Buffers
  BY <1>1 DEF Buffers
<1>7. Bytes
  BY <1>1, ReactorAssumption DEF Bytes
<1> QED BY <1>2, <1>3, <1>4, <1>5, <1>6, <1>7 DEF ReactorInv

\* The steps of the loop that move no byte.
LEMMA LoopStepKeeps ==
  ASSUME ReactorInv,
         \/ EpollWait \/ RoundEnds \/ AcceptFails \/ SigPipe \/ ReadZero
         \/ \E f \in ConnFds : Dispatch(f)
         \/ Down /\ UNCHANGED reactorVars
  PROVE  ReactorInv'
<1>0. LoopTypes /\ KernelTypes /\ Callbacks /\ NULL \notin ConnFds /\ Listener \notin ConnFds
  BY ReactorAssumption DEF ReactorInv
<1>1. CASE EpollWait
  <2>1. at = NULL
    BY <1>0, <1>1 DEF EpollWait, Callbacks
  <2>2. round' \in SUBSET (ConnFds \cup {Listener})
    BY <1>1 DEF EpollWait
  <2>3. \A f \in ConnFds : Happens(f) => file[f] # NULL
    <3> SUFFICES ASSUME NEW f \in ConnFds, Happens(f) PROVE file[f] # NULL
      OBVIOUS
    <3>1. entry[f].reg # "closed"
      BY DEF Happens
    <3> QED BY <3>1 DEF ReactorInv, EntryMatches
  <2>4. Callbacks'
    BY <1>0, <1>1, <2>1, <2>3 DEF EpollWait, Callbacks, kernelVars
  <2> QED BY <1>0, <1>1, <2>1, <2>2, <2>4, LoopKeeps DEF EpollWait, LoopTypes
<1>2. CASE RoundEnds
  <2>1. at = NULL
    BY <1>0, <1>2 DEF RoundEnds, Callbacks
  <2>2. Callbacks'
    BY <1>0, <1>2, <2>1 DEF RoundEnds, Callbacks, kernelVars
  <2> QED BY <1>0, <1>2, <2>1, <2>2, LoopKeeps DEF RoundEnds, LoopTypes
<1>3. CASE AcceptFails
  <2>1. at = NULL
    BY <1>0, <1>3 DEF AcceptFails, Callbacks
  <2>2. Callbacks'
    BY <1>0, <1>3, <2>1 DEF AcceptFails, Callbacks, kernelVars
  <2>3. phase' \in {"round", "returned"} /\ round' \in SUBSET (ConnFds \cup {Listener})
    BY <1>0, <1>3 DEF AcceptFails, LoopTypes
  <2>4. UNCHANGED <<prog, entry, done, kernelVars>> /\ at' = at
    BY <1>3 DEF AcceptFails
  <2> QED BY <2>1, <2>2, <2>3, <2>4, LoopKeeps
<1>4. CASE SigPipe
  <2>1. Callbacks'
    BY <1>0, <1>4 DEF SigPipe, Callbacks, kernelVars
  <2> QED BY <1>0, <1>4, <2>1, LoopKeeps DEF SigPipe, LoopTypes
<1>5. ASSUME NEW f \in ConnFds, Dispatch(f) PROVE ReactorInv'
  <2>1. /\ at = NULL /\ at' = f /\ f \in round /\ round' = round \ {f}
        /\ UNCHANGED <<prog, entry, done, kernelVars>>
        /\ phase' \in {"read", "write"}
        /\ phase' = "read" => entry[f].want = "in"
    BY <1>0, <1>5 DEF Dispatch, Callbacks, LoopTypes
  <2>2. Callbacks'
    BY <1>0, <2>1 DEF Callbacks, kernelVars
  <2>3. round' \in SUBSET (ConnFds \cup {Listener})
    BY <1>0, <2>1 DEF LoopTypes
  <2> QED BY <2>1, <2>2, <2>3, LoopKeeps
<1>6. CASE UNCHANGED reactorVars
  BY <1>6 DEF reactorVars, loopVars, kernelVars, ReactorInv, LoopTypes, KernelTypes,
     Files, Accepted, Callbacks, EntryMatches, Buffers, Bytes, Answers, Holds, Reliable,
     Blocking
<1> QED BY <1>1, <1>2, <1>3, <1>4, <1>5, <1>6 DEF ReadZero

\* A callback has a connection and a registered entry.
LEMMA CallbackFacts ==
  ASSUME ReactorInv, phase \in {"read", "write"}
  PROVE  /\ at \in ConnFds /\ at # NULL /\ Peer \in Clients /\ file[at] # NULL
         /\ LoopTypes /\ KernelTypes
         /\ entry[at] \in Entries /\ entry[at].status /\ entry[at].reg = entry[at].want
         /\ entry[at].held \in Nat /\ done \in Nat /\ done <= entry[at].held
         /\ phase = "read" => done = 0 /\ (prog # "websocket" => entry[at].held = 0)
         /\ input[Peer] \in Nat /\ output[Peer] \in Nat
         /\ sent[Peer] \in Nat /\ got[Peer] \in Nat
         /\ peer[Peer] \in {"open", "shut", "reset"}
<1>1. at \in ConnFds /\ at # NULL /\ file[at] # NULL /\ LoopTypes /\ KernelTypes
  BY DEF ReactorInv, Callbacks, LoopTypes
<1>2. Peer \in Clients /\ peer[Peer] \in {"open", "shut", "reset"}
  BY <1>1 DEF ReactorInv, Files, KernelTypes, Peer
<1>3. entry[at] \in Entries /\ entry[at].status /\ entry[at].reg = entry[at].want
  BY <1>1 DEF ReactorInv, LoopTypes, EntryMatches
<1>4. entry[at].held \in Nat /\ done \in Nat
  BY <1>1, <1>3 DEF Entries, LoopTypes
<1>5. done <= entry[at].held
      /\ (phase = "read" => done = 0 /\ (prog # "websocket" => entry[at].held = 0))
  BY <1>1 DEF ReactorInv, Buffers
<1> QED BY <1>1, <1>2, <1>3, <1>4, <1>5 DEF KernelTypes

LEMMA FinishKeeps ==
  ASSUME ReactorInv, phase \in {"read", "write"}, Finish(at),
         UNCHANGED <<input, output, sent, got, fdlimit>>
  PROVE  ReactorInv'
<1>1. PICK d : d = Deleted(entry[at])
  OBVIOUS
<1>2. d \in Entries /\ ~d.status
  BY <1>1, CallbackFacts, DeletedEntry
<1>3. PICK h : h = [d EXCEPT !.held = 0]
  OBVIOUS
<1>4. h \in Entries /\ ~h.status /\ h.held = 0
  <2>1. PICK n \in Nat : n = 0
    OBVIOUS
  <2> QED BY <1>2, <1>3, <2>1, HoldingEntry
<1>5. PICK e : e = Closed(h)
  OBVIOUS
<1>6. e \in Entries /\ e.reg = "closed" /\ ~e.status /\ e.held = 0
  BY <1>4, <1>5, ClosedEntry
<1>7. entry' = [entry EXCEPT ![at] = e]
  BY <1>1, <1>3, <1>5 DEF Finish
<1>8. /\ CloseFile(at, "gone") /\ phase' = "round" /\ at' = NULL /\ done' = 0
      /\ UNCHANGED <<prog, round>>
  BY DEF Finish, CallbackEnds
<1>9. PICK how \in {"gone", "dropped"} : how = "gone"
  OBVIOUS
<1>10. at \in ConnFds /\ file[at] # NULL
  BY CallbackFacts
<1>11. CloseFile(at, how)
  BY <1>8, <1>9
<1> QED BY <1>6, <1>7, <1>8, <1>10, <1>11, CloseKeeps

LEMMA HeartbeatKeeps ==
  ASSUME ReactorInv, NEW f \in ConnFds, HeartbeatFails(f)
  PROVE  ReactorInv'
<1>1. /\ phase = "poll" /\ phase' = "poll" /\ prog = "singecb" /\ entry[f].status
      /\ at' = at /\ done' = done /\ CloseFile(f, "dropped")
      /\ UNCHANGED <<prog, round, input, output, sent, got, fdlimit>>
  BY DEF HeartbeatFails
<1>2. at = NULL /\ done = 0 /\ file[f] # NULL /\ entry[f] \in Entries
  BY <1>1 DEF ReactorInv, Callbacks, Buffers, EntryMatches, LoopTypes
<1>3. PICK h : h = [entry[f] EXCEPT !.held = 0]
  OBVIOUS
<1>4. h \in Entries /\ h.held = 0
  <2>1. PICK n \in Nat : n = 0
    OBVIOUS
  <2> QED BY <1>2, <1>3, <2>1, HoldingEntry
<1>5. PICK k : k = Closed(h)
  OBVIOUS
<1>6. k \in Entries /\ k.held = 0 /\ k.reg = "closed"
  BY <1>4, <1>5, ClosedEntry
<1>7. PICK e : e = Deleted(k)
  OBVIOUS
<1>8. e \in Entries /\ e.held = 0 /\ e.reg = "closed" /\ ~e.status
  BY <1>6, <1>7, DeletedEntry
<1>9. entry' = [entry EXCEPT ![f] = e]
  BY <1>3, <1>5, <1>7 DEF HeartbeatFails
<1>10. PICK how \in {"gone", "dropped"} : how = "dropped"
  OBVIOUS
<1>11. CloseFile(f, how)
  BY <1>1, <1>10
<1>12. at' = NULL /\ done' = 0
  BY <1>1, <1>2
<1> QED BY <1>1, <1>2, <1>8, <1>9, <1>11, <1>12, CloseKeeps

LEMMA CloseFrameKeeps ==
  ASSUME ReactorInv, CloseFrame
  PROVE  ReactorInv'
<1>1. /\ phase = "read" /\ prog = "websocket" /\ CloseFile(at, "dropped")
      /\ phase' = "round" /\ at' = NULL /\ done' = 0
      /\ UNCHANGED <<prog, round, input, output, sent, got, fdlimit>>
  BY DEF CloseFrame, ReadAll, CallbackEnds
<1>2. at \in ConnFds /\ file[at] # NULL /\ entry[at] \in Entries
  BY <1>1, CallbackFacts
<1>3. PICK d : d = Closed(Deleted(entry[at]))
  OBVIOUS
<1>4. d \in Entries /\ d.reg = "closed"
  BY <1>2, <1>3, DeletedEntry, ClosedEntry
<1>5. PICK want \in {"in", "out"} : want = "out"
  OBVIOUS
<1>6. PICK a : a = Added(d, want)
  OBVIOUS
<1>7. a \in Entries /\ a.reg = "closed"
  BY <1>4, <1>6, AddedEntry
<1>8. PICK e : e = [a EXCEPT !.machine = "end", !.held = 0]
  OBVIOUS
<1>9. e \in Entries /\ e.reg = "closed" /\ e.held = 0
  BY <1>7, <1>8 DEF Entries
<1>10. entry' = [entry EXCEPT ![at] = e]
  BY <1>3, <1>5, <1>6, <1>8 DEF CloseFrame
<1>11. PICK how \in {"gone", "dropped"} : how = "dropped"
  OBVIOUS
<1>12. CloseFile(at, how)
  BY <1>1, <1>11
<1> QED BY <1>1, <1>2, <1>9, <1>10, <1>12, CloseKeeps

LEMMA ReadKeeps ==
  ASSUME ReactorInv, Read
  PROVE  ReactorInv'
<1>1. /\ phase = "read" /\ prog # "websocket" /\ at # NULL
      /\ input' = [input EXCEPT ![file[at]] = 0]
      /\ entry' = [entry EXCEPT ![at] =
           [IF prog = "plain" THEN entry[at] ELSE Rearmed(entry[at], "out")
              EXCEPT !.held = input[Peer]]]
      /\ UNCHANGED <<prog, round, file, peer, err, output, sent, got, fdlimit>>
  BY CallbackFacts DEF Read, ReadBegins, Peer
<1>2. /\ at \in ConnFds /\ at # NULL /\ LoopTypes /\ KernelTypes
      /\ entry[at] \in Entries /\ entry[at].status /\ entry[at].reg = entry[at].want
      /\ done = 0 /\ entry[at].held = 0
      /\ input[Peer] \in Nat /\ output[Peer] \in Nat
  BY <1>1, CallbackFacts
<1>3. PICK r : r = IF prog = "plain" THEN entry[at] ELSE Rearmed(entry[at], "out")
  OBVIOUS
<1>4. /\ r \in Entries /\ r.status /\ r.reg = r.want
      /\ prog # "plain" => r.want = "out"
  <2>1. PICK want \in {"in", "out"} : want = "out"
    OBVIOUS
  <2>2. /\ Rearmed(entry[at], want) \in Entries /\ Rearmed(entry[at], want).status
        /\ Rearmed(entry[at], want).reg = want /\ Rearmed(entry[at], want).want = want
    BY <1>2, RearmedEntry
  <2> QED BY <1>2, <1>3, <2>1, <2>2
<1>5. PICK e : e = [r EXCEPT !.held = input[Peer]]
  OBVIOUS
<1>6. /\ e \in Entries /\ e.status /\ e.reg = e.want /\ e.held = input[Peer]
      /\ e.want = r.want
  BY <1>2, <1>4, <1>5, HoldingEntry
<1>7. entry' = [entry EXCEPT ![at] = e]
  BY <1>1, <1>3, <1>5
<1>8. PICK i \in Nat : i = 0
  OBVIOUS
<1>9. /\ input' = [input EXCEPT ![file[at]] = i]
      /\ output' = [output EXCEPT ![file[at]] = output[Peer]]
      /\ err' \in [Clients -> BOOLEAN]
  BY <1>1, <1>2, <1>8 DEF Peer, KernelTypes
<1>10. \/ /\ at' = NULL /\ phase' = "round" /\ done' = 0
          /\ e.want = "in" => e.held = 0
       \/ /\ at' = at /\ phase' \in {"read", "write"}
          /\ done' \in Nat /\ done' <= e.held
          /\ phase' = "read" => done' = 0 /\ (prog = "websocket" \/ e.held = 0)
  <2>1. CASE prog = "plain"
    BY <1>2, <1>6, <2>1 DEF Read
  <2>2. CASE prog # "plain"
    BY <1>4, <1>6, <2>2 DEF Read, CallbackEnds
  <2> QED BY <2>1, <2>2
<1>11. i + output[Peer] + (e.held - done')
         = input[Peer] + output[Peer] + (entry[at].held - done)
  <2>1. done' = 0
    BY <1>2 DEF Read, CallbackEnds
  <2> QED BY <1>2, <1>6, <1>8, <2>1
<1>12. PICK o \in Nat : o = output[Peer]
  BY <1>2
<1>13. i + o + (e.held - done')
         = input[file[at]] + output[file[at]] + (entry[at].held - done)
  BY <1>11, <1>12 DEF Peer
<1>14. output' = [output EXCEPT ![file[at]] = o]
  BY <1>9, <1>12
<1>15. /\ UNCHANGED <<prog, round, file, peer, sent, got, fdlimit>> /\ at # NULL
       /\ e \in Entries /\ e.status /\ e.reg = e.want
       /\ input' = [input EXCEPT ![file[at]] = i] /\ err' \in [Clients -> BOOLEAN]
  BY <1>1, <1>6, <1>9
<1> QED BY <1>7, <1>10, <1>13, <1>14, <1>15, CallbackKeeps

\* Nothing but the error is taken.
LEMMA ErrorTakenKeeps ==
  ASSUME ReactorInv, phase \in {"read", "write"},
         NEW e \in Entries, entry' = [entry EXCEPT ![at] = e],
         e.status, e.reg = e.want, e.held = entry[at].held,
         UNCHANGED <<prog, round, file, peer, input, output, sent, got, fdlimit>>,
         err' \in [Clients -> BOOLEAN],
         \/ /\ at' = NULL /\ phase' = "round" /\ done' = 0
            /\ e.want = "in" => e.held = 0
         \/ at' = at /\ phase' = phase /\ done' = done,
         done' = done \/ ~Accepted(Peer)
  PROVE  ReactorInv'
<1>1. /\ at \in ConnFds /\ at # NULL /\ LoopTypes /\ KernelTypes
      /\ done \in Nat /\ done <= entry[at].held
      /\ phase = "read" => done = 0 /\ (prog # "websocket" => entry[at].held = 0)
      /\ input[Peer] \in Nat /\ output[Peer] \in Nat
  BY CallbackFacts
<1>2. /\ input' = [input EXCEPT ![file[at]] = input[Peer]]
      /\ output' = [output EXCEPT ![file[at]] = output[Peer]]
  BY <1>1 DEF Peer, KernelTypes
<1>3. Reliable(file[at]) /\ Accepted(file[at]) =>
        input[Peer] + output[Peer] + (e.held - done')
          = input[file[at]] + output[file[at]] + (entry[at].held - done)
  BY DEF Peer
<1>4. \/ /\ at' = NULL /\ phase' = "round" /\ done' = 0
         /\ e.want = "in" => e.held = 0
      \/ /\ at' = at /\ phase' \in {"read", "write"}
         /\ done' \in Nat /\ done' <= e.held
         /\ phase' = "read" => done' = 0 /\ (prog = "websocket" \/ e.held = 0)
  BY <1>1
<1> QED BY <1>1, <1>2, <1>3, <1>4, CallbackKeeps

LEMMA SameEntry ==
  ASSUME LoopTypes, at \in ConnFds
  PROVE  entry = [entry EXCEPT ![at] = entry[at]]
  BY DEF LoopTypes

LEMMA ReadFailsKeeps ==
  ASSUME ReactorInv, ReadFails
  PROVE  ReactorInv'
<1>1. /\ phase = "read" /\ prog # "websocket"
      /\ UNCHANGED <<input, output, sent, got, fdlimit>>
  BY DEF ReadFails, ReadBegins
<1>2. CASE Blocking
  <2>1. /\ err' = [err EXCEPT ![Peer] = FALSE]
        /\ at' = NULL /\ phase' = "round" /\ done' = 0
        /\ UNCHANGED <<prog, entry, round, file, peer>>
    BY <1>2 DEF ReadFails, CallbackEnds
  <2>2. /\ at \in ConnFds /\ LoopTypes /\ KernelTypes
        /\ entry[at] \in Entries /\ entry[at].status /\ entry[at].reg = entry[at].want
        /\ done = 0 /\ entry[at].held = 0
    BY <1>1, CallbackFacts
  <2>3. err' \in [Clients -> BOOLEAN]
    BY <2>1, <2>2 DEF KernelTypes
  <2>4. entry' = [entry EXCEPT ![at] = entry[at]]
    BY <2>1, <2>2, SameEntry
  <2> QED BY <1>1, <2>1, <2>2, <2>3, <2>4, ErrorTakenKeeps
<1>3. CASE ~Blocking
  BY <1>1, <1>3, FinishKeeps DEF ReadFails
<1> QED BY <1>2, <1>3

LEMMA ReadEndKeeps ==
  ASSUME ReactorInv, ReadEnd \/ ReadNothing
  PROVE  ReactorInv'
  BY FinishKeeps DEF ReadEnd, ReadNothing, ReadBegins, ReadAll

LEMMA ReadMoreKeeps ==
  ASSUME ReactorInv, ReadMore
  PROVE  ReactorInv'
<1>1. /\ phase = "read" /\ prog = "websocket"
      /\ input' = [input EXCEPT ![file[at]] = 0]
      /\ entry' = [entry EXCEPT ![at] = [entry[at] EXCEPT !.held = entry[at].held + input[Peer]]]
      /\ UNCHANGED <<prog, round, at, phase, done, file, peer, err, output, sent, got,
                     fdlimit>>
  BY DEF ReadMore, Peer
<1>2. /\ at \in ConnFds /\ at # NULL /\ LoopTypes /\ KernelTypes
      /\ entry[at] \in Entries /\ entry[at].status /\ entry[at].reg = entry[at].want
      /\ done = 0 /\ entry[at].held \in Nat
      /\ input[Peer] \in Nat /\ output[Peer] \in Nat
  BY <1>1, CallbackFacts
<1>3. PICK n \in Nat : n = entry[at].held + input[Peer]
  BY <1>2
<1>4. PICK e : e = [entry[at] EXCEPT !.held = n]
  OBVIOUS
<1>5. e \in Entries /\ e.status /\ e.reg = e.want /\ e.held = n
  BY <1>2, <1>4, HoldingEntry
<1>6. PICK i \in Nat : i = 0
  OBVIOUS
<1>7. /\ input' = [input EXCEPT ![file[at]] = i]
      /\ output' = [output EXCEPT ![file[at]] = output[Peer]]
      /\ err' \in [Clients -> BOOLEAN]
      /\ entry' = [entry EXCEPT ![at] = e]
  BY <1>1, <1>2, <1>3, <1>4, <1>6 DEF Peer, KernelTypes
<1>8. i + output[Peer] + (e.held - done')
         = input[Peer] + output[Peer] + (entry[at].held - done)
  BY <1>1, <1>2, <1>3, <1>5, <1>6
<1>9. i + output[Peer] + (e.held - done')
         = input[file[at]] + output[file[at]] + (entry[at].held - done)
  BY <1>8 DEF Peer
<1>10. done' \in Nat /\ done' <= e.held /\ done' = 0
  BY <1>1, <1>2, <1>3, <1>5
<1> QED BY <1>1, <1>2, <1>5, <1>7, <1>9, <1>10, CallbackKeeps

LEMMA RequestKeeps ==
  ASSUME ReactorInv, Request
  PROVE  ReactorInv'
<1>1. /\ phase = "read" /\ err' = [err EXCEPT ![Peer] = FALSE]
      /\ at' = NULL /\ phase' = "round" /\ done' = 0
      /\ UNCHANGED <<prog, round, file, peer, input, output, sent, got, fdlimit>>
  BY DEF Request, ReadAll, CallbackEnds
<1>2. /\ at \in ConnFds /\ LoopTypes /\ KernelTypes /\ done = 0
      /\ entry[at] \in Entries /\ entry[at].status /\ entry[at].reg = entry[at].want
  BY <1>1, CallbackFacts
<1>3. PICK want \in {"in", "out"} : want = "out"
  OBVIOUS
<1>4. PICK r : r = Rearmed(entry[at], want)
  OBVIOUS
<1>5. /\ r \in Entries /\ r.status /\ r.reg = want /\ r.want = want
      /\ r.held = entry[at].held
  BY <1>2, <1>4, RearmedEntry
<1>6. PICK e : e = Requested(r)
  OBVIOUS
<1>7. PICK m : m = IF r.machine = "end" THEN r.machine ELSE "transmission"
  OBVIOUS
<1>8. m \in {"handshake", "transmission", "end"} /\ e = [r EXCEPT !.machine = m]
  BY <1>6, <1>7 DEF Requested
<1>9. /\ e \in Entries /\ e.status /\ e.reg = e.want /\ e.want = "out"
      /\ e.held = entry[at].held
  BY <1>3, <1>5, <1>8 DEF Entries
<1>10. entry' = [entry EXCEPT ![at] = e]
  BY <1>3, <1>4, <1>6 DEF Request
<1>11. err' \in [Clients -> BOOLEAN]
  BY <1>1, <1>2 DEF KernelTypes
<1> QED BY <1>1, <1>2, <1>9, <1>10, <1>11, ErrorTakenKeeps

\* What send is asked for is left to be sent, and the kernel takes no more of it
\* than is asked, nor does the server count more.
LEMMA PieceCounted ==
  ASSUME ReactorInv, phase = "write", Room > 0, NEW n \in Asked
  PROVE  /\ n \in Int /\ n <= Rest
         /\ Piece(n) \in Nat /\ Counted(n) \in Nat /\ Counted(n) <= n
<1>1. /\ entry[at].held \in Nat /\ done \in Nat /\ done <= entry[at].held
      /\ output[Peer] \in Nat
  BY CallbackFacts
<1>2. Rest \in Nat /\ Room \in Int
  BY <1>1, ReactorAssumption DEF Rest, Room
<1>3. n \in Nat /\ n <= Rest
  <2>1. CASE prog = "http" /\ done = 0
    BY <1>2, <2>1 DEF Asked
  <2>2. CASE ~(prog = "http" /\ done = 0)
    BY <1>2, <2>2 DEF Asked
  <2> QED BY <2>1, <2>2
<1>4. Piece(n) \in Nat /\ Piece(n) <= n
  BY <1>2, <1>3 DEF Piece
<1> QED BY <1>3, <1>4 DEF Counted

\* A server either insists on sending all of its answer, or has a client whose
\* answers fit: what it believes to have sent is what the kernel took.
LEMMA CountedIsTaken ==
  ASSUME ReactorInv, phase = "write", Room > 0, NEW n \in Asked,
         Reliable(Peer), Accepted(Peer)
  PROVE  Counted(n) = Piece(n)
<1>1. CASE Insists
  BY <1>1 DEF Counted
<1>2. CASE ~Insists
  <2>1. Peer \in Polite
    BY <1>2 DEF Insists, Reliable
  <2>2. /\ at \in ConnFds /\ Peer \in Clients /\ file[at] # NULL
        /\ entry[at].held \in Nat /\ done \in Nat /\ done <= entry[at].held
        /\ input[Peer] \in Nat /\ output[Peer] \in Nat
        /\ sent[Peer] \in Nat /\ got[Peer] \in Nat
    BY CallbackFacts
  <2>3. sent[Peer] = input[Peer] + output[Peer] + got[Peer] + (entry[at].held - done)
    BY <2>2 DEF ReactorInv, Bytes, Answers, Holds, Peer
  <2>4. sent[Peer] <= got[Peer] + SendBuffer
    BY <2>1, <2>2 DEF ReactorInv, Bytes
  <2>5. SendBuffer \in Nat
    BY ReactorAssumption
  <2>6. Rest <= Room
    BY <2>2, <2>3, <2>4, <2>5 DEF Rest, Room
  <2>7. Rest \in Nat /\ Room \in Int
    BY <2>2, <2>5 DEF Rest, Room
  <2>8. n \in Int /\ n <= Rest
    BY PieceCounted
  <2>9. Piece(n) = n
    BY <2>6, <2>7, <2>8 DEF Piece
  <2> QED BY <1>2, <2>9 DEF Counted
<1> QED BY <1>1, <1>2

LEMMA AnsweredEntry ==
  ASSUME NEW e \in Entries, e.status, e.reg = e.want
  PROVE  /\ Answered(e) \in Entries
         /\ Answered(e).status /\ Answered(e).reg = Answered(e).want
         /\ Answered(e).held = 0
<1>1. PICK r : r = IF prog = "plain" THEN e ELSE Rearmed(e, "in")
  OBVIOUS
<1>2. r \in Entries /\ r.status /\ r.reg = r.want
  <2>1. PICK want \in {"in", "out"} : want = "in"
    OBVIOUS
  <2>2. /\ Rearmed(e, want) \in Entries /\ Rearmed(e, want).status
        /\ Rearmed(e, want).reg = want /\ Rearmed(e, want).want = want
    BY RearmedEntry
  <2> QED BY <1>1, <2>1, <2>2
<1>3. PICK n \in Nat : n = 0
  OBVIOUS
<1>4. Answered(e) = [r EXCEPT !.held = n]
  BY <1>1, <1>3 DEF Answered
<1> QED BY <1>2, <1>3, <1>4, HoldingEntry

LEMMA WriteKeeps ==
  ASSUME ReactorInv, Write
  PROVE  ReactorInv'
<1>1. /\ phase = "write" /\ Room > 0
      /\ UNCHANGED <<prog, round, file, peer, err, input, sent, got, fdlimit>>
  BY DEF Write
<1>2. PICK n \in Asked :
        /\ output' = [output EXCEPT ![Peer] = @ + Piece(n)]
        /\ IF Counted(n) = Rest
           THEN /\ entry' = [entry EXCEPT ![at] = Answered(@)]
                /\ CallbackEnds
           ELSE /\ done' = done + Counted(n)
                /\ UNCHANGED <<entry, at, phase>>
  BY DEF Write
<1>3. /\ at \in ConnFds /\ at # NULL /\ LoopTypes /\ KernelTypes
      /\ entry[at] \in Entries /\ entry[at].status /\ entry[at].reg = entry[at].want
      /\ entry[at].held \in Nat /\ done \in Nat /\ done <= entry[at].held
      /\ input[Peer] \in Nat /\ output[Peer] \in Nat
  BY <1>1, CallbackFacts
<1>4. /\ Piece(n) \in Nat /\ Counted(n) \in Nat /\ Counted(n) <= Rest
      /\ Rest = entry[at].held - done
  <2>1. /\ n \in Int /\ n <= Rest
        /\ Piece(n) \in Nat /\ Counted(n) \in Nat /\ Counted(n) <= n
    BY <1>1, PieceCounted
  <2>2. Rest = entry[at].held - done
    BY DEF Rest
  <2> QED BY <1>3, <2>1, <2>2
<1>5. PICK o \in Nat : o = output[Peer] + Piece(n)
  BY <1>3, <1>4
<1>6. PICK i \in Nat : i = input[Peer]
  BY <1>3
<1>7. /\ output' = [output EXCEPT ![file[at]] = o]
      /\ input' = [input EXCEPT ![file[at]] = i]
      /\ err' \in [Clients -> BOOLEAN]
  BY <1>1, <1>2, <1>3, <1>5, <1>6 DEF Peer, KernelTypes
<1>8. Reliable(Peer) /\ Accepted(Peer) => Counted(n) = Piece(n)
  BY <1>1, CountedIsTaken
<1>9. CASE Counted(n) = Rest
  <2>1. /\ entry' = [entry EXCEPT ![at] = Answered(entry[at])]
        /\ at' = NULL /\ phase' = "round" /\ done' = 0
    BY <1>2, <1>9 DEF CallbackEnds
  <2>2. PICK e : e = Answered(entry[at])
    OBVIOUS
  <2>3. e \in Entries /\ e.status /\ e.reg = e.want /\ e.held = 0
    BY <1>3, <2>2, AnsweredEntry
  <2>4. entry' = [entry EXCEPT ![at] = e]
    BY <2>1, <2>2
  <2>5. Reliable(Peer) /\ Accepted(Peer) =>
          i + o + (e.held - done')
            = input[Peer] + output[Peer] + (entry[at].held - done)
    BY <1>3, <1>4, <1>5, <1>6, <1>8, <1>9, <2>1, <2>3
  <2>6. Reliable(file[at]) /\ Accepted(file[at]) =>
          i + o + (e.held - done')
            = input[file[at]] + output[file[at]] + (entry[at].held - done)
    BY <2>5 DEF Peer
  <2> QED BY <1>1, <1>3, <1>7, <2>1, <2>3, <2>4, <2>6, CallbackKeeps
<1>10. CASE Counted(n) # Rest
  <2>1. done' = done + Counted(n) /\ entry' = entry /\ at' = at /\ phase' = phase
    BY <1>2, <1>10
  <2>2. entry' = [entry EXCEPT ![at] = entry[at]]
    BY <1>3, <2>1, SameEntry
  <2>3. done' \in Nat /\ done' <= entry[at].held
    BY <1>3, <1>4, <2>1
  <2>4. Reliable(Peer) /\ Accepted(Peer) =>
          i + o + (entry[at].held - done')
            = input[Peer] + output[Peer] + (entry[at].held - done)
    BY <1>3, <1>4, <1>5, <1>6, <1>8, <2>1
  <2>5. Reliable(file[at]) /\ Accepted(file[at]) =>
          i + o + (entry[at].held - done')
            = input[file[at]] + output[file[at]] + (entry[at].held - done)
    BY <2>4 DEF Peer
  <2> QED BY <1>1, <1>3, <1>7, <2>1, <2>2, <2>3, <2>5, CallbackKeeps
<1> QED BY <1>9, <1>10

LEMMA WriteFailsKeeps ==
  ASSUME ReactorInv, WriteFails
  PROVE  ReactorInv'
<1>1. /\ phase = "write" /\ ~Accepted(Peer)
      /\ UNCHANGED <<input, output, sent, got, fdlimit>>
  BY DEF WriteFails, Reset, Accepted
<1>2. /\ at \in ConnFds /\ at # NULL /\ LoopTypes /\ KernelTypes
      /\ entry[at] \in Entries /\ entry[at].status /\ entry[at].reg = entry[at].want
      /\ input[Peer] \in Nat /\ output[Peer] \in Nat
  BY <1>1, CallbackFacts
<1>3. CASE Family /\ done = 0 /\ Finish(at)
  BY <1>1, <1>3, FinishKeeps
<1>4. CASE prog = "http" /\ err' = [err EXCEPT ![Peer] = FALSE]
           /\ UNCHANGED <<loopVars, file, peer>>
  <2>1. /\ entry' = [entry EXCEPT ![at] = entry[at]]
        /\ UNCHANGED <<prog, round, file, peer>>
        /\ at' = at /\ phase' = phase /\ done' = done
    BY <1>2, <1>4, SameEntry DEF loopVars
  <2>2. err' \in [Clients -> BOOLEAN]
    BY <1>2, <1>4 DEF KernelTypes
  <2> QED BY <1>1, <1>2, <2>1, <2>2, ErrorTakenKeeps
<1>5. CASE /\ Blocking
           /\ err' = [err EXCEPT ![Peer] = done > 0]
           /\ entry' = [entry EXCEPT ![at] =
                IF prog = "plain" THEN Answered(entry[at]) ELSE Rearmed(entry[at], "out")]
           /\ CallbackEnds
           /\ UNCHANGED <<prog, round, file, peer>>
  <2>1. PICK want \in {"in", "out"} : want = "out"
    OBVIOUS
  <2>2. PICK e : e = IF prog = "plain" THEN Answered(entry[at])
                                       ELSE Rearmed(entry[at], want)
    OBVIOUS
  <2>3. e \in Entries /\ e.status /\ e.reg = e.want /\ (e.want = "in" => e.held = 0)
    BY <1>2, <2>1, <2>2, AnsweredEntry, RearmedEntry
  <2>4. entry' = [entry EXCEPT ![at] = e]
    BY <1>5, <2>1, <2>2
  <2>5. at' = NULL /\ phase' = "round" /\ done' = 0
    BY <1>5 DEF CallbackEnds
  <2>6. PICK i \in Nat : i = input[Peer]
    BY <1>2
  <2>7. PICK o \in Nat : o = output[Peer]
    BY <1>2
  <2>8. /\ output' = [output EXCEPT ![file[at]] = o]
        /\ input' = [input EXCEPT ![file[at]] = i]
    BY <1>1, <1>2, <2>6, <2>7 DEF Peer, KernelTypes
  <2>9. err' \in [Clients -> BOOLEAN]
    <3>1. \A c \in Clients : err'[c] = IF c = Peer THEN done > 0 ELSE err[c]
      BY <1>2, <1>5 DEF KernelTypes
    <3>2. \A c \in Clients : err'[c] \in BOOLEAN
      <4>1. (done > 0) \in BOOLEAN
        OBVIOUS
      <4>2. ASSUME NEW c \in Clients PROVE err'[c] \in BOOLEAN
        <5>1. CASE c = Peer
          BY <3>1, <4>1, <5>1
        <5>2. CASE c # Peer
          BY <1>2, <3>1, <5>2 DEF KernelTypes
        <5> QED BY <5>1, <5>2
      <4> QED BY <4>2
    <3>3. err' = [c \in Clients |-> err'[c]]
      BY <1>2, <1>5 DEF KernelTypes
    <3> QED BY <3>2, <3>3
  <2>10. ~Accepted(file[at])
    BY <1>1 DEF Peer
  <2> QED BY <1>1, <1>2, <1>5, <2>3, <2>4, <2>5, <2>8, <2>9, <2>10, CallbackKeeps
<1> QED BY <1>3, <1>4, <1>5 DEF WriteFails

\* The new connection's entry is registered, whatever the fd's last one left.
LEMMA FreshEntry ==
  ASSUME ReactorInv, NEW f \in ConnFds, file[f] = NULL
  PROVE  LET e == Added(Fresh(entry[f]), "in") IN
         e \in Entries /\ e.status /\ e.reg = e.want /\ e.held = 0
<1>1. /\ entry[f] \in Entries /\ entry[f].held = 0
      /\ ~entry[f].status \/ prog = "websocket"
  BY DEF ReactorInv, LoopTypes, EntryMatches, Buffers
<1>2. PICK b \in BOOLEAN : ~b
  OBVIOUS
<1>3. Fresh(entry[f]) = [entry[f] EXCEPT !.reg = "none", !.status = b]
  <2>1. entry[f].status \in BOOLEAN
    BY <1>1 DEF Entries
  <2>2. b = FALSE /\ (prog # "websocket" => entry[f].status = b)
    BY <1>1, <1>2, <2>1
  <2> QED BY <2>2 DEF Fresh
<1>4. PICK d : d = Fresh(entry[f])
  OBVIOUS
<1>5. d \in Entries /\ d.reg = "none" /\ ~d.status /\ d.held = 0
  BY <1>1, <1>2, <1>3, <1>4 DEF Entries
<1>6. PICK want \in {"in", "out"} : want = "in"
  OBVIOUS
<1>7. /\ Added(d, want) \in Entries /\ Added(d, want).status
      /\ Added(d, want).reg = want /\ Added(d, want).want = want
      /\ Added(d, want).held = 0
  BY <1>5, AddedEntry
<1> QED BY <1>4, <1>6, <1>7

LEMMA AcceptKeeps ==
  ASSUME ReactorInv, Accept
  PROVE  ReactorInv'
<1>1. PICK f, c : /\ f = LowestFd /\ c \in Backlog
                  /\ file' = [file EXCEPT ![f] = c]
                  /\ peer' = [peer EXCEPT ![c] = "open"]
                  /\ entry' = [entry EXCEPT ![f] = Added(Fresh(entry[f]), "in")]
  BY DEF Accept
<1>2. /\ phase = "round" /\ round' = round \ {Listener}
      /\ UNCHANGED <<prog, at, phase, done, err, input, output, sent, got, fdlimit>>
  BY DEF Accept
<1>3. /\ LoopTypes /\ KernelTypes /\ f \in ConnFds /\ file[f] = NULL
      /\ c \in Clients /\ peer[c] = "backlog" /\ c # NULL
      /\ at = NULL /\ done = 0 /\ NULL \notin ConnFds
  BY <1>1, <1>2, LowestIsFree, ReactorAssumption
     DEF Accept, ReactorInv, Backlog, Callbacks, Buffers
<1>4. PICK e : e = Added(Fresh(entry[f]), "in")
  OBVIOUS
<1>5. e \in Entries /\ e.status /\ e.reg = e.want /\ e.held = 0
  BY <1>3, <1>4, FreshEntry
<1>6. /\ entry' \in [ConnFds -> Entries]
      /\ \A g \in ConnFds : entry'[g] = IF g = f THEN e ELSE entry[g]
  BY <1>1, <1>3, <1>4, <1>5, OneEntry
<1>7. /\ file' \in [ConnFds -> Clients \cup {NULL}]
      /\ \A g \in ConnFds : file'[g] = IF g = f THEN c ELSE file[g]
      /\ \A d \in Clients : peer'[d] = IF d = c THEN "open" ELSE peer[d]
      /\ peer' \in [Clients ->
           {"new", "backlog", "open", "shut", "reset", "gone", "dropped"}]
  BY <1>1, <1>3 DEF KernelTypes
<1>8. LoopTypes' /\ KernelTypes'
  BY <1>2, <1>3, <1>6, <1>7 DEF LoopTypes, KernelTypes
<1>9. \A g \in ConnFds : file[g] # c
  BY <1>3 DEF ReactorInv, Files
<1>10. Files'
  <2>1. \A g \in ConnFds : file'[g] # NULL => peer'[file'[g]] \in {"open", "shut", "reset"}
    BY <1>3, <1>7, <1>9 DEF ReactorInv, Files, KernelTypes
  <2>2. \A g, h \in ConnFds : g # h /\ file'[g] # NULL => file'[g] # file'[h]
    BY <1>3, <1>7, <1>9 DEF ReactorInv, Files
  <2>3. ASSUME NEW d \in Clients, Accepted(d)' PROVE \E g \in ConnFds : file'[g] = d
    <3>1. CASE d = c
      BY <1>3, <1>7, <3>1
    <3>2. CASE d # c
      <4>1. Accepted(d)
        BY <1>7, <2>3, <3>2 DEF Accepted
      <4>2. PICK g \in ConnFds : file[g] = d
        BY <4>1 DEF ReactorInv, Files
      <4>3. g # f
        BY <1>3, <4>2, ReactorAssumption
      <4> QED BY <1>7, <4>2, <4>3
    <3> QED BY <3>1, <3>2
  <2> QED BY <2>1, <2>2, <2>3 DEF Files
<1>11. Callbacks'
  BY <1>2, <1>3, <1>7 DEF ReactorInv, Callbacks, LoopTypes
<1>12. \A g \in ConnFds : EntryMatches(g)'
  <2> SUFFICES ASSUME NEW g \in ConnFds PROVE EntryMatches(g)'
    OBVIOUS
  <2>1. CASE g = f
    BY <1>3, <1>5, <1>6, <1>7, <2>1 DEF EntryMatches, Entries
  <2>2. CASE g # f
    BY <1>2, <1>6, <1>7, <2>2 DEF ReactorInv, EntryMatches
  <2> QED BY <2>1, <2>2
<1>13. Buffers'
  BY <1>2, <1>3, <1>5, <1>6, <1>7 DEF ReactorInv, Buffers
<1>14. Bytes'
  <2>1. \A d \in Clients : peer'[d] \in {"new", "backlog"} =>
          sent'[d] = input'[d] /\ output'[d] = 0 /\ got'[d] = 0
    BY <1>2, <1>7 DEF ReactorInv, Bytes
  <2>2. ASSUME NEW g \in ConnFds, file'[g] # NULL PROVE Answers(g)'
    <3>1. CASE g = f
      <4>1. Holds(f)' = 0
        BY <1>2, <1>3, <1>5, <1>6 DEF Holds
      <4>2. sent[c] = input[c] /\ output[c] = 0 /\ got[c] = 0 /\ input[c] \in Nat
        BY <1>3 DEF ReactorInv, Bytes, KernelTypes
      <4>3. file'[g] = c
        BY <1>7, <3>1
      <4> QED BY <1>2, <3>1, <4>1, <4>2, <4>3 DEF Answers
    <3>2. CASE g # f
      <4>1. file'[g] = file[g] /\ file[g] # c /\ file[g] \in Clients
        BY <1>3, <1>7, <1>9, <2>2, <3>2 DEF KernelTypes
      <4>2. Holds(g)' = Holds(g)
        BY <1>2, <1>6, <3>2 DEF Holds
      <4>3. Answers(g) /\ peer'[file[g]] = peer[file[g]]
        BY <1>7, <2>2, <4>1 DEF ReactorInv, Bytes
      <4> QED BY <1>2, <4>1, <4>2, <4>3 DEF Answers, Reliable, Accepted, Blocking
    <3> QED BY <3>1, <3>2
  <2>3. \A d \in Clients \cap Polite : sent'[d] <= got'[d] + SendBuffer
    BY <1>2 DEF ReactorInv, Bytes
  <2> QED BY <2>1, <2>2, <2>3 DEF Bytes
<1> QED BY <1>8, <1>10, <1>11, <1>12, <1>13, <1>14 DEF ReactorInv

\* A client acts, or the kernel for it.
LEMMA ClientKeeps ==
  ASSUME ReactorInv, NEW c \in Clients, UNCHANGED <<loopVars, file, fdlimit>>, KernelTypes',
         \A d \in Clients : d # c =>
           /\ peer'[d] = peer[d] /\ input'[d] = input[d] /\ output'[d] = output[d]
           /\ sent'[d] = sent[d] /\ got'[d] = got[d],
         Accepted(c)' => Accepted(c),
         peer[c] \in {"open", "shut", "reset"} => peer'[c] \in {"open", "shut", "reset"},
         peer'[c] \in {"new", "backlog"} =>
           sent'[c] = input'[c] /\ output'[c] = 0 /\ got'[c] = 0,
         Accepted(c)' => sent'[c] - (input'[c] + output'[c] + got'[c])
                           = sent[c] - (input[c] + output[c] + got[c]),
         c \in Polite => sent'[c] <= got'[c] + SendBuffer
  PROVE  ReactorInv'
<1>1. LoopTypes' /\ KernelTypes /\ LoopTypes
  BY DEF ReactorInv, LoopTypes, loopVars
<1>2. Files'
  <2>1. \A g \in ConnFds : file[g] # NULL => peer'[file[g]] \in {"open", "shut", "reset"}
    BY <1>1 DEF ReactorInv, Files, KernelTypes
  <2>2. \A d \in Clients : Accepted(d)' => Accepted(d)
    BY DEF Accepted
  <2> QED BY <2>1, <2>2 DEF ReactorInv, Files
<1>3. Callbacks' /\ Buffers' /\ \A f \in ConnFds : EntryMatches(f)'
  BY DEF ReactorInv, Callbacks, Buffers, EntryMatches, loopVars
<1>4. Bytes'
  <2>1. \A d \in Clients : peer'[d] \in {"new", "backlog"} =>
          sent'[d] = input'[d] /\ output'[d] = 0 /\ got'[d] = 0
    BY DEF ReactorInv, Bytes
  <2>2. ASSUME NEW g \in ConnFds, file[g] # NULL PROVE Answers(g)'
    <3>1. Answers(g) /\ file[g] \in Clients /\ Holds(g)' = Holds(g) /\ prog' = prog
      BY <1>1, <2>2 DEF ReactorInv, Bytes, KernelTypes, Holds, loopVars
    <3>2. CASE file[g] # c
      BY <3>1, <3>2 DEF Answers, Reliable, Blocking, Accepted
    <3>3. CASE file[g] = c
      <4> SUFFICES ASSUME Reliable(c), Accepted(c)'
                   PROVE  sent'[c] = input'[c] + output'[c] + got'[c] + Holds(g)
        BY <3>1, <3>3 DEF Answers, Reliable, Blocking, Accepted
      <4>1. sent[c] = input[c] + output[c] + got[c] + Holds(g)
        BY <3>1, <3>3 DEF Answers
      <4>2. Holds(g) \in Int
        BY <1>1 DEF Holds, LoopTypes, Entries
      <4>3. /\ sent[c] \in Nat /\ input[c] \in Nat /\ output[c] \in Nat /\ got[c] \in Nat
            /\ sent'[c] \in Nat /\ input'[c] \in Nat /\ output'[c] \in Nat
            /\ got'[c] \in Nat
        BY <1>1 DEF KernelTypes
      <4> QED BY <4>1, <4>2, <4>3
    <3> QED BY <3>2, <3>3
  <2>3. \A d \in Clients \cap Polite : sent'[d] <= got'[d] + SendBuffer
    BY DEF ReactorInv, Bytes
  <2> QED BY <2>1, <2>2, <2>3 DEF Bytes
<1> QED BY <1>1, <1>2, <1>3, <1>4 DEF ReactorInv

LEMMA ClientStepKeeps ==
  ASSUME ReactorInv, NEW c \in Clients, ClientNext(c)
  PROVE  ReactorInv'
<1>1. /\ UNCHANGED <<loopVars, file, fdlimit>> /\ KernelTypes
      /\ sent[c] \in Nat /\ got[c] \in Nat /\ input[c] \in Nat /\ output[c] \in Nat
      /\ SendBuffer \in Nat
      /\ peer[c] \in {"new", "backlog"} => sent[c] = input[c] /\ output[c] = 0 /\ got[c] = 0
      /\ c \in Polite => sent[c] <= got[c] + SendBuffer
  BY ReactorAssumption DEF ReactorInv, KernelTypes, Bytes, ClientNext, Connect, Sends,
     Receives, Shuts, Resets
<1>2. CASE Connect(c)
  <2>1. KernelTypes'
    BY <1>1, <1>2 DEF Connect, KernelTypes
  <2> QED BY <1>1, <1>2, <2>1, ClientKeeps DEF Connect, KernelTypes, Accepted
<1>3. CASE Sends(c)
  <2>1. PICK n \in 1 .. MaxBytes[c] - sent[c] :
          /\ c \in Polite => sent[c] = got[c] /\ n <= SendBuffer
          /\ sent' = [sent EXCEPT ![c] = sent[c] + n]
          /\ input' = [input EXCEPT ![c] = input[c] + n]
    BY <1>3 DEF Sends
  <2>2. UNCHANGED <<peer, err, output, got>> /\ n \in Nat /\ peer[c] \in {"backlog", "open"}
    BY <1>1, <1>3, ReactorAssumption DEF Sends
  <2>3. KernelTypes'
    BY <1>1, <2>1, <2>2 DEF KernelTypes
  <2>4. sent'[c] = sent[c] + n /\ input'[c] = input[c] + n
        /\ \A d \in Clients : d # c => sent'[d] = sent[d] /\ input'[d] = input[d]
    BY <1>1, <2>1 DEF KernelTypes
  <2>5. c \in Polite => sent'[c] <= got'[c] + SendBuffer
    BY <1>1, <2>1, <2>2, <2>4
  <2>6. sent'[c] - (input'[c] + output'[c] + got'[c])
          = sent[c] - (input[c] + output[c] + got[c])
    BY <1>1, <2>2, <2>4
  <2>7. peer'[c] \in {"new", "backlog"} =>
          sent'[c] = input'[c] /\ output'[c] = 0 /\ got'[c] = 0
    BY <1>1, <2>2, <2>4
  <2> QED BY <1>1, <2>2, <2>3, <2>4, <2>5, <2>6, <2>7, ClientKeeps DEF Accepted
<1>4. CASE Receives(c)
  <2>1. /\ got' = [got EXCEPT ![c] = got[c] + output[c]]
        /\ output' = [output EXCEPT ![c] = 0] /\ output[c] > 0
        /\ UNCHANGED <<peer, err, input, sent>>
    BY <1>4 DEF Receives
  <2>2. KernelTypes'
    BY <1>1, <2>1 DEF KernelTypes
  <2>3. got'[c] = got[c] + output[c] /\ output'[c] = 0
        /\ \A d \in Clients : d # c => got'[d] = got[d] /\ output'[d] = output[d]
    BY <1>1, <2>1 DEF KernelTypes
  <2>4. c \in Polite => sent'[c] <= got'[c] + SendBuffer
    BY <1>1, <2>1, <2>3
  <2>5. sent'[c] - (input'[c] + output'[c] + got'[c])
          = sent[c] - (input[c] + output[c] + got[c])
    BY <1>1, <2>1, <2>3
  <2>6. peer'[c] \notin {"new", "backlog"}
    BY <1>1, <2>1
  <2> QED BY <1>1, <2>1, <2>2, <2>3, <2>4, <2>5, <2>6, ClientKeeps DEF Accepted
<1>5. CASE Shuts(c)
  <2>1. KernelTypes'
    BY <1>1, <1>5 DEF Shuts, KernelTypes
  <2> QED BY <1>1, <1>5, <2>1, ClientKeeps DEF Shuts, KernelTypes, Accepted
<1>6. CASE Resets(c)
  <2>1. KernelTypes'
    BY <1>1, <1>6 DEF Resets, KernelTypes
  <2> QED BY <1>1, <1>6, <2>1, ClientKeeps DEF Resets, KernelTypes, Accepted
<1> QED BY <1>2, <1>3, <1>4, <1>5, <1>6 DEF ClientNext

-----------------------------------------------------------------------------
(* The theorems                                                            *)

LEMMA NextKeeps ==
  ASSUME ReactorInv, Next
  PROVE  ReactorInv'
<1>1. CASE ServerNext
  <2>1. CASE EpollWait \/ RoundEnds \/ AcceptFails \/ SigPipe \/ ReadZero
             \/ \E f \in ConnFds : Dispatch(f)
    BY <2>1, LoopStepKeeps
  <2>2. CASE Read
    BY <2>2, ReadKeeps
  <2>3. CASE ReadFails
    BY <2>3, ReadFailsKeeps
  <2>4. CASE ReadEnd \/ ReadNothing
    BY <2>4, ReadEndKeeps
  <2>5. CASE ReadMore
    BY <2>5, ReadMoreKeeps
  <2>6. CASE Request
    BY <2>6, RequestKeeps
  <2>7. CASE CloseFrame
    BY <2>7, CloseFrameKeeps
  <2>8. CASE Write
    BY <2>8, WriteKeeps
  <2>9. CASE WriteFails
    BY <2>9, WriteFailsKeeps
  <2>10. CASE Accept
    BY <2>10, AcceptKeeps
  <2> QED BY <1>1, <2>1, <2>2, <2>3, <2>4, <2>5, <2>6, <2>7, <2>8, <2>9, <2>10
          DEF ServerNext
<1>2. ASSUME NEW f \in ConnFds, HeartbeatFails(f) PROVE ReactorInv'
  BY <1>2, HeartbeatKeeps
<1>3. ASSUME NEW c \in Clients, ClientNext(c) PROVE ReactorInv'
  BY <1>3, ClientStepKeeps
<1>4. CASE Down /\ UNCHANGED reactorVars
  BY <1>4, LoopStepKeeps
<1> QED BY <1>1, <1>2, <1>3, <1>4 DEF Next

LEMMA NothingKeeps ==
  ASSUME ReactorInv, UNCHANGED reactorVars
  PROVE  ReactorInv'
<1>1. UNCHANGED <<prog, entry, round, at, phase, done>>
      /\ UNCHANGED <<file, peer, err, input, output, sent, got, fdlimit>>
  BY DEF reactorVars, loopVars, kernelVars
<1>2. LoopTypes' /\ KernelTypes'
  BY <1>1 DEF ReactorInv, LoopTypes, KernelTypes
<1>3. Files' /\ Callbacks' /\ Buffers' /\ \A f \in ConnFds : EntryMatches(f)'
  BY <1>1 DEF ReactorInv, Files, Accepted, Callbacks, Buffers, EntryMatches
<1>4. Bytes'
  BY <1>1 DEF ReactorInv, Bytes, Answers, Reliable, Blocking, Accepted, Holds
<1> QED BY <1>2, <1>3, <1>4 DEF ReactorInv

\* The inductive invariant of the event loops: an fd, the table's entry for it,
\* epoll's registration and the buffers agree at every system call of the
\* callbacks (accept_cb, recv_cb, send_cb and the loops in main).
THEOREM ReactorInvariant == Spec => []ReactorInv
<1>1. Init => ReactorInv
  BY InitInv
<1>2. ReactorInv /\ [Next]_reactorVars => ReactorInv'
  BY NextKeeps, NothingKeeps
<1> QED BY <1>1, <1>2, PTL DEF Spec

\* nty_event_add asks epoll for ADD or MOD as status says, and accept may give
\* an fd back whose entry an earlier connection left behind: nevertheless an
\* open connection is registered, for the events its entry waits for.
THEOREM TableMatchesEpoll == Spec => []EntriesMatchEpoll
<1>1. ReactorInv => EntriesMatchEpoll
  <2> SUFFICES ASSUME ReactorInv, NEW f \in ConnFds \ {at}
               PROVE  /\ (entry[f].reg = "closed") = (file[f] = NULL)
                      /\ file[f] # NULL => entry[f].status /\ entry[f].reg = entry[f].want
                      /\ file[f] = NULL => ~entry[f].status \/ prog = "websocket"
    BY DEF EntriesMatchEpoll
  <2>1. EntryMatches(f)
    BY DEF ReactorInv
  <2> QED BY <2>1 DEF EntryMatches
<1> QED BY <1>1, ReactorInvariant, PTL

\* An fd alone: the sum over the fds of a client is what its fd's entry holds.
LEMMA SumOverOne ==
  ASSUME NEW x \in ConnFds, Holds(x) \in Int
  PROVE  MapThenSumSet(LAMBDA f : entry[f].held - (IF f = at THEN done ELSE 0), {x})
           = Holds(x)
<1> DEFINE S == {x}
           body(g) == [s \in SUBSET S |->
             IF s = {} THEN 0
             ELSE LET y == CHOOSE y \in s : TRUE
                  IN entry[y].held - (IF y = at THEN done ELSE 0) + g[s \ {y}]]
           iter == CHOOSE g : g = body(g)
<1>1. \E g : g = body(g)
  <2> DEFINE w == [s \in SUBSET S |->
                     IF s = {} THEN 0 ELSE entry[x].held - (IF x = at THEN done ELSE 0)]
  <2>1. \A s \in SUBSET S : s # {} => s = {x} /\ (CHOOSE y \in s : TRUE) = x
    OBVIOUS
  <2>2. entry[x].held - (IF x = at THEN done ELSE 0) + 0
          = entry[x].held - (IF x = at THEN done ELSE 0)
    BY DEF Holds
  <2>3. w = body(w)
    BY <2>1, <2>2
  <2> QED BY <2>3
<1>2. iter = body(iter)
  <2> HIDE DEF body
  <2> QED BY <1>1
<1>3. MapThenSumSet(LAMBDA f : entry[f].held - (IF f = at THEN done ELSE 0), {x})
        = iter[S]
  BY DEF MapThenSumSet, MapThenFoldSet
<1>4. iter[S] = Holds(x)
  <2> HIDE DEF iter
  <2>1. (CHOOSE y \in S : TRUE) = x
    OBVIOUS
  <2>2. iter[{}] = 0
    BY <1>2
  <2>3. iter[S] = Holds(x) + iter[{}]
    BY <1>2, <2>1 DEF Holds
  <2> QED BY <2>2, <2>3
<1> QED BY <1>3, <1>4

\* What recv_cb took and send_cb has not sent, the table holds: however recv,
\* send and the loops around them divide the bytes, none is lost, doubled or
\* sent to another client.
THEOREM NoAnswerIsLost == Spec => []AnswersConserved
<1>1. ReactorInv => AnswersConserved
  <2> SUFFICES ASSUME ReactorInv, NEW c \in Clients, Reliable(c), Accepted(c)
               PROVE  sent[c] = input[c] + output[c] + got[c]
                        + MapThenSumSet(LAMBDA f : entry[f].held - (IF f = at THEN done ELSE 0),
                                        {f \in ConnFds : file[f] = c})
    BY DEF AnswersConserved, Accepted
  <2>1. PICK x \in ConnFds : file[x] = c
    BY DEF ReactorInv, Files
  <2>2. c # NULL /\ {f \in ConnFds : file[f] = c} = {x}
    <3>1. c # NULL
      BY ReactorAssumption
    <3>2. \A f \in ConnFds : file[f] = c => f = x
      BY <2>1, <3>1 DEF ReactorInv, Files
    <3> QED BY <2>1, <3>1, <3>2
  <2>3. Holds(x) \in Int
    BY DEF ReactorInv, LoopTypes, Entries, Holds
  <2>4. sent[c] = input[c] + output[c] + got[c] + Holds(x)
    BY <2>1, <2>2 DEF ReactorInv, Bytes, Answers
  <2> QED BY <2>2, <2>3, <2>4, SumOverOne
<1> QED BY <1>1, ReactorInvariant, PTL
===============================================================================
