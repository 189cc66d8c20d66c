------------------------- MODULE ConsoleSessionProofs -------------------------
(***************************************************************************)
(* For any users, connections and reads: the inductive invariant of the    *)
(* console's session, and from it that what is shown is of the sign-in the *)
(* connection verified last, of the page that is asked for, and of the     *)
(* user who signed in.  Then the boundary in front of the terminal         *)
(* (GuardedPublication), and the file the session's connection is read     *)
(* from (ProfileFile).                                                     *)
(***************************************************************************)
EXTENDS ConsoleSession, GuardedPublication, ProfileFile, SequenceTheorems, TLAPS

(* A read that has gone out, and the credentials it went out under. *)
Sent(c) == c.state \in {"sent", "answered"}
Live == refresh # 0 /\ Current(refresh)
Latest == refresh # 0 /\ cycles[refresh].since = cli.logins

(* A cycle belongs to a connection that was opened, and has Direct know    *)
(* its user while the cycle is pinned to it; the refresh belongs to the    *)
(* console's one; and a candidate has no other cycle than whoami's.        *)
CyclesHold ==
    /\ backend[engine].state # "new" /\ ui.rev <= backend[engine].rev
    /\ \A n \in DOMAIN cycles :
        /\ backend[cycles[n].engine].state # "new"
        /\ cycles[n].serial <= ui.serial /\ cycles[n].since <= cli.logins
        /\ kind[cycles[n].engine] = "direct" /\ cycles[n].pin = backend[cycles[n].engine].gen =>
            backend[cycles[n].engine].bound # NoUser
    /\ refresh # 0 => cycles[refresh].engine = engine

CandidateAlone ==
    connecting # 0 =>
        /\ cycles[connecting].engine # engine
        /\ \A n \in DOMAIN cycles : cycles[n].engine = cycles[connecting].engine => n = connecting
        /\ \A c, d \in calls : c.cycle = connecting /\ d.cycle = connecting => c = d
        /\ \A c \in calls : c.cycle = connecting =>
            /\ c.what = "whoami"
            /\ c.state = "answered" => c.user = backend[cycles[connecting].engine].known

(* What went out under the credentials that are still the connection's     *)
(* carries its principal revision; a cycle that has read is pinned.        *)
SentIsCurrent ==
    \A c \in calls :
        /\ c.state = "queued" => c.gen = 0
        /\ Sent(c) =>
            /\ c.user \in Users /\ c.gen <= backend[EngineOf(c)].gen
            /\ c.gen = backend[EngineOf(c)].gen => c.rev = backend[EngineOf(c)].rev
            /\ c.what \in {"data", "detail"} => c.gen # 0 /\ Pin(c) = c.gen

HeaderHolds ==
    /\ Synchronized => ui.header \in {NoUser, backend[engine].known}
    /\ \A c \in calls : c.cycle = refresh /\ Live =>
        /\ c.what = "whoami" /\ c.state = "answered" /\ Synchronized => c.user = backend[engine].known
        /\ kind[engine] = "http" /\ c.what \in {"features", "data"} => ui.header # NoUser

(* The reads of the refresh carry the page and the month of the console.   *)
PagesHold ==
    /\ \A c \in calls : c.cycle = refresh /\ Live /\ c.what = "data" => c.page = ui.page /\ c.month = ui.month
    /\ PageMatchesQuery

(* A refresh that began after the last az login reads as that user.        *)
Asked(c) == c.cycle = refresh /\ c.state # "failed" /\ (c.what = "whoami" => c.state # "queued")
LatestHolds ==
    Latest =>
        /\ kind[engine] = "direct" /\ cycles[refresh].pin = backend[engine].gen => backend[engine].bound = cli.user
        /\ \A c \in calls :
            /\ kind[engine] = "http" /\ Asked(c) => backend[engine].bound \in {NoUser, cli.user}
            /\ c.cycle = refresh /\ Sent(c) /\ c.what \in {"whoami", "data"} => c.user = cli.user
            /\ c.cycle = refresh /\ Live /\ c.what = "features" => ui.header \in {NoUser, cli.user}
        /\ Live /\ ~ui.verifying => ui.header \in {NoUser, cli.user}

DataHolds ==
    /\ \A t \in Tabs : data[t].since <= cli.logins
    /\ data[ui.tab] # NoData /\ Live => data[ui.tab].since = cycles[refresh].since

SessionInv == /\ SessionTypeOK /\ CyclesHold /\ CandidateAlone /\ SentIsCurrent /\ HeaderHolds /\ PagesHold
              /\ LatestHolds /\ DataHolds /\ ShownIsVerified /\ ShownForSignIn

-----------------------------------------------------------------------------
(* ------------------------------- cycles ---------------------------------- *)
(* What the numbers of cycles stand for. *)
LEMMA InCycles ==
  ASSUME SessionTypeOK
  PROVE  /\ Len(cycles) \in Nat /\ DOMAIN cycles = 1..Len(cycles)
         /\ \A n \in DOMAIN cycles : n \in Nat \ {0} /\ cycles[n] \in Cycles
         /\ refresh \in Nat /\ (refresh # 0 => refresh \in DOMAIN cycles)
         /\ opening \in Nat /\ (opening # 0 => opening \in DOMAIN cycles)
         /\ connecting \in Nat /\ (connecting # 0 => connecting \in DOMAIN cycles)
<1>1. cycles \in Seq(Cycles) /\ refresh \in 0..Len(cycles) /\ opening \in 0..Len(cycles) /\ connecting \in 0..Len(cycles)
  BY DEF SessionTypeOK
<1>2. Len(cycles) \in Nat /\ DOMAIN cycles = 1..Len(cycles) /\ \A n \in 1..Len(cycles) : cycles[n] \in Cycles
  BY <1>1, ElementOfSeq, LenProperties
<1>. QED BY <1>1, <1>2

(* Pinning a cycle to credentials changes nothing else of it. *)
LEMMA PinnedCycles ==
  ASSUME NEW s \in Seq(Cycles), NEW n \in DOMAIN s, NEW g \in Nat, NEW q, q = [s EXCEPT ![n].pin = g]
  PROVE  /\ q \in Seq(Cycles) /\ DOMAIN q = DOMAIN s /\ Len(q) = Len(s)
         /\ q[n].pin = g /\ \A m \in DOMAIN s : m # n => q[m] = s[m]
         /\ \A m \in DOMAIN s : /\ q[m].engine = s[m].engine /\ q[m].serial = s[m].serial
                                /\ q[m].tab = s[m].tab /\ q[m].since = s[m].since /\ q[m].rev = s[m].rev
<1>. DEFINE k == [s[n] EXCEPT !.pin = g]
<1>1. DOMAIN s = 1..Len(s) /\ s[n] \in Cycles
  BY ElementOfSeq, LenProperties
<1>2. /\ k \in Cycles /\ k.pin = g /\ k.engine = s[n].engine /\ k.serial = s[n].serial
      /\ k.tab = s[n].tab /\ k.since = s[n].since /\ k.rev = s[n].rev
  BY <1>1 DEF Cycles
<1>3. q = [s EXCEPT ![n] = k]
  OBVIOUS
<1>. HIDE DEF k
<1>4. q \in Seq(Cycles) /\ Len(q) = Len(s)
  BY <1>1, <1>2, <1>3, ExceptSeq
<1>. QED BY <1>1, <1>2, <1>3, <1>4

(* A new cycle comes after the others. *)
LEMMA LongerCycles ==
  ASSUME NEW s \in Seq(Cycles), NEW k \in Cycles, NEW q, q = Append(s, k)
  PROVE  /\ q \in Seq(Cycles) /\ DOMAIN q = DOMAIN s \cup {Len(s) + 1} /\ Len(q) = Len(s) + 1
         /\ q[Len(s) + 1] = k /\ Len(s) + 1 \notin DOMAIN s
         /\ \A m \in DOMAIN s : q[m] = s[m]
<1>1. DOMAIN s = 1..Len(s) /\ Len(s) \in Nat
  BY LenProperties
<1>2. q \in Seq(Cycles) /\ Len(q) = Len(s) + 1 /\ q[Len(s) + 1] = k /\ \A m \in 1..Len(s) : q[m] = s[m]
  BY <1>1, AppendProperties
<1>3. DOMAIN q = 1..(Len(s) + 1)
  BY <1>2, LenProperties
<1>. QED BY <1>1, <1>2, <1>3

(* The initial console has read nothing. *)
LEMMA InitSession == Init => SessionInv
<1>. SUFFICES ASSUME Init PROVE SessionInv
  OBVIOUS
<1>1. /\ cycles = <<>> /\ calls = {} /\ refresh = 0 /\ opening = 0 /\ connecting = 0 /\ engine = First
      /\ data = [t \in Tabs |-> NoData] /\ screen = NoData
      /\ backend = [e \in Engines |-> [gen |-> 1, bound |-> NoUser, known |-> NoUser, rev |-> 0,
                                       state |-> IF e = First THEN "open" ELSE "new"]]
      /\ ui = [tab |-> "overview", serial |-> 0, header |-> NoUser, rev |-> 0, page |-> 0, month |-> 0,
               verifying |-> FALSE]
      /\ kind \in Kinds
  BY DEF Init
<1>2. First \in Engines /\ 0 \notin Engines /\ kind \in [Engines -> {"http", "direct"}]
  BY <1>1, ConsoleAssumption
<1>3. cycles \in Seq(Cycles) /\ Len(cycles) = 0 /\ DOMAIN cycles = {}
  BY <1>1, EmptySeq
<1>4. cli \in [user : Users, logins : 0..MaxTrouble, faults : 0..MaxTrouble] /\ cli.logins \in Nat
  BY ConsoleAssumption DEF Init
<1>5. NoData \in Items /\ NoData.since = 0 /\ NoData.engine = 0
  BY DEF NoData, Items, Known
<1>6. SessionTypeOK
  <2>1. backend \in [Engines -> Backends]
    BY <1>1 DEF Backends, Known
  <2>2. ui \in Screens
    BY <1>1 DEF Screens, Known, Tabs
  <2>3. data \in [Tabs -> Items] /\ screen \in Items
    BY <1>1, <1>5
  <2>. QED BY <1>1, <1>2, <1>3, <1>4, <2>1, <2>2, <2>3 DEF SessionTypeOK
<1>7. CyclesHold /\ CandidateAlone /\ SentIsCurrent
  BY <1>1, <1>2, <1>3 DEF CyclesHold, CandidateAlone, SentIsCurrent
<1>8. HeaderHolds /\ PagesHold /\ LatestHolds
  BY <1>1, <1>2 DEF HeaderHolds, PagesHold, PageMatchesQuery, LatestHolds, Latest, Live, Tabs
<1>9. DataHolds /\ ShownIsVerified /\ ShownForSignIn
  BY <1>1, <1>2, <1>4, <1>5 DEF DataHolds, ShownIsVerified, ShownForSignIn, Live, Tabs
<1>. QED BY <1>6, <1>7, <1>8, <1>9 DEF SessionInv

-----------------------------------------------------------------------------
(* ------------------------------- threads --------------------------------- *)
(* What a thread does to the read c it runs, which becomes r: it may pin   *)
(* the cycle and give the connection other credentials.                    *)
Unread == UNCHANGED <<kind, engine, ui, refresh, opening, connecting, data, screen>>
SameRead(c, r) == /\ r.cycle = c.cycle /\ r.what = c.what /\ r.page = c.page /\ r.month = c.month
                  /\ c.state \in {"queued", "sent"} /\ r.state # "queued"
PinsKept(n) ==
    /\ DOMAIN cycles' = DOMAIN cycles
    /\ \A m \in DOMAIN cycles :
        /\ cycles'[m].engine = cycles[m].engine /\ cycles'[m].serial = cycles[m].serial
        /\ cycles'[m].tab = cycles[m].tab /\ cycles'[m].since = cycles[m].since
        /\ cycles[m].pin # 0 \/ m # n => cycles'[m].pin = cycles[m].pin
CredentialsKept(e) ==
    /\ \A x \in Engines \ {e} : backend'[x] = backend[x]
    /\ backend'[e].state = backend[e].state
    /\ \/ backend'[e].gen = backend[e].gen /\ backend'[e].rev = backend[e].rev
       \/ backend'[e].gen = backend[e].gen + 1 /\ backend'[e].rev \in {backend[e].rev, backend[e].rev + 1}
    /\ backend[e].known \in {NoUser, backend'[e].known} \/ backend'[e].rev = backend[e].rev + 1
    /\ kind[e] = "http" => backend'[e].bound \in {NoUser, backend[e].bound, cli.user}
    /\ kind[e] = "direct" /\ backend'[e].gen = backend[e].gen => backend'[e].bound \in {backend[e].bound, cli.user}
ReadBy(c, r) ==
    LET e == EngineOf(c) IN
    /\ r.state = "answered" /\ c.what = "whoami" => backend'[e].known = r.user
    /\ kind[e] = "direct" /\ cycles[c.cycle].pin = 0 /\ cycles'[c.cycle].pin # 0 =>
        backend'[e].bound = cli.user
    /\ kind[e] = "http" /\ c.what = "whoami" /\ c.state = "queued" /\ r.state # "failed" =>
        backend'[e].bound = cli.user
    /\ Sent(r) =>
        /\ r.user \in Users /\ r.gen <= backend'[e].gen
        /\ r.gen = backend'[e].gen => r.rev = backend'[e].rev
        /\ c.what \in {"data", "detail"} => r.gen # 0 /\ cycles'[c.cycle].pin = r.gen
        /\ \/ r.user = cli.user
           \/ Sent(c) /\ r.user = c.user
           \/ c.what \in {"features", "detail"}
           \/ kind[e] = "http" /\ c.what = "data" /\ c.state = "queued" /\ r.user = backend[e].bound
           \/ /\ kind[e] = "direct" /\ r.user = backend[e].bound
              /\ cycles[c.cycle].pin # 0 /\ cycles[c.cycle].pin = backend[e].gen

ThreadStep(c, r) ==
    /\ Unread /\ cli'.user = cli.user /\ cli'.logins = cli.logins
    /\ SessionTypeOK' /\ calls' \subseteq (calls \ {c}) \cup {r}
    /\ SameRead(c, r) /\ PinsKept(c.cycle) /\ CredentialsKept(EngineOf(c)) /\ ReadBy(c, r)

(* Names for what the types say of a read and of its cycle. *)
LEMMA CallTypes ==
  ASSUME SessionTypeOK, NEW c \in calls
  PROVE  /\ c \in Calls /\ c.cycle \in DOMAIN cycles /\ c.cycle \in Nat \ {0}
         /\ cycles[c.cycle] \in Cycles /\ EngineOf(c) \in Engines /\ Pin(c) \in Nat
         /\ backend[EngineOf(c)] \in Backends /\ kind[EngineOf(c)] \in {"http", "direct"}
         /\ Pin(c) <= backend[EngineOf(c)].gen
<1>1. c \in Calls /\ c.cycle \in DOMAIN cycles
  BY DEF SessionTypeOK
<1>2. cycles[c.cycle] \in Cycles /\ c.cycle \in Nat \ {0}
  BY <1>1, InCycles
<1>. QED BY <1>1, <1>2 DEF SessionTypeOK, Cycles, EngineOf, Pin

LEMMA ThreadKeepsCycles ==
  ASSUME SessionInv, NEW c \in calls, NEW r, ThreadStep(c, r)
  PROVE  CyclesHold' /\ (Live' <=> Live) /\ (Latest' <=> Latest)
<1>1. SessionTypeOK /\ CyclesHold
  BY DEF SessionInv
<1>2. EngineOf(c) \in Engines /\ backend[EngineOf(c)] \in Backends /\ engine \in Engines /\ backend[engine] \in Backends
      /\ ui.rev \in Nat
  BY <1>1, CallTypes DEF SessionTypeOK, Screens
<1>3. ASSUME NEW x \in Engines
      PROVE  /\ backend'[x].state = backend[x].state
             /\ backend[x].rev \in Nat /\ backend'[x].rev \in Nat /\ backend[x].rev <= backend'[x].rev
  <2>1. backend[x].rev \in Nat /\ backend'[x].rev \in Nat
    BY <1>1 DEF ThreadStep, SessionTypeOK, Backends
  <2>2. CASE x # EngineOf(c)
    BY <2>1, <2>2 DEF ThreadStep, CredentialsKept
  <2>3. CASE x = EngineOf(c)
    BY <2>1, <2>3 DEF ThreadStep, CredentialsKept
  <2>. QED BY <2>2, <2>3
<1>4. \A n \in DOMAIN cycles : cycles[n].engine \in Engines
  BY <1>1, InCycles DEF Cycles
<1>5. backend'[engine'].state # "new" /\ ui'.rev <= backend'[engine'].rev
  BY <1>1, <1>2, <1>3 DEF ThreadStep, Unread, CyclesHold
<1>6. ASSUME NEW n \in DOMAIN cycles'
      PROVE  LET x == cycles'[n].engine IN
             /\ backend'[x].state # "new"
             /\ cycles'[n].serial <= ui'.serial /\ cycles'[n].since <= cli'.logins
             /\ kind'[x] = "direct" /\ cycles'[n].pin = backend'[x].gen => backend'[x].bound # NoUser
  <2>. DEFINE x == cycles[n].engine
  <2>1. n \in DOMAIN cycles /\ cycles'[n].engine = x /\ x \in Engines
    BY <1>4, <1>6 DEF ThreadStep, PinsKept
  <2>2. /\ backend'[x].state # "new"
        /\ cycles'[n].serial <= ui'.serial /\ cycles'[n].since <= cli'.logins
    BY <1>1, <1>3, <2>1 DEF ThreadStep, Unread, CyclesHold, PinsKept
  <2>3. ASSUME kind[x] = "direct", cycles'[n].pin = backend'[x].gen PROVE backend'[x].bound # NoUser
    <3>1. /\ cycles[n].pin \in Nat /\ cycles[n].pin <= backend[x].gen /\ cli.user \in Users
          /\ backend[x].gen \in Nat /\ backend'[x].gen \in Nat \ {0}
      BY <1>1, <1>4, <2>1, InCycles DEF SessionTypeOK, Cycles, Backends, ThreadStep
    <3>2. cycles[n].pin = backend[x].gen => backend[x].bound # NoUser
      BY <1>1, <2>1, <2>3 DEF CyclesHold
    <3>3. CASE cycles'[n].pin # cycles[n].pin
      <4>1. n = c.cycle /\ cycles[n].pin = 0 /\ EngineOf(c) = x
        BY <2>1, <3>3 DEF ThreadStep, PinsKept, EngineOf
      <4>. QED BY <2>3, <3>1, <4>1, ConsoleAssumption DEF ThreadStep, ReadBy
    <3>4. CASE cycles'[n].pin = cycles[n].pin
      <4>1. CASE x # EngineOf(c)
        BY <2>1, <2>3, <3>2, <3>4, <4>1 DEF ThreadStep, CredentialsKept
      <4>2. CASE x = EngineOf(c)
        <5>1. backend'[x].gen \in {backend[x].gen, backend[x].gen + 1}
          BY <4>2 DEF ThreadStep, CredentialsKept
        <5>2. backend'[x].gen = backend[x].gen
          BY <2>3, <3>1, <3>4, <5>1
        <5>3. backend'[x].bound \in {backend[x].bound, cli.user}
          BY <2>3, <4>2, <5>2 DEF ThreadStep, CredentialsKept
        <5>. QED BY <2>3, <3>1, <3>2, <3>4, <5>2, <5>3, ConsoleAssumption
      <4>. QED BY <4>1, <4>2
    <3>. QED BY <3>3, <3>4
  <2>. QED BY <2>1, <2>2, <2>3 DEF ThreadStep, Unread
<1>7. refresh # 0 => refresh \in DOMAIN cycles
  BY <1>1, InCycles
<1>8. refresh' # 0 => cycles'[refresh'].engine = engine'
  BY <1>1, <1>7 DEF ThreadStep, Unread, CyclesHold, PinsKept
<1>9. refresh # 0 => (Current(refresh)' <=> Current(refresh))
  BY <1>7 DEF ThreadStep, Unread, PinsKept, Current
<1>. QED BY <1>5, <1>6, <1>7, <1>8, <1>9 DEF CyclesHold, Live, Latest, ThreadStep, PinsKept, Unread

LEMMA ThreadKeepsCandidate ==
  ASSUME SessionInv, NEW c \in calls, NEW r, ThreadStep(c, r)
  PROVE  CandidateAlone'
<1>. SUFFICES ASSUME connecting # 0 PROVE CandidateAlone'
  BY DEF ThreadStep, Unread, CandidateAlone
<1>. DEFINE e == cycles[connecting].engine
<1>1. SessionTypeOK /\ CandidateAlone
  BY DEF SessionInv
<1>2. /\ connecting \in DOMAIN cycles /\ c.cycle \in DOMAIN cycles /\ e \in Engines
      /\ \A d \in calls : d.cycle \in DOMAIN cycles
  BY <1>1, InCycles, CallTypes DEF Cycles
<1>3. /\ connecting' = connecting /\ engine' = engine /\ cycles'[connecting].engine = e
      /\ DOMAIN cycles' = DOMAIN cycles /\ \A n \in DOMAIN cycles : cycles'[n].engine = cycles[n].engine
      /\ r.cycle = c.cycle /\ r.what = c.what
      /\ \A d \in calls' : (d \in calls /\ d # c) \/ d = r
  BY <1>2 DEF ThreadStep, Unread, PinsKept, SameRead
<1>4. e # engine /\ \A n \in DOMAIN cycles : cycles[n].engine = e => n = connecting
  BY <1>1 DEF CandidateAlone
<1>5. /\ \A d, f \in calls : d.cycle = connecting /\ f.cycle = connecting => d = f
      /\ \A d \in calls : d.cycle = connecting => d.what = "whoami" /\ (d.state = "answered" => d.user = backend[e].known)
  BY <1>1 DEF CandidateAlone
<1>6. \A d, f \in calls' : d.cycle = connecting /\ f.cycle = connecting => d = f
  BY <1>3, <1>5
<1>7. ASSUME NEW d \in calls', d.cycle = connecting
      PROVE  d.what = "whoami" /\ (d.state = "answered" => d.user = backend'[e].known)
  <2>1. CASE d = r
    BY <1>3, <1>5, <1>7, <2>1 DEF ThreadStep, ReadBy, EngineOf
  <2>2. CASE d # r
    <3>1. d \in calls /\ d # c
      BY <1>3, <2>2
    <3>2. c.cycle # connecting
      BY <1>5, <1>7, <3>1
    <3>3. EngineOf(c) # e
      BY <1>2, <1>4, <3>2 DEF EngineOf
    <3>4. backend'[e] = backend[e]
      BY <1>2, <3>3 DEF ThreadStep, CredentialsKept
    <3>. QED BY <1>5, <1>7, <3>1, <3>4
  <2>. QED BY <2>1, <2>2
<1>. QED BY <1>3, <1>4, <1>6, <1>7 DEF CandidateAlone

LEMMA ThreadKeepsSent ==
  ASSUME SessionInv, NEW c \in calls, NEW r, ThreadStep(c, r)
  PROVE  SentIsCurrent'
<1>. SUFFICES ASSUME NEW d \in calls', Sent(d)
              PROVE  LET e == cycles'[d.cycle].engine IN
                     /\ d.user \in Users /\ d.gen <= backend'[e].gen
                     /\ d.gen = backend'[e].gen => d.rev = backend'[e].rev
                     /\ d.what \in {"data", "detail"} => d.gen # 0 /\ cycles'[d.cycle].pin = d.gen
  <2>1. \A d \in calls' : d.state = "queued" => d.gen = 0
    BY DEF SessionInv, SentIsCurrent, ThreadStep, SameRead
  <2>. QED BY <2>1 DEF SentIsCurrent, Sent, EngineOf, Pin
<1>1. SessionTypeOK /\ SentIsCurrent
  BY DEF SessionInv
<1>2. CASE d = r
  <2>1. cycles'[d.cycle].engine = EngineOf(c) /\ d.cycle = c.cycle /\ d.what = c.what
    BY <1>1, <1>2, CallTypes DEF ThreadStep, SameRead, PinsKept, EngineOf
  <2>. QED BY <1>2, <2>1 DEF ThreadStep, ReadBy, Sent
<1>3. CASE d # r
  <2>1. d \in calls
    BY <1>3 DEF ThreadStep
  <2>. DEFINE e == EngineOf(d)
  <2>2. /\ d \in Calls /\ d.cycle \in DOMAIN cycles /\ e \in Engines /\ cycles[d.cycle] \in Cycles
        /\ backend[e].gen \in Nat /\ d.gen \in Nat
    BY <1>1, <2>1, CallTypes DEF Calls, Backends
  <2>3. /\ d.user \in Users /\ d.gen <= backend[e].gen
        /\ d.gen = backend[e].gen => d.rev = backend[e].rev
        /\ d.what \in {"data", "detail"} => d.gen # 0 /\ cycles[d.cycle].pin = d.gen
    BY <1>1, <2>1 DEF SentIsCurrent, Pin
  <2>4. cycles'[d.cycle].engine = e /\ (cycles[d.cycle].pin # 0 => cycles'[d.cycle].pin = cycles[d.cycle].pin)
    BY <2>2 DEF ThreadStep, PinsKept, EngineOf
  <2>5. \/ backend'[e].gen = backend[e].gen /\ backend'[e].rev = backend[e].rev
        \/ backend'[e].gen = backend[e].gen + 1
    BY <2>2 DEF ThreadStep, CredentialsKept
  <2>. HIDE DEF e
  <2>6. d.gen <= backend'[e].gen /\ (d.gen = backend'[e].gen => d.rev = backend'[e].rev)
    BY <2>2, <2>3, <2>5
  <2>. QED BY <2>3, <2>4, <2>6
<1>. QED BY <1>2, <1>3

LEMMA ThreadKeepsHeader ==
  ASSUME SessionInv, NEW c \in calls, NEW r, ThreadStep(c, r)
  PROVE  HeaderHolds' /\ (Synchronized' => Synchronized)
<1>1. SessionTypeOK /\ HeaderHolds /\ CyclesHold /\ SentIsCurrent
  BY DEF SessionInv
<1>2. /\ ui' = ui /\ engine' = engine /\ kind' = kind /\ refresh' = refresh
      /\ (Live' <=> Live) /\ engine \in Engines
  BY <1>1, ThreadKeepsCycles DEF ThreadStep, Unread, SessionTypeOK
<1>3. /\ backend[engine].rev \in Nat /\ ui.rev \in Nat /\ ui.rev <= backend[engine].rev
      /\ backend[engine].known \in Known /\ backend'[engine].known \in Known
  BY <1>1, <1>2 DEF SessionTypeOK, Backends, Screens, CyclesHold, ThreadStep
<1>4. backend'[engine].rev \in {backend[engine].rev, backend[engine].rev + 1}
  BY <1>2 DEF ThreadStep, CredentialsKept
<1>5. backend[engine].known \in {NoUser, backend'[engine].known} \/ backend'[engine].rev = backend[engine].rev + 1
  BY <1>2 DEF ThreadStep, CredentialsKept
<1>6. Synchronized' => Synchronized /\ backend[engine].known \in {NoUser, backend'[engine].known}
  BY <1>2, <1>3, <1>4, <1>5 DEF Synchronized
<1>7. Synchronized' => ui'.header \in {NoUser, backend'[engine'].known}
  BY <1>1, <1>2, <1>6 DEF HeaderHolds
<1>8. ASSUME NEW d \in calls', d.cycle = refresh, Live
      PROVE  /\ d.what = "whoami" /\ d.state = "answered" /\ Synchronized' => d.user = backend'[engine].known
             /\ kind[engine] = "http" /\ d.what \in {"features", "data"} => ui.header # NoUser
  <2>1. CASE d = r
    <3>1. c.cycle = refresh /\ d.what = c.what /\ EngineOf(c) = engine
      BY <1>1, <1>8, <2>1 DEF ThreadStep, SameRead, CyclesHold, Live, EngineOf
    <3>2. kind[engine] = "http" /\ c.what \in {"features", "data"} => ui.header # NoUser
      BY <1>1, <1>8, <3>1 DEF HeaderHolds
    <3>. QED BY <2>1, <3>1, <3>2 DEF ThreadStep, ReadBy
  <2>2. CASE d # r
    <3>1. d \in calls
      BY <2>2 DEF ThreadStep
    <3>2. Sent(d) => d.user \in Users
      BY <1>1, <3>1 DEF SentIsCurrent
    <3>3. d.state = "answered" => d.user # NoUser
      BY <3>2, ConsoleAssumption DEF Sent
    <3>. QED BY <1>1, <1>6, <1>8, <3>1, <3>3 DEF HeaderHolds
  <2>. QED BY <2>1, <2>2
<1>. QED BY <1>2, <1>6, <1>7, <1>8 DEF HeaderHolds

LEMMA ThreadKeepsPages ==
  ASSUME SessionInv, NEW c \in calls, NEW r, ThreadStep(c, r)
  PROVE  PagesHold' /\ DataHolds' /\ ShownIsVerified' /\ ShownForSignIn'
<1>1. PagesHold /\ DataHolds /\ ShownIsVerified /\ ShownForSignIn /\ SessionTypeOK
  BY DEF SessionInv
<1>2. /\ ui' = ui /\ engine' = engine /\ data' = data /\ screen' = screen /\ refresh' = refresh
      /\ (Live' <=> Live) /\ cli'.user = cli.user /\ cli'.logins = cli.logins
  BY ThreadKeepsCycles DEF ThreadStep, Unread
<1>3. PagesHold'
  <2>1. \A d \in calls' : d \in calls \/ (d.cycle = c.cycle /\ d.what = c.what /\ d.page = c.page /\ d.month = c.month)
    BY DEF ThreadStep, SameRead
  <2>2. PageMatchesQuery'
    BY <1>1, <1>2 DEF PagesHold, PageMatchesQuery
  <2>. QED BY <1>1, <1>2, <2>1, <2>2 DEF PagesHold
<1>4. DataHolds'
  <2>1. refresh # 0 => cycles'[refresh].since = cycles[refresh].since
    BY <1>1, InCycles DEF ThreadStep, PinsKept
  <2>. QED BY <1>1, <1>2, <2>1 DEF DataHolds, Live
<1>5. ShownIsVerified'
  <2>1. engine \in Engines /\ (Synchronized' => Synchronized)
    BY <1>1, ThreadKeepsHeader DEF SessionTypeOK
  <2>2. (\A t \in Tabs : data[t] = NoData) \/ (Synchronized' => ui.header \in {NoUser, backend'[engine].known})
    BY <1>2, ThreadKeepsHeader DEF HeaderHolds
  <2>. QED BY <1>1, <1>2, <2>1, <2>2 DEF ShownIsVerified
<1>6. ShownForSignIn'
  BY <1>1, <1>2 DEF ShownForSignIn
<1>. QED BY <1>3, <1>4, <1>5, <1>6

LEMMA ThreadKeepsLatest ==
  ASSUME SessionInv, NEW c \in calls, NEW r, ThreadStep(c, r)
  PROVE  LatestHolds'
<1>1. SessionTypeOK /\ LatestHolds /\ CyclesHold /\ SentIsCurrent
  BY DEF SessionInv
<1>2. /\ ui' = ui /\ engine' = engine /\ kind' = kind /\ refresh' = refresh /\ cli'.user = cli.user
      /\ (Live' <=> Live) /\ (Latest' <=> Latest) /\ engine \in Engines /\ kind[engine] \in {"http", "direct"}
  BY <1>1, ThreadKeepsCycles DEF ThreadStep, Unread, SessionTypeOK
<1>. SUFFICES ASSUME Latest PROVE LatestHolds'
  BY <1>2 DEF LatestHolds
<1>3. refresh \in DOMAIN cycles /\ cycles[refresh] \in Cycles /\ cycles[refresh].engine = engine
  BY <1>1, InCycles DEF Latest, CyclesHold
<1>4. /\ backend[engine].gen \in Nat /\ cycles[refresh].pin \in Nat /\ cycles[refresh].pin <= backend[engine].gen
      /\ cli.user \in Users /\ backend[engine].bound \in Known
  BY <1>1, <1>2, <1>3 DEF SessionTypeOK, Backends, Cycles
<1>5. /\ kind[engine] = "direct" /\ cycles[refresh].pin = backend[engine].gen => backend[engine].bound = cli.user
      /\ Live /\ ~ui.verifying => ui.header \in {NoUser, cli.user}
      /\ \A d \in calls :
            /\ kind[engine] = "http" /\ Asked(d) => backend[engine].bound \in {NoUser, cli.user}
            /\ d.cycle = refresh /\ Sent(d) /\ d.what \in {"whoami", "data"} => d.user = cli.user
            /\ d.cycle = refresh /\ Live /\ d.what = "features" => ui.header \in {NoUser, cli.user}
  BY <1>1 DEF LatestHolds
<1>6. /\ kind[engine] = "http" => backend'[engine].bound \in {NoUser, backend[engine].bound, cli.user}
      /\ kind[engine] = "direct" /\ backend'[engine].gen = backend[engine].gen =>
            backend'[engine].bound \in {backend[engine].bound, cli.user}
      /\ backend'[engine].gen \in {backend[engine].gen, backend[engine].gen + 1}
  BY <1>2 DEF ThreadStep, CredentialsKept
<1>7. kind[engine] = "direct" /\ cycles'[refresh].pin = backend'[engine].gen => backend'[engine].bound = cli.user
  <2>. SUFFICES ASSUME kind[engine] = "direct", cycles'[refresh].pin = backend'[engine].gen
                PROVE  backend'[engine].bound = cli.user
    OBVIOUS
  <2>1. backend'[engine].gen # 0
    BY <1>2 DEF ThreadStep, SessionTypeOK, Backends
  <2>2. CASE cycles'[refresh].pin = cycles[refresh].pin
    BY <1>4, <1>5, <1>6, <2>2
  <2>3. CASE cycles'[refresh].pin # cycles[refresh].pin
    <3>1. refresh = c.cycle /\ cycles[refresh].pin = 0 /\ EngineOf(c) = engine
      BY <1>3, <2>3 DEF ThreadStep, PinsKept, EngineOf
    <3>. QED BY <2>1, <3>1 DEF ThreadStep, ReadBy
  <2>. QED BY <2>2, <2>3
<1>8. ASSUME NEW d \in calls'
      PROVE  /\ kind[engine] = "http" /\ Asked(d) => backend'[engine].bound \in {NoUser, cli.user}
             /\ d.cycle = refresh /\ Sent(d) /\ d.what \in {"whoami", "data"} => d.user = cli.user
             /\ d.cycle = refresh /\ Live /\ d.what = "features" => ui.header \in {NoUser, cli.user}
  <2>1. CASE d = r
    <3>1. d.cycle = refresh => EngineOf(c) = engine /\ c.cycle = refresh
      BY <1>3, <2>1 DEF ThreadStep, SameRead, EngineOf
    <3>2. d.what = c.what
      BY <2>1 DEF ThreadStep, SameRead
    <3>3. ASSUME kind[engine] = "http", Asked(d) PROVE backend'[engine].bound \in {NoUser, cli.user}
      <4>1. CASE c.what = "whoami" /\ c.state = "queued"
        BY <2>1, <3>1, <3>3, <4>1 DEF ThreadStep, ReadBy, Asked
      <4>2. CASE ~(c.what = "whoami" /\ c.state = "queued")
        <5>1. Asked(c)
          BY <3>1, <3>3, <4>2 DEF Asked, ThreadStep, SameRead
        <5>. QED BY <1>5, <1>6, <3>3, <5>1
      <4>. QED BY <4>1, <4>2
    <3>4. ASSUME d.cycle = refresh, Sent(d), d.what \in {"whoami", "data"} PROVE d.user = cli.user
      <4>1. \/ d.user = cli.user
            \/ Sent(c) /\ d.user = c.user
            \/ kind[engine] = "http" /\ c.what = "data" /\ d.user = backend[engine].bound
            \/ /\ kind[engine] = "direct" /\ d.user = backend[engine].bound /\ cycles[refresh].pin = backend[engine].gen
        BY <2>1, <3>1, <3>2, <3>4 DEF ThreadStep, ReadBy
      <4>2. Sent(c) => c.user = cli.user
        BY <1>5, <3>1, <3>2, <3>4
      <4>3. ASSUME kind[engine] = "http", c.what = "data", d.user = backend[engine].bound
            PROVE  d.user = cli.user
        <5>1. Asked(c)
          BY <3>1, <3>4, <4>3 DEF Asked, ThreadStep, SameRead
        <5>2. d.user # NoUser
          BY <2>1, <3>4, ConsoleAssumption DEF ThreadStep, ReadBy
        <5>. QED BY <1>5, <4>3, <5>1, <5>2
      <4>. QED BY <1>5, <4>1, <4>2, <4>3
    <3>. QED BY <1>5, <3>1, <3>2, <3>3, <3>4
  <2>2. CASE d # r
    <3>1. d \in calls
      BY <2>2 DEF ThreadStep
    <3>. QED BY <1>5, <1>6, <3>1
  <2>. QED BY <2>1, <2>2
<1>. QED BY <1>2, <1>3, <1>5, <1>7, <1>8 DEF LatestHolds, Asked, Sent

LEMMA ThreadKeeps ==
  ASSUME SessionInv, NEW c \in calls, NEW r, ThreadStep(c, r)
  PROVE  SessionInv'
<1>1. SessionTypeOK'
  BY DEF ThreadStep
<1>. QED BY <1>1, ThreadKeepsCycles, ThreadKeepsCandidate, ThreadKeepsSent, ThreadKeepsHeader, ThreadKeepsPages, ThreadKeepsLatest
         DEF SessionInv

(* The types, and what is kept by construction, of a thread that gives     *)
(* connection e the credentials b and pins its cycle to g.                 *)
LEMMA ThreadTypes ==
  ASSUME SessionTypeOK, NEW c \in calls, NEW r \in Calls, SameRead(c, r), calls' \subseteq (calls \ {c}) \cup {r},
         Unread, cli' \in [user : Users, logins : 0..MaxTrouble, faults : 0..MaxTrouble],
         NEW b \in Backends, backend' = [backend EXCEPT ![EngineOf(c)] = b], backend[EngineOf(c)].gen <= b.gen,
         NEW g \in Nat, g <= b.gen, Pin(c) # 0 => g = Pin(c), cycles' = [cycles EXCEPT ![c.cycle].pin = g]
  PROVE  /\ SessionTypeOK' /\ PinsKept(c.cycle) /\ cycles'[c.cycle].pin = g
         /\ backend'[EngineOf(c)] = b /\ \A x \in Engines \ {EngineOf(c)} : backend'[x] = backend[x]
<1>. DEFINE e == EngineOf(c)
<1>1. /\ c \in Calls /\ c.cycle \in DOMAIN cycles /\ e \in Engines /\ cycles \in Seq(Cycles)
      /\ backend \in [Engines -> Backends] /\ e = cycles[c.cycle].engine
  BY CallTypes DEF SessionTypeOK, EngineOf
<1>2. /\ cycles' \in Seq(Cycles) /\ DOMAIN cycles' = DOMAIN cycles /\ Len(cycles') = Len(cycles)
      /\ cycles'[c.cycle].pin = g /\ \A m \in DOMAIN cycles : m # c.cycle => cycles'[m] = cycles[m]
      /\ \A m \in DOMAIN cycles : /\ cycles'[m].engine = cycles[m].engine /\ cycles'[m].serial = cycles[m].serial
                                  /\ cycles'[m].tab = cycles[m].tab /\ cycles'[m].since = cycles[m].since
  BY <1>1, PinnedCycles
<1>. HIDE DEF e
<1>3. backend' = [backend EXCEPT ![e] = b] /\ backend[e].gen <= b.gen
  BY DEF e
<1>4. backend' \in [Engines -> Backends] /\ backend'[e] = b /\ \A x \in Engines \ {e} : backend'[x] = backend[x]
  <2>1. backend' \in [Engines -> Backends]
    BY <1>1, <1>3
  <2>2. backend'[e] = b
    BY <1>1, <1>3
  <2>3. \A x \in Engines \ {e} : backend'[x] = backend[x]
    BY <1>1, <1>3
  <2>. QED BY <2>1, <2>2, <2>3
<1>5. PinsKept(c.cycle)
  BY <1>1, <1>2 DEF PinsKept, Pin
<1>6. \A n \in DOMAIN cycles' : cycles'[n].pin <= backend'[cycles'[n].engine].gen
  <2>. SUFFICES ASSUME NEW n \in DOMAIN cycles PROVE cycles'[n].pin <= backend'[cycles[n].engine].gen
    BY <1>2
  <2>1. /\ cycles[n].pin \in Nat /\ cycles[n].engine \in Engines /\ cycles[n].pin <= backend[cycles[n].engine].gen
        /\ backend[e].gen \in Nat /\ b.gen \in Nat
    BY <1>1, InCycles DEF SessionTypeOK, Cycles, Backends
  <2>2. CASE n = c.cycle
    BY <1>1, <1>2, <1>4, <2>2
  <2>3. CASE n # c.cycle
    <3>1. cycles'[n].pin = cycles[n].pin
      BY <1>2, <2>3
    <3>2. CASE cycles[n].engine = e
      BY <1>3, <1>4, <2>1, <3>1, <3>2
    <3>3. CASE cycles[n].engine # e
      BY <1>4, <2>1, <3>1, <3>3
    <3>. QED BY <3>2, <3>3
  <2>. QED BY <2>2, <2>3
<1>7. calls' \subseteq Calls /\ \A d \in calls' : d.cycle \in DOMAIN cycles'
  BY <1>1, <1>2 DEF SessionTypeOK, SameRead
<1>8. SessionTypeOK'
  BY <1>2, <1>4, <1>6, <1>7 DEF SessionTypeOK, Unread
<1>. QED BY <1>2, <1>4, <1>5, <1>8 DEF e

(* A step that leaves the credentials, or a pin, as they are. *)
LEMMA SameCredentials ==
  ASSUME SessionTypeOK, NEW c \in calls
  PROVE  /\ backend = [backend EXCEPT ![EngineOf(c)] = backend[EngineOf(c)]]
         /\ cycles = [cycles EXCEPT ![c.cycle].pin = Pin(c)]
<1>1. c.cycle \in DOMAIN cycles /\ cycles[c.cycle] \in Cycles /\ EngineOf(c) \in Engines
  BY CallTypes
<1>2. cycles[c.cycle] = [cycles[c.cycle] EXCEPT !.pin = cycles[c.cycle].pin]
  BY <1>1 DEF Cycles
<1>3. cycles = [cycles EXCEPT ![c.cycle] = cycles[c.cycle]]
  BY DEF SessionTypeOK
<1>4. [cycles EXCEPT ![c.cycle].pin = Pin(c)] = [cycles EXCEPT ![c.cycle] = [cycles[c.cycle] EXCEPT !.pin = cycles[c.cycle].pin]]
  BY DEF Pin
<1>5. backend = [backend EXCEPT ![EngineOf(c)] = backend[EngineOf(c)]]
  BY <1>1 DEF SessionTypeOK
<1>. QED BY <1>2, <1>3, <1>4, <1>5

(* Credentials with another generation, or under another user. *)
LEMMA SetIs ==
  ASSUME SessionTypeOK, NEW e \in Engines, NEW g \in Nat \ {0}, NEW user \in Known, Set(e, g, user)
  PROVE  \E b \in Backends : /\ backend' = [backend EXCEPT ![e] = b]
                             /\ b.gen = g /\ b.bound = user /\ b.known = backend[e].known
                             /\ b.rev = backend[e].rev /\ b.state = backend[e].state
<1>. DEFINE b == [backend[e] EXCEPT !.gen = g, !.bound = user]
<1>1. backend \in [Engines -> Backends] /\ backend[e] \in Backends
  BY DEF SessionTypeOK
<1>2. /\ b \in Backends /\ b.gen = g /\ b.bound = user /\ b.known = backend[e].known
      /\ b.rev = backend[e].rev /\ b.state = backend[e].state
  BY <1>1 DEF Backends
<1>3. backend' = [backend EXCEPT ![e] = b]
  BY <1>1 DEF Set
<1>. QED BY <1>2, <1>3

(* A read that fails touches nothing of the sign-in. *)
LEMMA FailKeeps ==
  ASSUME SessionInv, NEW c \in calls, c.state \in {"queued", "sent"}, Fails(c), Unread, UNCHANGED <<cycles, backend>>,
         cli' \in [user : Users, logins : 0..MaxTrouble, faults : 0..MaxTrouble],
         cli'.user = cli.user, cli'.logins = cli.logins
  PROVE  SessionInv'
<1>. DEFINE r == [c EXCEPT !.state = "failed", !.user = c.user]
<1>1. SessionTypeOK
  BY DEF SessionInv
<1>2. /\ c \in Calls /\ EngineOf(c) \in Engines /\ backend[EngineOf(c)] \in Backends /\ Pin(c) \in Nat
      /\ Pin(c) <= backend[EngineOf(c)].gen
  BY <1>1, CallTypes
<1>3. r \in Calls /\ r.state = "failed" /\ SameRead(c, r)
  BY <1>2 DEF Calls, CallStates, SameRead
<1>4. calls' \subseteq (calls \ {c}) \cup {r}
  BY DEF Fails, Answer
<1>. HIDE DEF r
<1>5. /\ SessionTypeOK' /\ PinsKept(c.cycle) /\ backend'[EngineOf(c)] = backend[EngineOf(c)]
      /\ cycles'[c.cycle].pin = Pin(c)
      /\ \A x \in Engines \ {EngineOf(c)} : backend'[x] = backend[x]
  <2>1. PICK b \in Backends, g \in Nat : b = backend[EngineOf(c)] /\ g = Pin(c)
    BY <1>2
  <2>2. backend' = [backend EXCEPT ![EngineOf(c)] = b] /\ cycles' = [cycles EXCEPT ![c.cycle].pin = g]
    BY <1>1, <2>1, SameCredentials
  <2>3. backend[EngineOf(c)].gen <= b.gen /\ g <= b.gen /\ (Pin(c) # 0 => g = Pin(c))
    BY <1>2, <2>1 DEF Backends
  <2>4. /\ SessionTypeOK' /\ PinsKept(c.cycle) /\ cycles'[c.cycle].pin = g
        /\ backend'[EngineOf(c)] = b /\ \A x \in Engines \ {EngineOf(c)} : backend'[x] = backend[x]
    BY <1>1, <1>3, <1>4, <2>2, <2>3, ThreadTypes
  <2>. QED BY <2>1, <2>4
<1>6. CredentialsKept(EngineOf(c))
  BY <1>5 DEF CredentialsKept
<1>7. ReadBy(c, r)
  BY <1>3, <1>5 DEF ReadBy, Sent, Pin
<1>8. ThreadStep(c, r)
  BY <1>3, <1>4, <1>5, <1>6, <1>7 DEF ThreadStep
<1>. QED BY <1>8, ThreadKeeps

(* Sending, whoever's token goes along: the read is of the connection's    *)
(* credentials, and a cycle that reads is pinned to them.                  *)
LEMMA SendHttpKeeps ==
  ASSUME SessionInv, NEW c \in calls, SendHttp(c)
  PROVE  SessionInv'
<1>. DEFINE e == EngineOf(c)
            user == Token(e, c.what)
<1>1. SessionTypeOK
  BY DEF SessionInv
<1>2. /\ c \in Calls /\ e \in Engines /\ backend[e] \in Backends /\ Pin(c) \in Nat /\ Pin(c) <= backend[e].gen
      /\ kind[e] = "http" /\ c.state = "queued" /\ c.what # "features" /\ Unread /\ cli' = cli
  BY <1>1, CallTypes DEF SendHttp, Unread
<1>3. /\ cli \in [user : Users, logins : 0..MaxTrouble, faults : 0..MaxTrouble] /\ cli.user \in Users
      /\ backend[e].gen \in Nat \ {0} /\ backend[e].rev \in Nat /\ backend[e].bound \in Known
  BY <1>1, <1>2 DEF SessionTypeOK, Backends
<1>4. user \in Users /\ user \in {backend[e].bound, cli.user} /\ (c.what = "whoami" => user = cli.user)
  BY <1>3 DEF Token, Known
<1>5. CASE ~Valid(c.cycle)
  BY <1>2, <1>3, <1>5, FailKeeps DEF SendHttp
<1>6. CASE Valid(c.cycle)
  <2>. DEFINE s == [c EXCEPT !.state = "sent", !.gen = backend[e].gen, !.rev = backend[e].rev, !.user = user]
              h == IF c.what = "whoami" THEN Pin(c) ELSE backend[e].gen
  <2>1. calls' \subseteq (calls \ {c}) \cup {s} /\ Pinned(c, h) /\ Set(e, backend[e].gen, user)
    BY <1>6 DEF SendHttp
  <2>2. /\ s \in Calls /\ SameRead(c, s) /\ s.state = "sent" /\ s.gen = backend[e].gen /\ s.rev = backend[e].rev
        /\ s.user = user
    BY <1>2, <1>3, <1>4 DEF Calls, CallStates, SameRead, Known
  <2>3. h \in Nat /\ h <= backend[e].gen /\ (Pin(c) # 0 => h = Pin(c)) /\ (c.what # "whoami" => h = backend[e].gen)
    BY <1>2, <1>3, <1>6 DEF Valid, Pin, EngineOf
  <2>4. PICK b \in Backends : /\ backend' = [backend EXCEPT ![e] = b]
                              /\ b.gen = backend[e].gen /\ b.bound = user /\ b.known = backend[e].known
                              /\ b.rev = backend[e].rev /\ b.state = backend[e].state
    BY <1>1, <1>2, <1>3, <1>4, <2>1, SetIs DEF Known
  <2>5. PICK r \in Calls, g \in Nat : r = s /\ g = h
    BY <2>2, <2>3
  <2>. HIDE DEF s, h, user
  <2>6. cycles' = [cycles EXCEPT ![c.cycle].pin = g] /\ (Pin(c) # 0 => g = Pin(c)) /\ g <= b.gen
        /\ backend[e].gen <= b.gen /\ SameRead(c, r) /\ calls' \subseteq (calls \ {c}) \cup {r}
    BY <1>3, <2>1, <2>2, <2>3, <2>4, <2>5 DEF Pinned
  <2>7. /\ SessionTypeOK' /\ PinsKept(c.cycle) /\ cycles'[c.cycle].pin = g
        /\ backend'[e] = b /\ \A x \in Engines \ {e} : backend'[x] = backend[x]
    BY <1>1, <1>2, <1>3, <2>4, <2>6, ThreadTypes
  <2>8. CredentialsKept(e)
    BY <1>2, <1>4, <2>4, <2>7 DEF CredentialsKept
  <2>9. ReadBy(c, r)
    BY <1>2, <1>3, <1>4, <2>2, <2>3, <2>4, <2>5, <2>7 DEF ReadBy, Sent, Calls, Reads
  <2>10. ThreadStep(c, r)
    BY <1>2, <2>6, <2>7, <2>8, <2>9 DEF ThreadStep
  <2>. QED BY <2>10, ThreadKeeps
<1>. QED BY <1>5, <1>6

(* Direct's first read of a cycle takes up whoever the CLI says. *)
LEMMA SendDirectKeeps ==
  ASSUME SessionInv, NEW c \in calls, SendDirect(c)
  PROVE  SessionInv'
<1>. DEFINE e == EngineOf(c)
            h == IF backend[e].bound = cli.user THEN backend[e].gen ELSE backend[e].gen + 1
<1>1. SessionTypeOK
  BY DEF SessionInv
<1>2. /\ c \in Calls /\ e \in Engines /\ backend[e] \in Backends /\ Pin(c) \in Nat /\ Pin(c) <= backend[e].gen
      /\ kind[e] = "direct" /\ c.state = "queued" /\ c.what # "features" /\ Unread /\ cli' = cli
  BY <1>1, CallTypes DEF SendDirect, Unread
<1>3. /\ cli \in [user : Users, logins : 0..MaxTrouble, faults : 0..MaxTrouble] /\ cli.user \in Users
      /\ backend[e].gen \in Nat \ {0} /\ backend[e].rev \in Nat /\ backend[e].bound \in Known
  BY <1>1, <1>2 DEF SessionTypeOK, Backends
<1>4. CASE Pin(c) = 0 /\ Pinned(c, h) /\ Set(e, h, cli.user) /\
           calls' = (calls \ {c}) \cup
               {[c EXCEPT !.state = "sent", !.gen = h, !.rev = backend[e].rev, !.user = cli.user]}
  <2>. DEFINE s == [c EXCEPT !.state = "sent", !.gen = h, !.rev = backend[e].rev, !.user = cli.user]
  <2>1. /\ h \in Nat \ {0} /\ backend[e].gen <= h /\ h \in {backend[e].gen, backend[e].gen + 1}
        /\ (h = backend[e].gen => backend[e].bound = cli.user)
    BY <1>3
  <2>. HIDE DEF h
  <2>2. /\ s \in Calls /\ SameRead(c, s) /\ s.state = "sent" /\ s.gen = h /\ s.rev = backend[e].rev
        /\ s.user = cli.user
    BY <1>2, <1>3, <2>1 DEF Calls, CallStates, SameRead, Known
  <2>3. PICK b \in Backends : /\ backend' = [backend EXCEPT ![e] = b]
                              /\ b.gen = h /\ b.bound = cli.user /\ b.known = backend[e].known
                              /\ b.rev = backend[e].rev /\ b.state = backend[e].state
    BY <1>1, <1>2, <1>3, <1>4, <2>1, SetIs DEF Known
  <2>4. PICK r \in Calls, g \in Nat : r = s /\ g = h
    BY <2>1, <2>2
  <2>5. cycles' = [cycles EXCEPT ![c.cycle].pin = g] /\ (Pin(c) # 0 => g = Pin(c)) /\ g <= b.gen
        /\ backend[e].gen <= b.gen /\ SameRead(c, r) /\ calls' \subseteq (calls \ {c}) \cup {r}
    BY <1>4, <2>1, <2>2, <2>3, <2>4 DEF Pinned
  <2>. HIDE DEF s
  <2>6. /\ SessionTypeOK' /\ PinsKept(c.cycle) /\ cycles'[c.cycle].pin = g
        /\ backend'[e] = b /\ \A x \in Engines \ {e} : backend'[x] = backend[x]
    BY <1>1, <1>2, <1>3, <2>3, <2>5, ThreadTypes
  <2>7. CredentialsKept(e)
    BY <1>2, <1>3, <2>1, <2>3, <2>6 DEF CredentialsKept
  <2>8. ReadBy(c, r)
    BY <1>2, <1>3, <2>1, <2>2, <2>3, <2>4, <2>6 DEF ReadBy, Sent
  <2>9. ThreadStep(c, r)
    BY <1>2, <2>5, <2>6, <2>7, <2>8 DEF ThreadStep
  <2>. QED BY <2>9, ThreadKeeps
<1>5. CASE Pin(c) # 0 /\ Valid(c.cycle) /\ UNCHANGED <<cycles, backend>> /\
           calls' = (calls \ {c}) \cup
               {[c EXCEPT !.state = "sent", !.gen = Pin(c), !.rev = backend[e].rev, !.user = backend[e].bound]}
  <2>. DEFINE s == [c EXCEPT !.state = "sent", !.gen = Pin(c), !.rev = backend[e].rev, !.user = backend[e].bound]
  <2>1. Pin(c) = backend[e].gen /\ backend[e].bound \in Users
    <3>1. Pin(c) = backend[e].gen
      BY <1>5 DEF Valid, Pin, EngineOf
    <3>2. c.cycle \in DOMAIN cycles
      BY <1>1, CallTypes
    <3>3. backend[e].bound # NoUser
      BY <1>2, <3>1, <3>2 DEF SessionInv, CyclesHold, Pin, EngineOf
    <3>. QED BY <1>3, <3>1, <3>3 DEF Known
  <2>2. /\ s \in Calls /\ SameRead(c, s) /\ s.state = "sent" /\ s.gen = Pin(c) /\ s.rev = backend[e].rev
        /\ s.user = backend[e].bound
    BY <1>2, <1>3 DEF Calls, CallStates, SameRead, Known
  <2>3. PICK b \in Backends, r \in Calls, g \in Nat : b = backend[e] /\ r = s /\ g = Pin(c)
    BY <1>2, <2>2
  <2>4. calls' \subseteq (calls \ {c}) \cup {r}
    BY <1>5, <2>3
  <2>. HIDE DEF s
  <2>5. /\ backend' = [backend EXCEPT ![e] = b] /\ cycles' = [cycles EXCEPT ![c.cycle].pin = g]
        /\ g <= b.gen /\ backend[e].gen <= b.gen /\ SameRead(c, r) /\ (Pin(c) # 0 => g = Pin(c))
    BY <1>1, <1>2, <1>3, <1>5, <2>2, <2>3, SameCredentials
  <2>6. /\ SessionTypeOK' /\ PinsKept(c.cycle) /\ cycles'[c.cycle].pin = g
        /\ backend'[e] = b /\ \A x \in Engines \ {e} : backend'[x] = backend[x]
    BY <1>1, <1>2, <1>3, <2>4, <2>5, ThreadTypes
  <2>7. CredentialsKept(e)
    BY <1>2, <1>3, <2>3, <2>6 DEF CredentialsKept
  <2>8. ReadBy(c, r)
    BY <1>2, <1>3, <1>5, <2>1, <2>2, <2>3, <2>6 DEF ReadBy, Sent, Pin
  <2>9. ThreadStep(c, r)
    BY <1>2, <2>4, <2>5, <2>6, <2>7, <2>8 DEF ThreadStep
  <2>. QED BY <2>9, ThreadKeeps
<1>6. CASE ~Valid(c.cycle) /\ Fails(c) /\ UNCHANGED <<cycles, backend>>
  BY <1>2, <1>3, <1>6, FailKeeps
<1>. QED BY <1>4, <1>5, <1>6 DEF SendDirect

LEMMA ReadFailsKeeps ==
  ASSUME SessionInv, NEW c \in calls, ReadFails(c)
  PROVE  SessionInv'
<1>1. cli \in [user : Users, logins : 0..MaxTrouble, faults : 0..MaxTrouble] /\ MaxTrouble \in Nat
  BY ConsoleAssumption DEF SessionInv, SessionTypeOK
<1>2. /\ cli' \in [user : Users, logins : 0..MaxTrouble, faults : 0..MaxTrouble]
      /\ cli'.user = cli.user /\ cli'.logins = cli.logins
  BY <1>1 DEF ReadFails
<1>. QED BY <1>2, FailKeeps DEF ReadFails, Unread

(* An answer counts only under the credentials it was asked under. *)
LEMMA ReadReturnsKeeps ==
  ASSUME SessionInv, NEW c \in calls, ReadReturns(c)
  PROVE  SessionInv'
<1>. DEFINE e == EngineOf(c)
            s == [c EXCEPT !.state = "answered", !.user = Reader(c)]
<1>1. SessionTypeOK /\ SentIsCurrent
  BY DEF SessionInv
<1>2. /\ c \in Calls /\ e \in Engines /\ backend[e] \in Backends /\ Pin(c) \in Nat /\ Pin(c) <= backend[e].gen
      /\ c.state = "sent" /\ c.what # "whoami" /\ Unread /\ cli' = cli /\ UNCHANGED <<cycles, backend>>
      /\ c.cycle \in DOMAIN cycles
  BY <1>1, CallTypes DEF ReadReturns, Unread
<1>3. /\ cli \in [user : Users, logins : 0..MaxTrouble, faults : 0..MaxTrouble] /\ cli.user \in Users
      /\ backend[e].gen \in Nat \ {0}
  BY <1>1, <1>2 DEF SessionTypeOK, Backends
<1>4. /\ c.user \in Users /\ c.gen <= backend[e].gen
      /\ c.gen = backend[e].gen => c.rev = backend[e].rev
      /\ c.what \in {"data", "detail"} => c.gen # 0 /\ Pin(c) = c.gen
  BY <1>1, <1>2 DEF SentIsCurrent, Sent
<1>5. CASE ~(c.gen = backend[e].gen /\ Valid(c.cycle))
  BY <1>2, <1>3, <1>5, FailKeeps DEF ReadReturns
<1>6. CASE c.gen = backend[e].gen /\ Valid(c.cycle)
  <2>1. calls' \subseteq (calls \ {c}) \cup {s}
    BY <1>6 DEF ReadReturns, Answer
  <2>2. /\ s \in Calls /\ SameRead(c, s) /\ s.state = "answered" /\ s.gen = c.gen /\ s.rev = c.rev
        /\ s.user \in {cli.user, c.user}
    BY <1>2, <1>3, <1>4 DEF Calls, CallStates, SameRead, Known, Reader
  <2>3. PICK b \in Backends, r \in Calls, g \in Nat : b = backend[e] /\ r = s /\ g = Pin(c)
    BY <1>2, <2>2
  <2>4. calls' \subseteq (calls \ {c}) \cup {r}
    BY <2>1, <2>3
  <2>. HIDE DEF s
  <2>5. /\ backend' = [backend EXCEPT ![e] = b] /\ cycles' = [cycles EXCEPT ![c.cycle].pin = g]
        /\ g <= b.gen /\ backend[e].gen <= b.gen /\ SameRead(c, r) /\ (Pin(c) # 0 => g = Pin(c))
    BY <1>1, <1>2, <1>3, <2>2, <2>3, SameCredentials
  <2>6. /\ SessionTypeOK' /\ PinsKept(c.cycle) /\ cycles'[c.cycle].pin = g
        /\ backend'[e] = b /\ \A x \in Engines \ {e} : backend'[x] = backend[x]
    BY <1>1, <1>2, <1>3, <2>4, <2>5, ThreadTypes
  <2>7. CredentialsKept(e)
    BY <1>2, <1>3, <2>3, <2>6 DEF CredentialsKept
  <2>8. ReadBy(c, r)
    BY <1>2, <1>3, <1>4, <2>2, <2>3, <2>6 DEF ReadBy, Sent, Pin
  <2>9. ThreadStep(c, r)
    BY <1>2, <2>4, <2>5, <2>6, <2>7, <2>8 DEF ThreadStep
  <2>. QED BY <2>9, ThreadKeeps
<1>. QED BY <1>5, <1>6

LEMMA ReadFeaturesKeeps ==
  ASSUME SessionInv, NEW c \in calls, ReadFeatures(c)
  PROVE  SessionInv'
<1>. DEFINE e == EngineOf(c)
            user == Token(e, "features")
            s == [c EXCEPT !.state = "answered", !.user = user]
<1>1. SessionTypeOK /\ SentIsCurrent
  BY DEF SessionInv
<1>2. /\ c \in Calls /\ e \in Engines /\ backend[e] \in Backends /\ Pin(c) \in Nat /\ Pin(c) <= backend[e].gen
      /\ c.state = "queued" /\ c.what = "features" /\ Unread /\ cli' = cli /\ UNCHANGED cycles
  BY <1>1, CallTypes DEF ReadFeatures, Unread
<1>3. /\ cli \in [user : Users, logins : 0..MaxTrouble, faults : 0..MaxTrouble] /\ cli.user \in Users
      /\ backend[e].gen \in Nat \ {0} /\ backend[e].rev \in Nat /\ backend[e].bound \in Known
      /\ kind[e] \in {"http", "direct"}
  BY <1>1, <1>2 DEF SessionTypeOK, Backends
<1>4. user \in Users /\ user \in {backend[e].bound, cli.user} /\ c.gen = 0
  BY <1>1, <1>2, <1>3 DEF Token, Known, SentIsCurrent
<1>5. CASE ~Valid(c.cycle)
  BY <1>2, <1>3, <1>5, FailKeeps DEF ReadFeatures
<1>6. CASE Valid(c.cycle)
  <2>1. calls' \subseteq (calls \ {c}) \cup {s} /\ Set(e, backend[e].gen, user)
    BY <1>6 DEF ReadFeatures, Answer
  <2>2. /\ s \in Calls /\ SameRead(c, s) /\ s.state = "answered" /\ s.gen = c.gen /\ s.rev = c.rev
        /\ s.user = user
    BY <1>2, <1>3, <1>4 DEF Calls, CallStates, SameRead, Known
  <2>3. PICK b \in Backends : /\ backend' = [backend EXCEPT ![e] = b]
                              /\ b.gen = backend[e].gen /\ b.bound = user /\ b.known = backend[e].known
                              /\ b.rev = backend[e].rev /\ b.state = backend[e].state
    BY <1>1, <1>2, <1>3, <1>4, <2>1, SetIs DEF Known
  <2>4. PICK r \in Calls, g \in Nat : r = s /\ g = Pin(c)
    BY <1>2, <2>2
  <2>. HIDE DEF s, user
  <2>5. cycles' = [cycles EXCEPT ![c.cycle].pin = g] /\ (Pin(c) # 0 => g = Pin(c)) /\ g <= b.gen
        /\ backend[e].gen <= b.gen /\ SameRead(c, r) /\ calls' \subseteq (calls \ {c}) \cup {r}
    BY <1>1, <1>2, <1>3, <2>1, <2>2, <2>3, <2>4, SameCredentials
  <2>6. /\ SessionTypeOK' /\ PinsKept(c.cycle) /\ cycles'[c.cycle].pin = g
        /\ backend'[e] = b /\ \A x \in Engines \ {e} : backend'[x] = backend[x]
    BY <1>1, <1>2, <1>3, <2>3, <2>5, ThreadTypes
  <2>7. CredentialsKept(e)
    BY <1>2, <1>3, <1>4, <2>3, <2>6 DEF CredentialsKept
  <2>8. ReadBy(c, r)
    BY <1>2, <1>3, <1>4, <2>2, <2>3, <2>4, <2>6 DEF ReadBy, Sent, Pin
  <2>9. ThreadStep(c, r)
    BY <1>2, <2>5, <2>6, <2>7, <2>8 DEF ThreadStep
  <2>. QED BY <2>9, ThreadKeeps
<1>. QED BY <1>5, <1>6

(* The only step that changes the user whom a connection knows. *)
LEMMA WhoamiReturnsKeeps ==
  ASSUME SessionInv, NEW c \in calls, WhoamiReturns(c)
  PROVE  SessionInv'
<1>. DEFINE e == EngineOf(c)
            other == backend[e].known \notin {NoUser, c.user}
            s == [c EXCEPT !.state = "answered", !.user = c.user]
<1>1. SessionTypeOK /\ SentIsCurrent
  BY DEF SessionInv
<1>2. /\ c \in Calls /\ e \in Engines /\ backend[e] \in Backends /\ Pin(c) \in Nat /\ Pin(c) <= backend[e].gen
      /\ c.state = "sent" /\ c.what = "whoami" /\ Unread /\ cli' = cli
  BY <1>1, CallTypes DEF WhoamiReturns, Unread
<1>3. /\ cli \in [user : Users, logins : 0..MaxTrouble, faults : 0..MaxTrouble] /\ cli.user \in Users
      /\ backend[e].gen \in Nat \ {0} /\ backend[e].rev \in Nat /\ backend[e].bound \in Known
      /\ backend \in [Engines -> Backends] /\ c.user \in Users /\ c.gen \in Nat
  BY <1>1, <1>2 DEF SessionTypeOK, Backends, SentIsCurrent, Sent, Calls
<1>4. CASE c.gen # backend[e].gen
  BY <1>2, <1>3, <1>4, FailKeeps DEF WhoamiReturns
<1>5. CASE c.gen = backend[e].gen
  <2>. DEFINE h == IF kind[e] = "http" /\ Pin(c) = 0 THEN IF other THEN backend[e].gen + 1 ELSE c.gen ELSE Pin(c)
              k == [backend[e] EXCEPT !.known = c.user, !.gen = IF other THEN backend[e].gen + 1 ELSE @,
                                      !.rev = IF other THEN @ + 1 ELSE @, !.bound = IF other THEN NoUser ELSE @]
  <2>1. calls' \subseteq (calls \ {c}) \cup {s}
    BY <1>5 DEF WhoamiReturns, Answer
  <2>2. /\ s \in Calls /\ SameRead(c, s) /\ s.state = "answered" /\ s.gen = c.gen /\ s.rev = c.rev
        /\ s.user = c.user
    BY <1>2, <1>3 DEF Calls, CallStates, SameRead
  <2>. HIDE DEF e
  <2>3. /\ k \in Backends /\ k.known = c.user /\ k.state = backend[e].state
        /\ other => k.gen = backend[e].gen + 1 /\ k.rev = backend[e].rev + 1
        /\ ~other => k.gen = backend[e].gen /\ k.rev = backend[e].rev /\ k.bound = backend[e].bound
        /\ k.bound \in {NoUser, backend[e].bound}
    <3>1. CASE other
      <4>. DEFINE x == [backend[e] EXCEPT !.known = c.user, !.gen = backend[e].gen + 1, !.rev = backend[e].rev + 1,
                                          !.bound = NoUser]
      <4>1. k = x
        BY <1>2, <3>1 DEF Backends
      <4>2. /\ x \in Backends /\ x.known = c.user /\ x.state = backend[e].state /\ x.bound = NoUser
            /\ x.gen = backend[e].gen + 1 /\ x.rev = backend[e].rev + 1
        <5>1. backend[e].gen + 1 \in Nat \ {0} /\ backend[e].rev + 1 \in Nat /\ c.user \in Known /\ NoUser \in Known
          BY <1>3 DEF Known
        <5>2. x \in Backends
          BY <1>2, <5>1 DEF Backends
        <5>. QED BY <1>2, <5>2 DEF Backends
      <4>. HIDE DEF x, k
      <4>. QED BY <3>1, <4>1, <4>2
    <3>2. CASE ~other
      <4>. DEFINE x == [backend[e] EXCEPT !.known = c.user]
      <4>1. k = x
        BY <1>2, <3>2 DEF Backends
      <4>2. /\ x \in Backends /\ x.known = c.user /\ x.state = backend[e].state /\ x.bound = backend[e].bound
            /\ x.gen = backend[e].gen /\ x.rev = backend[e].rev
        BY <1>2, <1>3 DEF Backends, Known
      <4>. HIDE DEF x, k
      <4>. QED BY <3>2, <4>1, <4>2
    <3>. QED BY <3>1, <3>2
  <2>4. backend' = [backend EXCEPT ![e] = k]
    BY <1>2, <1>3, <1>5 DEF WhoamiReturns, e
  <2>5. h \in Nat /\ h <= k.gen /\ (Pin(c) # 0 => h = Pin(c)) /\ (kind[e] = "direct" => h = Pin(c))
    BY <1>2, <1>3, <1>5, <2>3
  <2>6. cycles' = [cycles EXCEPT ![c.cycle].pin = h]
    <3>1. CASE kind[e] = "http" /\ Pin(c) = 0
      BY <1>5, <3>1 DEF WhoamiReturns, Pinned, e
    <3>2. CASE ~(kind[e] = "http" /\ Pin(c) = 0)
      BY <1>1, <1>5, <3>2, SameCredentials DEF WhoamiReturns, e
    <3>. QED BY <3>1, <3>2
  <2>7. PICK b \in Backends, r \in Calls, g \in Nat : b = k /\ r = s /\ g = h
    BY <2>2, <2>3, <2>5
  <2>8. calls' \subseteq (calls \ {c}) \cup {r}
    BY <2>1, <2>7
  <2>. HIDE DEF s, h, k
  <2>9. /\ backend' = [backend EXCEPT ![e] = b] /\ cycles' = [cycles EXCEPT ![c.cycle].pin = g]
        /\ g <= b.gen /\ backend[e].gen <= b.gen /\ SameRead(c, r) /\ (Pin(c) # 0 => g = Pin(c))
    BY <1>3, <2>2, <2>3, <2>4, <2>5, <2>6, <2>7
  <2>10. /\ SessionTypeOK' /\ PinsKept(c.cycle) /\ cycles'[c.cycle].pin = g
         /\ backend'[e] = b /\ \A x \in Engines \ {e} : backend'[x] = backend[x]
    BY <1>1, <1>2, <1>3, <2>8, <2>9, ThreadTypes DEF e
  <2>11. CredentialsKept(e)
    <3>1. CASE other
      BY <1>2, <1>3, <2>3, <2>7, <2>10, <3>1 DEF CredentialsKept
    <3>2. CASE ~other
      BY <1>2, <1>3, <2>3, <2>7, <2>10, <3>2 DEF CredentialsKept
    <3>. QED BY <3>1, <3>2
  <2>12. ReadBy(c, r)
    <3>1. r.gen = b.gen => r.rev = b.rev
      <4>1. c.rev = backend[e].rev
        BY <1>1, <1>2, <1>5 DEF SentIsCurrent, Sent, e
      <4>2. other => b.gen = backend[e].gen + 1
        BY <2>3, <2>7
      <4>3. ~other => b.rev = backend[e].rev
        BY <2>3, <2>7
      <4>. QED BY <1>3, <1>5, <2>2, <2>7, <4>1, <4>2, <4>3
    <3>2. c.gen <= b.gen
      BY <1>3, <1>5, <2>3, <2>7
    <3>3. /\ r.state = "answered" /\ r.user = c.user /\ r.gen = c.gen /\ b.known = c.user
          /\ kind[e] = "direct" => g = Pin(c)
      BY <2>2, <2>3, <2>5, <2>7
    <3>4. backend'[e].known = r.user /\ (kind[e] = "direct" => cycles'[c.cycle].pin = cycles[c.cycle].pin)
      BY <2>10, <3>3 DEF Pin
    <3>5. (Sent(c) /\ kind[e] = "direct") \/ kind[e] = "http"
      BY <1>1, <1>2 DEF Sent, SessionTypeOK
    <3>. QED BY ONLY <1>2, <1>3, <2>10, <3>1, <3>2, <3>3, <3>4, <3>5 DEF ReadBy, Sent, e
  <2>13. ThreadStep(c, r)
    BY <1>2, <2>8, <2>9, <2>10, <2>11, <2>12 DEF ThreadStep, e
  <2>. QED BY <2>13, ThreadKeeps
<1>. QED BY <1>4, <1>5

-----------------------------------------------------------------------------
(* ------------------------------ the UI loop ------------------------------ *)
(* The UI loop handles what threads have read and reads nothing itself: it *)
(* drops reads, and asks at most for one of the refresh's next ones.       *)
LoopFrame ==
    /\ UNCHANGED <<cli, kind, backend, engine, cycles, connecting>>
    /\ refresh' \in {0, refresh} /\ opening' \in {0, opening}
Next1(d) == refresh # 0 /\ refresh' = refresh /\ d \in Calls /\ d.cycle = refresh /\ d.state = "queued" /\ d.gen = 0
LoopStep ==
    /\ LoopFrame /\ \A d \in calls' : d \in calls \/ Next1(d)
    /\ ui' \in Screens /\ ui'.serial >= ui.serial /\ ui'.rev \in {ui.rev, backend[engine].rev}
    /\ data' \in [Tabs -> Items] /\ screen' \in Items

LEMMA LoopKeepsReads ==
  ASSUME SessionInv, LoopStep
  PROVE  SessionTypeOK' /\ CyclesHold' /\ CandidateAlone' /\ SentIsCurrent'
<1>1. SessionTypeOK /\ CyclesHold /\ CandidateAlone /\ SentIsCurrent
  BY DEF SessionInv
<1>2. /\ UNCHANGED <<cli, kind, backend, engine, cycles, connecting>>
      /\ refresh' \in {0, refresh} /\ opening' \in {0, opening}
      /\ Len(cycles) \in Nat /\ DOMAIN cycles = 1..Len(cycles)
      /\ \A n \in DOMAIN cycles : n \in Nat \ {0} /\ cycles[n] \in Cycles
      /\ (refresh # 0 => refresh \in DOMAIN cycles) /\ (connecting # 0 => connecting \in DOMAIN cycles)
  BY <1>1, InCycles DEF LoopStep, LoopFrame
<1>3. \A d \in calls' : d \in Calls /\ d.cycle \in DOMAIN cycles
  BY <1>1, <1>2 DEF LoopStep, Next1, SessionTypeOK
<1>4. SessionTypeOK'
  BY <1>1, <1>2, <1>3 DEF LoopStep, SessionTypeOK
<1>5. CyclesHold'
  <2>1. /\ ui.serial \in Nat /\ ui'.serial \in Nat /\ ui.serial <= ui'.serial /\ backend[engine].rev \in Nat
        /\ \A n \in DOMAIN cycles : cycles[n].serial \in Nat
    BY <1>1, <1>2 DEF LoopStep, SessionTypeOK, Screens, Backends, Cycles
  <2>2. ui'.rev <= backend[engine].rev
    BY <1>1, <2>1 DEF LoopStep, CyclesHold
  <2>3. \A n \in DOMAIN cycles : cycles[n].serial <= ui'.serial
    BY <1>1, <2>1 DEF CyclesHold
  <2>. QED BY <1>1, <1>2, <2>2, <2>3 DEF CyclesHold
<1>6. CandidateAlone'
  <2>. SUFFICES ASSUME connecting # 0 PROVE CandidateAlone'
    BY <1>2 DEF CandidateAlone
  <2>1. refresh # 0 => refresh # connecting
    BY <1>1, <1>2 DEF CyclesHold, CandidateAlone
  <2>2. \A d \in calls' : d.cycle = connecting => d \in calls
    BY <2>1 DEF LoopStep, Next1
  <2>. QED BY <1>1, <1>2, <2>2 DEF CandidateAlone
<1>7. SentIsCurrent'
  <2>1. \A d \in calls' : d \in calls \/ (d.gen = 0 /\ ~Sent(d))
    BY DEF LoopStep, Next1, Sent
  <2>. QED BY <1>1, <1>2, <2>1 DEF SentIsCurrent, Sent, EngineOf, Pin
<1>. QED BY <1>4, <1>5, <1>6, <1>7

(* A console that has forgotten everything holds nothing of anybody, and   *)
(* the refresh that was under way is outdated.                             *)
LEMMA ClearKeeps ==
  ASSUME SessionInv, Cleared, LoopFrame, calls' \subseteq calls
  PROVE  SessionInv'
<1>1. SessionTypeOK /\ CyclesHold /\ LatestHolds
  BY DEF SessionInv
<1>2. /\ ui \in Screens /\ engine \in Engines /\ backend[engine] \in Backends /\ cli.logins \in Nat
      /\ (refresh # 0 => refresh \in DOMAIN cycles /\ cycles[refresh] \in Cycles)
  BY <1>1, InCycles, ConsoleAssumption DEF SessionTypeOK
<1>3. NoData \in Items /\ NoData.since = 0 /\ NoData.engine = 0 /\ 0 \notin Engines
  BY ConsoleAssumption DEF NoData, Items, Known
<1>4. /\ ui' \in Screens /\ ui'.serial = ui.serial + 1 /\ ui'.rev = backend[engine].rev
      /\ ui'.header = backend[engine].known
  <2>1. ui.serial + 1 \in Nat /\ backend[engine].rev \in Nat /\ backend[engine].known \in Known
    BY <1>2 DEF Screens, Backends
  <2>. QED BY <1>2, <2>1 DEF Cleared, Screens
<1>5. data' = [t \in Tabs |-> NoData] /\ screen' = NoData
  BY DEF Cleared
<1>6. LoopStep
  BY <1>2, <1>3, <1>4, <1>5 DEF LoopStep, Screens
<1>7. ~Live'
  <2>1. refresh # 0 => cycles[refresh].serial # ui'.serial
    BY <1>1, <1>2, <1>4 DEF CyclesHold, Screens, Cycles
  <2>. QED BY <2>1 DEF Live, Current, LoopFrame
<1>8. HeaderHolds'
  BY <1>4, <1>7 DEF HeaderHolds, LoopFrame
<1>9. ui'.tab \in Tabs
  BY <1>4 DEF Screens
<1>10. PagesHold'
  BY <1>5, <1>7, <1>9 DEF PagesHold, PageMatchesQuery
<1>11. LatestHolds'
  <2>1. Latest' => Latest /\ refresh' = refresh
    BY DEF Latest, LoopFrame
  <2>. QED BY <1>1, <1>7, <2>1 DEF LatestHolds, LoopFrame, Asked, Sent
<1>12. DataHolds'
  BY <1>2, <1>3, <1>5, <1>9 DEF DataHolds, LoopFrame
<1>13. ShownIsVerified' /\ ShownForSignIn'
  BY <1>2, <1>3, <1>5 DEF ShownIsVerified, ShownForSignIn, LoopFrame
<1>. QED BY <1>6, <1>8, <1>10, <1>11, <1>12, <1>13, LoopKeepsReads DEF SessionInv

(* Nor does it matter when what is shown stays, or an error replaces it.   *)
LEMMA QuietKeeps ==
  ASSUME SessionInv, LoopFrame, calls' \subseteq calls, screen' \in {screen, NoData},
         \/ UNCHANGED <<ui, data>>
         \/ /\ refresh' = 0 /\ data' = [data EXCEPT ![ui.tab] = NoData]
            /\ ui' = [ui EXCEPT !.verifying = FALSE]
  PROVE  SessionInv'
<1>1. SessionTypeOK /\ HeaderHolds /\ PagesHold /\ LatestHolds /\ DataHolds /\ ShownIsVerified /\ ShownForSignIn
  BY DEF SessionInv
<1>2. ui \in Screens /\ data \in [Tabs -> Items] /\ engine \in Engines /\ cli.logins \in Nat /\ screen \in Items
  BY <1>1, ConsoleAssumption DEF SessionTypeOK
<1>3. NoData \in Items /\ NoData.since = 0 /\ NoData.engine = 0 /\ 0 \notin Engines
  BY ConsoleAssumption DEF NoData, Items, Known
<1>4. /\ ui' \in Screens /\ ui'.serial = ui.serial /\ ui'.rev = ui.rev /\ ui'.header = ui.header
      /\ ui'.tab = ui.tab /\ ui.tab \in Tabs /\ ui'.page = ui.page /\ ui'.month = ui.month
      /\ refresh' # 0 => ui' = ui
  BY <1>2 DEF Screens
<1>5. data' \in [Tabs -> Items] /\ \A t \in Tabs : data'[t] \in {data[t], NoData}
  BY <1>2, <1>3, <1>4
<1>6. data'[ui.tab] # NoData => ui' = ui /\ data' = data
  BY <1>2, <1>4
<1>7. LoopStep
  BY <1>2, <1>3, <1>4, <1>5 DEF LoopStep, Screens
<1>8. (Live' => Live /\ refresh' = refresh) /\ (Latest' => Latest /\ refresh' = refresh)
  BY <1>4 DEF Live, Latest, Current, LoopFrame
<1>9. Synchronized' <=> Synchronized
  BY <1>4 DEF Synchronized, LoopFrame
<1>10. HeaderHolds'
  BY <1>1, <1>4, <1>8, <1>9 DEF HeaderHolds, LoopFrame
<1>11. PagesHold'
  BY <1>1, <1>4, <1>6, <1>8 DEF PagesHold, PageMatchesQuery
<1>12. LatestHolds'
  <2>. SUFFICES ASSUME Latest' PROVE LatestHolds'
    BY DEF LatestHolds
  <2>1. Latest /\ refresh' = refresh /\ refresh # 0 /\ ui' = ui
    BY <1>4, <1>8 DEF Latest
  <2>. QED BY <1>1, <1>8, <2>1 DEF LatestHolds, LoopFrame, Asked, Sent
<1>13. DataHolds'
  <2>1. \A t \in Tabs : data'[t].since <= cli.logins
    BY <1>1, <1>2, <1>3, <1>5 DEF DataHolds
  <2>. QED BY <1>1, <1>4, <1>6, <1>8, <2>1 DEF DataHolds, LoopFrame, Live
<1>14. ShownIsVerified'
  BY <1>1, <1>2, <1>3, <1>4, <1>5, <1>9 DEF ShownIsVerified, LoopFrame
<1>15. ShownForSignIn'
  BY <1>1, <1>4, <1>5, <1>6 DEF ShownForSignIn, LoopFrame
<1>. QED BY <1>7, <1>10, <1>11, <1>12, <1>13, <1>14, <1>15, LoopKeepsReads DEF SessionInv

(* Dropping what is left of a refresh or of a detail only takes reads away. *)
LEMMA BusyIsLess == \A n \in Nat : Busy(n) \subseteq calls
  BY DEF Busy

(* What a read of the current refresh says of it. *)
LEMMA MineIs ==
  ASSUME SessionInv, NEW c \in calls, NEW what, Mine(c, what), Current(c.cycle)
  PROVE  /\ Live /\ c.cycle = refresh /\ c.what = what /\ EngineOf(c) = engine
         /\ cycles[refresh].tab = ui.tab /\ cycles[refresh].engine = engine
  BY DEF Mine, Live, SessionInv, CyclesHold, EngineOf, Current

(* What is asked next is of the refresh, with the page of the console. *)
LEMMA AskIs ==
  ASSUME SessionInv, NEW n \in DOMAIN cycles, NEW what \in Reads, NEW d, d = Ask(n, what)
  PROVE  /\ d \in Calls /\ d.cycle = n /\ d.what = what /\ d.state = "queued" /\ d.gen = 0
         /\ d.page = ui.page /\ d.month = ui.month
  BY InCycles DEF SessionInv, SessionTypeOK, Ask, Calls, CallStates, Known, Screens

(* The console takes up the sign-in that its refresh verified. *)
LEMMA IdentityKeeps ==
  ASSUME SessionInv, NEW c \in calls, Mine(c, "whoami"), Synchronized, Current(c.cycle), c.state = "answered",
         UNCHANGED <<cli, kind, backend, engine, cycles, opening, connecting, screen, refresh>>,
         NEW reset \in BOOLEAN,
         reset <=> c.user # ui.header /\ (ui.header # NoUser \/ kind[engine] = "http"),
         ui' = [ui EXCEPT !.header = c.user, !.page = IF reset THEN 0 ELSE @],
         data' = IF reset THEN [t \in Tabs |-> NoData] ELSE data,
         calls' = (calls \ {c}) \cup {Ask(c.cycle, "features")}
  PROVE  SessionInv'
<1>1. /\ SessionTypeOK /\ HeaderHolds /\ PagesHold /\ LatestHolds /\ DataHolds /\ ShownIsVerified /\ ShownForSignIn
      /\ SentIsCurrent
  BY DEF SessionInv
<1>2. /\ ui \in Screens /\ data \in [Tabs -> Items] /\ engine \in Engines /\ cli.logins \in Nat /\ screen \in Items
      /\ c.cycle \in DOMAIN cycles
  BY <1>1, ConsoleAssumption DEF SessionTypeOK
<1>3. NoData \in Items /\ NoData.since = 0 /\ NoData.engine = 0 /\ 0 \notin Engines
  BY ConsoleAssumption DEF NoData, Items, Known
<1>4. Live /\ c.cycle = refresh /\ c.what = "whoami" /\ EngineOf(c) = engine /\ refresh # 0
  BY MineIs DEF Live
<1>5. c.user \in Users /\ c.user = backend[engine].known /\ c.user # NoUser /\ ui.header \in {NoUser, c.user}
  BY <1>1, <1>4, ConsoleAssumption DEF HeaderHolds, SentIsCurrent, Sent
<1>6. reset => ui.header = NoUser /\ kind[engine] = "http"
  BY <1>5
<1>7. /\ ui' \in Screens /\ ui'.serial = ui.serial /\ ui'.rev = ui.rev /\ ui'.header = c.user
      /\ ui'.tab = ui.tab /\ ui.tab \in Tabs /\ ui'.month = ui.month /\ ui'.verifying = ui.verifying
      /\ ui'.page = IF reset THEN 0 ELSE ui.page
  BY <1>2, <1>5 DEF Screens, Known
<1>8. data' \in [Tabs -> Items] /\ \A t \in Tabs : data'[t] \in {data[t], NoData}
  BY <1>2, <1>3
<1>9. data'[ui.tab] # NoData => ~reset /\ data' = data
  BY <1>7
<1>10. PICK f : f = Ask(c.cycle, "features")
  OBVIOUS
<1>11. /\ f \in Calls /\ f.cycle = refresh /\ f.what = "features" /\ f.state = "queued" /\ f.gen = 0
       /\ \A d \in calls' : d \in calls \/ d = f
  BY <1>2, <1>4, <1>10, AskIs DEF Reads
<1>12. LoopStep
  BY <1>2, <1>4, <1>7, <1>8, <1>11 DEF LoopStep, LoopFrame, Next1, Screens
<1>13. (Live' <=> Live) /\ (Latest' <=> Latest) /\ (Synchronized' <=> Synchronized)
  BY <1>7 DEF Live, Latest, Current, Synchronized
<1>14. HeaderHolds'
  BY <1>1, <1>5, <1>7, <1>11, <1>13 DEF HeaderHolds
<1>15. PagesHold'
  <2>1. \A d \in calls' : d.cycle = refresh /\ d.what = "data" => d \in calls /\ ~reset
    BY <1>1, <1>4, <1>6, <1>11 DEF HeaderHolds
  <2>2. PageMatchesQuery'
    BY <1>1, <1>7, <1>9 DEF PagesHold, PageMatchesQuery
  <2>. QED BY <1>1, <1>7, <1>13, <2>1, <2>2 DEF PagesHold
<1>16. Latest => c.user = cli.user
  BY <1>1, <1>4 DEF LatestHolds, Sent
<1>17. LatestHolds'
  <2>. SUFFICES ASSUME Latest PROVE LatestHolds'
    BY <1>13 DEF LatestHolds
  <2>1. \A d \in calls' : /\ Asked(d) => d \in calls \/ Asked(c)
                          /\ Sent(d) => d \in calls
    BY <1>4, <1>11 DEF Asked, Sent
  <2>. QED BY <1>1, <1>7, <1>13, <1>16, <2>1 DEF LatestHolds, Asked, Sent
<1>18. DataHolds'
  <2>1. \A t \in Tabs : data'[t].since <= cli.logins
    BY <1>1, <1>2, <1>3, <1>8 DEF DataHolds
  <2>. QED BY <1>1, <1>7, <1>9, <1>13, <2>1 DEF DataHolds
<1>19. ShownIsVerified'
  BY <1>1, <1>2, <1>5, <1>7, <1>8, <1>13 DEF ShownIsVerified
<1>20. ShownForSignIn'
  <2>1. data'[ui.tab] # NoData /\ data'[ui.tab].since = cli.logins => c.user = cli.user
    BY <1>1, <1>4, <1>9, <1>16 DEF DataHolds, Latest
  <2>. QED BY <1>1, <1>7, <1>8, <2>1 DEF ShownForSignIn
<1>. QED BY <1>12, <1>14, <1>15, <1>17, <1>18, <1>19, <1>20, LoopKeepsReads DEF SessionInv

LEMMA HandleIdentityKeeps ==
  ASSUME SessionInv, NEW c \in calls, HandleIdentity(c)
  PROVE  SessionInv'
<1>1. UNCHANGED <<cli, kind, backend, engine, cycles, opening, connecting>> /\ Mine(c, "whoami") /\ refresh \in Nat
  BY InCycles DEF HandleIdentity, SessionInv
<1>2. CASE Cleared /\ Ends
  BY <1>1, <1>2, BusyIsLess, ClearKeeps DEF Ends, LoopFrame
<1>3. CASE Abandoned \/ ShowError
  BY <1>1, <1>3, BusyIsLess, QuietKeeps DEF Abandoned, ShowError, Ends, LoopFrame
<1>4. CASE /\ Synchronized /\ Current(c.cycle) /\ kind[engine] = "direct"
           /\ ui' = [ui EXCEPT !.header = NoUser, !.verifying = FALSE]
           /\ calls' = calls \ {c}
           /\ UNCHANGED <<data, screen, refresh>>
  <2>1. /\ SessionTypeOK /\ HeaderHolds /\ PagesHold /\ LatestHolds /\ DataHolds /\ ShownIsVerified /\ ShownForSignIn
    BY DEF SessionInv
  <2>2. /\ ui' \in Screens /\ ui'.serial = ui.serial /\ ui'.rev = ui.rev /\ ui'.header = NoUser
        /\ ui'.tab = ui.tab /\ ui'.month = ui.month /\ ui'.page = ui.page /\ ui.rev \in Nat /\ ui.serial \in Nat
    BY <1>4, <2>1 DEF SessionTypeOK, Screens, Known
  <2>3. LoopStep
    BY <1>1, <1>4, <2>1, <2>2 DEF LoopStep, LoopFrame, SessionTypeOK
  <2>4. (Live' <=> Live) /\ (Latest' <=> Latest) /\ (Synchronized' <=> Synchronized)
    BY <1>1, <1>4, <2>2 DEF Live, Latest, Current, Synchronized
  <2>5. HeaderHolds'
    BY <1>1, <1>4, <2>1, <2>2, <2>4 DEF HeaderHolds
  <2>6. PagesHold' /\ DataHolds'
    BY <1>1, <1>4, <2>1, <2>2, <2>4 DEF PagesHold, PageMatchesQuery, DataHolds
  <2>7. LatestHolds'
    BY <1>1, <1>4, <2>1, <2>2, <2>4 DEF LatestHolds, Asked, Sent
  <2>8. ShownIsVerified' /\ ShownForSignIn'
    BY <1>1, <1>4, <2>1, <2>2, <2>4 DEF ShownIsVerified, ShownForSignIn
  <2>. QED BY <2>3, <2>5, <2>6, <2>7, <2>8, LoopKeepsReads DEF SessionInv
<1>5. CASE /\ Synchronized /\ Current(c.cycle) /\ c.state = "answered"
           /\ ui' = [ui EXCEPT !.header = c.user, !.page = IF c.user # ui.header /\ (ui.header # NoUser \/ kind[engine] = "http")
                                                            THEN 0 ELSE @]
           /\ data' = IF c.user # ui.header /\ (ui.header # NoUser \/ kind[engine] = "http")
                      THEN [t \in Tabs |-> NoData] ELSE data
           /\ calls' = (calls \ {c}) \cup {Ask(c.cycle, "features")}
           /\ UNCHANGED <<screen, refresh>>
  <2>. DEFINE test == c.user # ui.header /\ (ui.header # NoUser \/ kind[engine] = "http")
  <2>1. PICK reset \in BOOLEAN : reset <=> test
    OBVIOUS
  <2>2. /\ ui' = [ui EXCEPT !.header = c.user, !.page = IF reset THEN 0 ELSE @]
        /\ data' = IF reset THEN [t \in Tabs |-> NoData] ELSE data
    BY <1>5, <2>1
  <2>. QED BY <1>1, <1>5, <2>1, <2>2, IdentityKeeps
<1>. QED BY <1>2, <1>3, <1>4, <1>5 DEF HandleIdentity

LEMMA HandleFeaturesKeeps ==
  ASSUME SessionInv, NEW c \in calls, HandleFeatures(c)
  PROVE  SessionInv'
<1>1. UNCHANGED <<cli, kind, backend, engine, cycles, opening, connecting>> /\ Mine(c, "features") /\ refresh \in Nat
  BY InCycles DEF HandleFeatures, SessionInv
<1>2. CASE Cleared /\ Ends
  BY <1>1, <1>2, BusyIsLess, ClearKeeps DEF Ends, LoopFrame
<1>3. CASE Abandoned \/ ShowError
  BY <1>1, <1>3, BusyIsLess, QuietKeeps DEF Abandoned, ShowError, Ends, LoopFrame
<1>4. CASE /\ Current(c.cycle) /\ c.state = "answered"
           /\ ui' = [ui EXCEPT !.verifying = FALSE]
           /\ calls' = (calls \ {c}) \cup (IF kind[engine] = "http" THEN {Ask(c.cycle, "data")} ELSE {})
           /\ UNCHANGED <<data, screen, refresh>>
  <2>1. /\ SessionTypeOK /\ HeaderHolds /\ PagesHold /\ LatestHolds /\ DataHolds /\ ShownIsVerified /\ ShownForSignIn
        /\ c.cycle \in DOMAIN cycles
    BY DEF SessionInv, SessionTypeOK
  <2>2. Live /\ c.cycle = refresh /\ c.what = "features" /\ refresh # 0
    BY <1>1, <1>4, MineIs DEF Live
  <2>3. /\ ui' \in Screens /\ ui'.serial = ui.serial /\ ui'.rev = ui.rev /\ ui'.header = ui.header
        /\ ui'.tab = ui.tab /\ ui.tab \in Tabs /\ ui'.month = ui.month /\ ui'.page = ui.page
        /\ ui.rev \in Nat /\ ui.serial \in Nat
    BY <1>4, <2>1 DEF SessionTypeOK, Screens
  <2>4. PICK f : f = Ask(c.cycle, "data")
    OBVIOUS
  <2>5. /\ f \in Calls /\ f.cycle = refresh /\ f.what = "data" /\ f.state = "queued" /\ f.gen = 0
        /\ f.page = ui.page /\ f.month = ui.month
        /\ \A d \in calls' : d \in calls \/ d = f
    BY <1>4, <2>1, <2>2, <2>4, AskIs DEF Reads
  <2>6. LoopStep
    BY <1>1, <1>4, <2>1, <2>2, <2>3, <2>5 DEF LoopStep, LoopFrame, SessionTypeOK, Next1
  <2>7. (Live' <=> Live) /\ (Latest' <=> Latest) /\ (Synchronized' <=> Synchronized)
    BY <1>1, <1>4, <2>3 DEF Live, Latest, Current, Synchronized
  <2>8. HeaderHolds'
    <3>1. kind[engine] = "http" => ui.header # NoUser
      BY <2>1, <2>2 DEF HeaderHolds
    <3>. QED BY <1>1, <1>4, <2>1, <2>3, <2>5, <2>7, <3>1 DEF HeaderHolds
  <2>9. PagesHold' /\ DataHolds'
    <3>1. PageMatchesQuery'
      BY <1>4, <2>1, <2>3 DEF PagesHold, PageMatchesQuery
    <3>2. PagesHold'
      BY <1>4, <2>1, <2>3, <2>5, <2>7, <3>1 DEF PagesHold
    <3>. QED BY <1>1, <1>4, <2>1, <2>3, <2>7, <3>2 DEF DataHolds
  <2>10. Latest => ui.header \in {NoUser, cli.user}
    BY <2>1, <2>2 DEF LatestHolds
  <2>11. LatestHolds'
    <3>. SUFFICES ASSUME Latest PROVE LatestHolds'
      BY <2>7 DEF LatestHolds
    <3>1. \A d \in calls' : /\ Asked(d) => d \in calls \/ Asked(c)
                            /\ Sent(d) \/ d.what = "features" => d \in calls
      BY <1>4, <2>2, <2>5 DEF Asked, Sent
    <3>. QED BY <1>1, <1>4, <2>1, <2>3, <2>7, <2>10, <3>1 DEF LatestHolds, Asked, Sent
  <2>12. ShownIsVerified'
    BY <1>1, <1>4, <2>1, <2>3, <2>7 DEF ShownIsVerified
  <2>13. ShownForSignIn'
    <3>1. data[ui.tab] # NoData /\ data[ui.tab].since = cli.logins => ui.header \in {NoUser, cli.user}
      BY <2>1, <2>2, <2>10 DEF DataHolds, Latest
    <3>. QED BY <1>1, <1>4, <2>1, <2>3, <3>1 DEF ShownForSignIn
  <2>. QED BY <2>6, <2>8, <2>9, <2>11, <2>12, <2>13, LoopKeepsReads DEF SessionInv
<1>. QED BY <1>2, <1>3, <1>4 DEF HandleFeatures

(* What an answer becomes on the screen. *)
LEMMA ItemIs ==
  ASSUME SessionInv, NEW c \in calls, NEW i, i = Item(c)
  PROVE  /\ i \in Items /\ i.engine = EngineOf(c) /\ i.rev = c.rev /\ i.user = c.user /\ i.page = c.page
         /\ i.month = c.month /\ i.since = cycles[c.cycle].since /\ i.since <= cli.logins
<1>1. c \in Calls /\ c.cycle \in DOMAIN cycles /\ EngineOf(c) \in Engines /\ cycles[c.cycle] \in Cycles
  BY CallTypes DEF SessionInv
<1>2. cycles[c.cycle].since <= cli.logins
  BY <1>1 DEF SessionInv, CyclesHold
<1>. QED BY <1>1, <1>2 DEF Item, Items, Calls, Cycles

(* An answer under a valid guard carries the revision of the connection. *)
LEMMA ValidIsCurrent ==
  ASSUME SessionInv, NEW c \in calls, c.what \in {"data", "detail"}, c.state = "answered", Valid(c.cycle)
  PROVE  c.rev = backend[EngineOf(c)].rev
<1>1. c.gen # 0 /\ Pin(c) = c.gen /\ (c.gen = backend[EngineOf(c)].gen => c.rev = backend[EngineOf(c)].rev)
  BY DEF SessionInv, SentIsCurrent, Sent
<1>. QED BY <1>1 DEF Valid, Pin, EngineOf

(* Publishing what the refresh has read. *)
LEMMA PublishKeeps ==
  ASSUME SessionInv, NEW c \in calls, Mine(c, "data"), Current(c.cycle), c.state = "answered", CurrentGuard(c.cycle),
         UNCHANGED <<cli, kind, backend, engine, cycles, opening, connecting, ui, screen>>,
         data' = [data EXCEPT ![ui.tab] = Item(c)], refresh' \in {0, refresh}, calls' \subseteq calls
  PROVE  SessionInv'
<1>1. SessionTypeOK /\ HeaderHolds /\ PagesHold /\ LatestHolds /\ DataHolds /\ ShownIsVerified /\ ShownForSignIn
  BY DEF SessionInv
<1>2. /\ ui \in Screens /\ data \in [Tabs -> Items] /\ screen \in Items /\ ui.tab \in Tabs
      /\ ui.rev \in Nat /\ ui.serial \in Nat
  BY <1>1 DEF SessionTypeOK, Screens
<1>3. Live /\ c.cycle = refresh /\ c.what = "data" /\ EngineOf(c) = engine /\ refresh # 0
  BY MineIs DEF Live
<1>4. PICK i : i = Item(c)
  OBVIOUS
<1>5. /\ i \in Items /\ i.engine = engine /\ i.rev = c.rev /\ i.user = c.user /\ i.page = c.page
      /\ i.month = c.month /\ i.since = cycles[refresh].since /\ i.since <= cli.logins
  BY <1>3, <1>4, ItemIs
<1>6. data' \in [Tabs -> Items] /\ data'[ui.tab] = i /\ \A t \in Tabs : t # ui.tab => data'[t] = data[t]
  BY <1>2, <1>4, <1>5
<1>7. LoopStep
  BY <1>2, <1>6 DEF LoopStep, LoopFrame
<1>8. (Live' => Live /\ refresh' = refresh) /\ (Latest' => Latest /\ refresh' = refresh) /\ (Synchronized' <=> Synchronized)
  BY DEF Live, Latest, Current, Synchronized
<1>9. HeaderHolds'
  BY <1>1, <1>8 DEF HeaderHolds
<1>10. PagesHold'
  <2>1. c.page = ui.page /\ c.month = ui.month
    BY <1>1, <1>3 DEF PagesHold
  <2>2. PageMatchesQuery'
    BY <1>5, <1>6, <2>1 DEF PageMatchesQuery
  <2>. QED BY <1>1, <1>8, <2>2 DEF PagesHold
<1>11. LatestHolds'
  <2>. SUFFICES ASSUME Latest' PROVE LatestHolds'
    BY DEF LatestHolds
  <2>. QED BY <1>1, <1>8 DEF LatestHolds, Asked, Sent
<1>12. DataHolds'
  BY <1>1, <1>5, <1>6, <1>8 DEF DataHolds
<1>13. ShownIsVerified'
  <2>1. i.rev = backend[engine].rev
    BY <1>3, <1>5, ValidIsCurrent DEF CurrentGuard, EngineOf
  <2>2. Synchronized => i.rev = ui.rev /\ ui.header \in {NoUser, backend[engine].known}
    BY <1>1, <2>1 DEF Synchronized, HeaderHolds
  <2>. QED BY <1>1, <1>5, <1>6, <1>8, <2>2 DEF ShownIsVerified
<1>14. ShownForSignIn'
  <2>. SUFFICES ASSUME NEW t \in Tabs, data'[t] # NoData, data'[t].since = cli.logins
                PROVE  data'[t].user = cli.user /\ (t = ui.tab /\ ~ui.verifying => ui.header \in {NoUser, cli.user})
    BY DEF ShownForSignIn
  <2>1. CASE t # ui.tab
    BY <1>1, <1>6, <2>1 DEF ShownForSignIn
  <2>2. CASE t = ui.tab
    <3>1. Latest
      BY <1>3, <1>5, <1>6, <2>2 DEF Latest
    <3>. QED BY <1>1, <1>3, <1>5, <1>6, <2>2, <3>1 DEF LatestHolds, Sent
  <2>. QED BY <2>1, <2>2
<1>. QED BY <1>7, <1>9, <1>10, <1>11, <1>12, <1>13, <1>14, LoopKeepsReads DEF SessionInv

LEMMA HandleDataKeeps ==
  ASSUME SessionInv, NEW c \in calls, HandleData(c)
  PROVE  SessionInv'
<1>1. UNCHANGED <<cli, kind, backend, engine, cycles, opening, connecting>> /\ Mine(c, "data") /\ refresh \in Nat
  BY InCycles DEF HandleData, SessionInv
<1>2. CASE Abandoned \/ ShowError
  BY <1>1, <1>2, BusyIsLess, QuietKeeps DEF Abandoned, ShowError, Ends, LoopFrame
<1>3. CASE /\ Current(c.cycle) /\ c.state = "answered" /\ CurrentGuard(c.cycle)
           /\ data' = [data EXCEPT ![cycles[c.cycle].tab] = Item(c)] /\ UNCHANGED <<ui, screen>>
           /\ Ends \/ UNCHANGED <<calls, refresh>>
  <2>1. cycles[c.cycle].tab = ui.tab
    BY <1>3 DEF Current
  <2>2. calls' \subseteq calls /\ refresh' \in {0, refresh}
    BY <1>1, <1>3, BusyIsLess DEF Ends
  <2>. QED BY <1>1, <1>3, <2>1, <2>2, PublishKeeps
<1>4. HandleData(c) => \/ Abandoned \/ ShowError
                       \/ /\ Current(c.cycle) /\ c.state = "answered" /\ CurrentGuard(c.cycle)
                          /\ data' = [data EXCEPT ![cycles[c.cycle].tab] = Item(c)] /\ UNCHANGED <<ui, screen>>
                          /\ Ends \/ UNCHANGED <<calls, refresh>>
  BY DEF HandleData
<1>. QED BY <1>2, <1>3, <1>4

(* A detail or a form of what is shown; nothing else changes. *)
LEMMA ShowKeeps ==
  ASSUME SessionInv, UNCHANGED <<cli, kind, backend, engine, cycles, connecting, ui, data, refresh>>,
         opening' \in {0, opening}, calls' \subseteq calls, screen' \in Items,
         Synchronized => (screen'.engine = engine => screen'.rev = ui.rev)
  PROVE  SessionInv'
<1>1. SessionTypeOK /\ HeaderHolds /\ PagesHold /\ LatestHolds /\ DataHolds /\ ShownIsVerified /\ ShownForSignIn
  BY DEF SessionInv
<1>2. LoopStep
  BY <1>1 DEF LoopStep, LoopFrame, SessionTypeOK, Screens
<1>3. (Live' <=> Live) /\ (Latest' <=> Latest) /\ (Synchronized' <=> Synchronized)
  BY DEF Live, Latest, Current, Synchronized
<1>4. HeaderHolds' /\ PagesHold' /\ DataHolds'
  BY <1>1, <1>3 DEF HeaderHolds, PagesHold, PageMatchesQuery, DataHolds
<1>5. LatestHolds'
  BY <1>1, <1>3 DEF LatestHolds, Asked, Sent
<1>6. ShownIsVerified' /\ ShownForSignIn'
  BY <1>1, <1>3 DEF ShownIsVerified, ShownForSignIn
<1>. QED BY <1>2, <1>4, <1>5, <1>6, LoopKeepsReads DEF SessionInv

LEMMA ShowDetailKeeps ==
  ASSUME SessionInv, NEW c \in calls, ShowDetail(c)
  PROVE  SessionInv'
<1>1. /\ UNCHANGED <<cli, kind, backend, engine, cycles, refresh, connecting>> /\ c.what = "detail"
      /\ opening' = 0 /\ calls' \subseteq calls
  BY InCycles, BusyIsLess DEF ShowDetail, Closing, SessionInv
<1>2. CASE Cleared
  BY <1>1, <1>2, ClearKeeps DEF LoopFrame
<1>3. CASE UNCHANGED <<ui, data, screen>>
  BY <1>1, <1>3, QuietKeeps DEF LoopFrame
<1>4. CASE /\ c.state = "answered" /\ (EarlyGuard(c.cycle) \/ CurrentGuard(c.cycle))
           /\ screen' = Item(c) /\ UNCHANGED <<ui, data>>
  <2>1. PICK i : i = Item(c)
    OBVIOUS
  <2>2. i \in Items /\ i.engine = EngineOf(c) /\ i.rev = c.rev
    BY <2>1, ItemIs
  <2>3. EngineOf(c) = engine => Valid(c.cycle)
    BY <1>4 DEF EarlyGuard, CurrentGuard, EngineOf
  <2>4. EngineOf(c) = engine => c.rev = backend[engine].rev
    BY <1>1, <1>4, <2>3, ValidIsCurrent
  <2>5. Synchronized => (i.engine = engine => i.rev = ui.rev)
    BY <2>2, <2>4 DEF Synchronized
  <2>. QED BY <1>1, <1>4, <2>1, <2>2, <2>5, ShowKeeps
<1>. QED BY <1>2, <1>3, <1>4 DEF ShowDetail

LEMMA ScreensKeep ==
  ASSUME SessionInv, OpenForm \/ Dismiss \/ Synchronize
  PROVE  SessionInv'
<1>1. CASE OpenForm
  <2>1. Synchronized /\ data[ui.tab] # NoData /\ ui.tab \in Tabs /\ data \in [Tabs -> Items]
    BY <1>1 DEF OpenForm, OnTabs, Input, Cached, SessionInv, SessionTypeOK, Screens
  <2>2. data[ui.tab].rev = ui.rev
    BY <2>1 DEF SessionInv, ShownIsVerified
  <2>. QED BY <1>1, <2>1, <2>2, ShowKeeps DEF OpenForm
<1>2. CASE Dismiss
  BY <1>2, QuietKeeps DEF Dismiss, LoopFrame
<1>3. CASE Synchronize
  BY <1>3, ClearKeeps DEF Synchronize, LoopFrame
<1>. QED BY <1>1, <1>2, <1>3

-----------------------------------------------------------------------------
(* ------------------------------ new cycles ------------------------------- *)
(* A cycle k begins: its reads are queued, and nothing is pinned to it.    *)
NewRead(d) == d \in Calls /\ d.cycle = Len(cycles) + 1 /\ d.state = "queued" /\ d.gen = 0
GrowStep(k) ==
    /\ UNCHANGED <<cli, kind>> /\ cycles' = Append(cycles, k)
    /\ k \in Cycles /\ k.pin = 0 /\ k.serial <= ui'.serial /\ k.since = cli.logins
    /\ \A d \in calls' : d \in calls \/ NewRead(d)
    /\ ui' \in Screens /\ ui.serial <= ui'.serial /\ data' \in [Tabs -> Items] /\ screen' \in Items
    /\ refresh' \in {refresh, Len(cycles) + 1} /\ opening' \in {opening, Len(cycles) + 1}
    /\ connecting' \in {0, connecting, Len(cycles) + 1}
    /\ engine' \in Engines /\ backend' \in [Engines -> Backends]
    /\ \A x \in Engines :
        /\ backend[x].gen <= backend'[x].gen /\ backend'[x].rev = backend[x].rev
        /\ backend'[x].gen = backend[x].gen => backend'[x].bound = backend[x].bound
        /\ backend[x].state # "new" => backend'[x].state # "new"
    /\ backend'[k.engine].state # "new" /\ backend'[engine'].state # "new"
    /\ ui'.rev <= backend'[engine'].rev
    /\ IF refresh' = refresh THEN engine' = engine ELSE k.engine = engine'

LEMMA GrowKeeps ==
  ASSUME SessionInv, NEW k, GrowStep(k)
  PROVE  /\ SessionTypeOK' /\ CyclesHold' /\ SentIsCurrent'
         /\ DOMAIN cycles' = DOMAIN cycles \cup {Len(cycles) + 1} /\ cycles'[Len(cycles) + 1] = k
         /\ \A n \in DOMAIN cycles : cycles'[n] = cycles[n]
         /\ \A d \in calls : d.cycle # Len(cycles) + 1
         /\ refresh # Len(cycles) + 1 /\ opening # Len(cycles) + 1 /\ connecting # Len(cycles) + 1
         /\ Len(cycles) + 1 \notin DOMAIN cycles /\ Len(cycles) + 1 # 0
<1>1. SessionTypeOK /\ CyclesHold /\ SentIsCurrent
  BY DEF SessionInv
<1>2. /\ Len(cycles) \in Nat /\ DOMAIN cycles = 1..Len(cycles) /\ cycles \in Seq(Cycles)
      /\ \A n \in DOMAIN cycles : n \in Nat \ {0} /\ cycles[n] \in Cycles
      /\ refresh \in 0..Len(cycles) /\ opening \in 0..Len(cycles) /\ connecting \in 0..Len(cycles)
  BY <1>1, InCycles DEF SessionTypeOK
<1>3. k \in Cycles /\ cycles' = Append(cycles, k)
  BY DEF GrowStep
<1>4. /\ cycles' \in Seq(Cycles) /\ DOMAIN cycles' = DOMAIN cycles \cup {Len(cycles) + 1} /\ Len(cycles') = Len(cycles) + 1
      /\ cycles'[Len(cycles) + 1] = k /\ Len(cycles) + 1 \notin DOMAIN cycles
      /\ \A n \in DOMAIN cycles : cycles'[n] = cycles[n]
  BY <1>2, <1>3, LongerCycles
<1>5. refresh # Len(cycles) + 1 /\ opening # Len(cycles) + 1 /\ connecting # Len(cycles) + 1
  BY <1>2
<1>6. \A d \in calls : d \in Calls /\ d.cycle \in DOMAIN cycles
  BY <1>1 DEF SessionTypeOK
<1>7. \A n \in DOMAIN cycles : /\ cycles[n].engine \in Engines /\ cycles[n].pin \in Nat /\ cycles[n].serial \in Nat
                               /\ cycles[n].pin <= backend[cycles[n].engine].gen
  BY <1>1, <1>2 DEF Cycles, SessionTypeOK
<1>8. \A x \in Engines : backend[x].gen \in Nat \ {0} /\ backend'[x].gen \in Nat \ {0} /\ backend[x].gen <= backend'[x].gen
  BY <1>1 DEF GrowStep, SessionTypeOK, Backends
<1>9. SessionTypeOK'
  <2>1. \A w \in {refresh', opening', connecting'} : w \in 0..Len(cycles')
    BY <1>2, <1>4 DEF GrowStep
  <2>2. calls' \subseteq Calls /\ \A d \in calls' : d.cycle \in DOMAIN cycles'
    BY <1>4, <1>6 DEF GrowStep, NewRead
  <2>3. \A n \in DOMAIN cycles : cycles'[n].pin <= backend'[cycles'[n].engine].gen
    <3>. TAKE n \in DOMAIN cycles
    <3>1. PICK x \in Engines : x = cycles[n].engine /\ cycles[n].pin \in Nat /\ cycles[n].pin <= backend[x].gen
      BY <1>7
    <3>2. cycles'[n] = cycles[n]
      BY <1>4
    <3>3. cycles[n].pin <= backend'[x].gen
      BY <1>8, <3>1
    <3>. QED BY <3>1, <3>2, <3>3
  <2>4. k.pin <= backend'[k.engine].gen
    BY <1>3, <1>8 DEF GrowStep, Cycles
  <2>5. \A n \in DOMAIN cycles' : cycles'[n].pin <= backend'[cycles'[n].engine].gen
    BY <1>4, <2>3, <2>4
  <2>6. /\ cli' \in [user : Users, logins : 0..MaxTrouble, faults : 0..MaxTrouble]
        /\ kind' \in [Engines -> {"http", "direct"}]
    BY <1>1 DEF GrowStep, SessionTypeOK
  <2>. QED BY <1>4, <2>1, <2>2, <2>5, <2>6 DEF GrowStep, SessionTypeOK
<1>10. CyclesHold'
  <2>1. ASSUME NEW n \in DOMAIN cycles
        PROVE  LET x == cycles[n].engine IN
               /\ backend'[x].state # "new"
               /\ cycles[n].serial <= ui'.serial /\ cycles[n].since <= cli.logins
               /\ kind[x] = "direct" /\ cycles[n].pin = backend'[x].gen => backend'[x].bound # NoUser
    <3>. DEFINE x == cycles[n].engine
    <3>1. backend'[x].state # "new" /\ cycles[n].since <= cli.logins
      BY <1>1, <1>7 DEF GrowStep, CyclesHold
    <3>2. cycles[n].serial <= ui'.serial
      <4>1. cycles[n].serial <= ui.serial /\ ui.serial <= ui'.serial /\ ui.serial \in Nat /\ ui'.serial \in Nat
        BY <1>1 DEF GrowStep, CyclesHold, SessionTypeOK, Screens
      <4>. QED BY <1>7, <4>1
    <3>3. ASSUME kind[x] = "direct", cycles[n].pin = backend'[x].gen PROVE backend'[x].bound # NoUser
      <4>1. x \in Engines /\ backend'[x].gen = backend[x].gen
        BY <1>7, <1>8, <3>3
      <4>2. backend'[x].bound = backend[x].bound
        BY <4>1 DEF GrowStep
      <4>. QED BY <1>1, <3>3, <4>1, <4>2 DEF CyclesHold
    <3>. QED BY <3>1, <3>2, <3>3
  <2>2. /\ backend'[k.engine].state # "new" /\ k.serial <= ui'.serial /\ k.since <= cli.logins
        /\ k.pin # backend'[k.engine].gen
    <3>1. cli.logins \in Nat /\ k.engine \in Engines
      BY <1>1, <1>3, ConsoleAssumption DEF SessionTypeOK, Cycles
    <3>. QED BY <1>8, <3>1 DEF GrowStep
  <2>3. refresh' # 0 => cycles'[refresh'].engine = engine'
    <3>1. CASE refresh' = refresh
      BY <1>1, <1>2, <1>4, <3>1 DEF GrowStep, CyclesHold
    <3>2. CASE refresh' # refresh
      BY <1>4, <3>2 DEF GrowStep
    <3>. QED BY <3>1, <3>2
  <2>4. ASSUME NEW n \in DOMAIN cycles'
        PROVE  /\ backend'[cycles'[n].engine].state # "new"
               /\ cycles'[n].serial <= ui'.serial /\ cycles'[n].since <= cli.logins
               /\ kind[cycles'[n].engine] = "direct" /\ cycles'[n].pin = backend'[cycles'[n].engine].gen =>
                    backend'[cycles'[n].engine].bound # NoUser
    BY <1>4, <2>1, <2>2
  <2>. QED BY <2>3, <2>4 DEF GrowStep, CyclesHold
<1>11. SentIsCurrent'
  <2>1. \A d \in calls' : d.state = "queued" => d.gen = 0
    BY <1>1 DEF SentIsCurrent, GrowStep, NewRead
  <2>2. ASSUME NEW d \in calls', Sent(d)
        PROVE  LET x == cycles'[d.cycle].engine IN
               /\ d.user \in Users /\ d.gen <= backend'[x].gen
               /\ d.gen = backend'[x].gen => d.rev = backend'[x].rev
               /\ d.what \in {"data", "detail"} => d.gen # 0 /\ cycles'[d.cycle].pin = d.gen
    <3>. DEFINE x == cycles[d.cycle].engine
    <3>1. d \in calls /\ cycles'[d.cycle] = cycles[d.cycle] /\ x \in Engines /\ d.gen \in Nat
      BY <1>4, <1>6, <1>7, <2>2 DEF GrowStep, NewRead, Sent, Calls
    <3>2. /\ d.user \in Users /\ d.gen <= backend[x].gen
          /\ d.gen = backend[x].gen => d.rev = backend[x].rev
          /\ d.what \in {"data", "detail"} => d.gen # 0 /\ cycles[d.cycle].pin = d.gen
      BY <1>1, <2>2, <3>1 DEF SentIsCurrent, EngineOf, Pin
    <3>3. /\ backend[x].gen \in Nat /\ backend'[x].gen \in Nat /\ backend[x].gen <= backend'[x].gen
          /\ backend'[x].rev = backend[x].rev
      BY <1>8, <3>1 DEF GrowStep
    <3>. HIDE DEF x
    <3>4. d.gen <= backend'[x].gen /\ (d.gen = backend'[x].gen => d.rev = backend'[x].rev)
      BY <3>1, <3>2, <3>3
    <3>. QED BY <3>1, <3>2, <3>4 DEF x
  <2>. QED BY <2>1, <2>2 DEF SentIsCurrent, Sent, EngineOf, Pin
<1>. QED BY <1>2, <1>4, <1>5, <1>6, <1>9, <1>10, <1>11

(* A detail or a candidate's cycle says nothing of the refresh. *)
LEMMA SideCycleKeeps ==
  ASSUME SessionInv, NEW k, GrowStep(k), UNCHANGED <<engine, ui, refresh, data, screen>>,
         backend'[engine] = backend[engine]
  PROVE  HeaderHolds' /\ PagesHold' /\ LatestHolds' /\ DataHolds' /\ ShownIsVerified' /\ ShownForSignIn'
<1>1. SessionTypeOK /\ HeaderHolds /\ PagesHold /\ LatestHolds /\ DataHolds /\ ShownIsVerified /\ ShownForSignIn
  BY DEF SessionInv
<1>2. /\ refresh # 0 => refresh \in DOMAIN cycles /\ cycles'[refresh] = cycles[refresh]
      /\ \A d \in calls' : d.cycle = refresh => d \in calls
  BY <1>1, InCycles, GrowKeeps DEF GrowStep, NewRead
<1>3. cli' = cli /\ kind' = kind
  BY DEF GrowStep
<1>4. (Live' <=> Live) /\ (Latest' <=> Latest) /\ (Synchronized' <=> Synchronized)
  BY <1>2, <1>3 DEF Live, Latest, Current, Synchronized
<1>5. HeaderHolds' /\ PagesHold' /\ DataHolds'
  <2>1. HeaderHolds'
    BY <1>1, <1>2, <1>3, <1>4 DEF HeaderHolds
  <2>2. PagesHold'
    BY <1>1, <1>2, <1>4 DEF PagesHold, PageMatchesQuery
  <2>3. DataHolds'
    BY <1>1, <1>2, <1>3, <1>4 DEF DataHolds, Live
  <2>. QED BY <2>1, <2>2, <2>3
<1>6. LatestHolds'
  <2>. SUFFICES ASSUME Latest PROVE LatestHolds'
    BY <1>4 DEF LatestHolds
  <2>1. refresh # 0
    BY DEF Latest
  <2>. QED BY <1>1, <1>2, <1>3, <1>4, <2>1 DEF LatestHolds, Asked, Sent
<1>7. ShownIsVerified' /\ ShownForSignIn'
  BY <1>1, <1>3, <1>4 DEF ShownIsVerified, ShownForSignIn
<1>. QED BY <1>5, <1>6, <1>7

(* The cycles that begin, and the reads they begin with. *)
LEMMA CycleIs ==
  ASSUME SessionInv, NEW e \in Engines, NEW serial \in Nat, NEW tab \in Tabs, NEW k, k = Cycle(e, serial, tab)
  PROVE  k \in Cycles /\ k.pin = 0 /\ k.engine = e /\ k.serial = serial /\ k.tab = tab /\ k.since = cli.logins
  BY ConsoleAssumption DEF SessionInv, SessionTypeOK, Cycle, Cycles, Screens

LEMMA FirstReadIs ==
  ASSUME SessionInv, NEW what \in Reads, NEW d, d = Ask(Len(cycles) + 1, what)
  PROVE  /\ NewRead(d) /\ d.what = what /\ d.page = ui.page /\ d.month = ui.month
<1>1. Len(cycles) + 1 \in Nat
  BY InCycles DEF SessionInv
<1>. QED BY <1>1 DEF SessionInv, SessionTypeOK, Ask, Calls, CallStates, Known, Screens, NewRead

LEMMA OpenDetailKeeps ==
  ASSUME SessionInv, OpenDetail
  PROVE  SessionInv'
<1>1. /\ SessionTypeOK /\ CyclesHold /\ connecting = 0 /\ ui \in Screens /\ engine \in Engines /\ opening \in Nat
      /\ Len(cycles) + 1 # 0 /\ Len(cycles) \in Nat
  BY InCycles DEF SessionInv, SessionTypeOK, OpenDetail, OnTabs, Input
<1>2. PICK k, d : k = Cycle(engine, ui.serial, ui.tab) /\ d = Ask(Len(cycles) + 1, "detail")
  OBVIOUS
<1>3. /\ k \in Cycles /\ k.pin = 0 /\ k.engine = engine /\ k.serial = ui.serial /\ k.since = cli.logins
      /\ NewRead(d)
  BY <1>1, <1>2, CycleIs, FirstReadIs DEF Screens, Reads
<1>4. GrowStep(k)
  <2>1. cycles' = Append(cycles, k) /\ \A f \in calls' : f \in calls \/ NewRead(f)
    BY <1>1, <1>2, <1>3, BusyIsLess DEF OpenDetail
  <2>2. \A x \in Engines : backend[x].gen <= backend[x].gen
    BY <1>1 DEF SessionTypeOK, Backends
  <2>3. ui.serial <= ui.serial /\ ui.rev <= backend[engine].rev
    BY <1>1 DEF Screens, CyclesHold
  <2>. QED BY <1>1, <1>3, <2>1, <2>2, <2>3 DEF OpenDetail, GrowStep, SessionTypeOK, CyclesHold
<1>5. CandidateAlone'
  BY <1>1 DEF OpenDetail, CandidateAlone
<1>6. UNCHANGED <<engine, ui, refresh, data, screen, backend>>
  BY DEF OpenDetail
<1>. QED BY <1>4, <1>5, <1>6, GrowKeeps, SideCycleKeeps DEF SessionInv

(* The candidate is a connection that nothing was read over yet. *)
LEMMA ConnectKeeps ==
  ASSUME SessionInv, NEW e \in Engines, Connect(e)
  PROVE  SessionInv'
<1>. DEFINE n == Len(cycles) + 1
<1>1. /\ SessionTypeOK /\ CyclesHold /\ connecting = 0 /\ ui \in Screens /\ engine \in Engines
      /\ backend \in [Engines -> Backends] /\ backend[e].state = "new"
  BY DEF SessionInv, SessionTypeOK, Connect, OnTabs, Input
<1>2. PICK k, d : k = Cycle(e, 0, ui.tab) /\ d = Ask(n, "whoami")
  OBVIOUS
<1>3. /\ k \in Cycles /\ k.pin = 0 /\ k.engine = e /\ k.serial = 0 /\ k.since = cli.logins
      /\ NewRead(d) /\ d.what = "whoami"
  BY <1>1, <1>2, CycleIs, FirstReadIs DEF Screens, Reads
<1>4. e # engine /\ \A m \in DOMAIN cycles : cycles[m].engine # e
  BY <1>1 DEF CyclesHold
<1>5. /\ backend' \in [Engines -> Backends] /\ backend'[e].state = "open"
      /\ \A x \in Engines : /\ backend'[x].gen = backend[x].gen /\ backend'[x].rev = backend[x].rev
                            /\ backend'[x].bound = backend[x].bound
                            /\ x # e => backend'[x] = backend[x]
  <2>. DEFINE b == [backend[e] EXCEPT !.state = "open"]
  <2>1. /\ b \in Backends /\ b.state = "open" /\ b.gen = backend[e].gen /\ b.rev = backend[e].rev
        /\ b.bound = backend[e].bound
    BY <1>1 DEF Backends
  <2>2. backend' = [backend EXCEPT ![e] = b]
    BY DEF Connect
  <2>. HIDE DEF b
  <2>. QED BY <1>1, <2>1, <2>2
<1>6. GrowStep(k)
  <2>1. cycles' = Append(cycles, k) /\ \A f \in calls' : f \in calls \/ NewRead(f)
    BY <1>2, <1>3 DEF Connect
  <2>2. \A x \in Engines : /\ backend[x].gen <= backend'[x].gen
                           /\ backend[x].state # "new" => backend'[x].state # "new"
    BY <1>1, <1>5 DEF Backends
  <2>3. ui.serial <= ui.serial /\ 0 <= ui.serial /\ ui.rev <= backend'[engine].rev
    BY <1>1, <1>5 DEF Screens, CyclesHold
  <2>4. backend'[e].state # "new" /\ backend'[engine].state # "new"
    BY <1>1, <1>5, <2>2 DEF CyclesHold
  <2>. QED BY <1>1, <1>3, <1>5, <2>1, <2>2, <2>3, <2>4 DEF Connect, GrowStep, SessionTypeOK
<1>7. /\ DOMAIN cycles' = DOMAIN cycles \cup {n} /\ cycles'[n] = k
      /\ \A m \in DOMAIN cycles : cycles'[m] = cycles[m]
      /\ \A f \in calls : f.cycle # n
  BY <1>6, GrowKeeps
<1>8. CandidateAlone'
  <2>1. connecting' = n /\ engine' = engine /\ calls' = calls \cup {d}
    BY <1>2 DEF Connect
  <2>2. \A f \in calls' : f.cycle = n => f = d
    BY <1>7, <2>1
  <2>3. d.state # "answered"
    BY <1>3 DEF NewRead
  <2>. QED BY <1>3, <1>4, <1>7, <2>1, <2>2, <2>3 DEF CandidateAlone
<1>9. UNCHANGED <<engine, ui, refresh, data, screen>> /\ backend'[engine] = backend[engine]
  BY <1>1, <1>4, <1>5 DEF Connect
<1>. QED BY <1>6, <1>8, <1>9, GrowKeeps, SideCycleKeeps DEF SessionInv

(* A refresh begins: nothing has been read in it, and what it will show is *)
(* not on the screen yet.                                                  *)
BeginStep(k) ==
    /\ GrowStep(k) /\ refresh' = Len(cycles) + 1
    /\ k.serial = ui'.serial /\ k.tab = ui'.tab /\ connecting' = 0
    /\ \A d \in calls' : \/ d \in calls \/ d.what = "whoami"
                         \/ d.what = "data" /\ d.page = ui'.page /\ d.month = ui'.month /\ kind[k.engine] = "direct"
    /\ ui'.rev = backend'[engine'].rev /\ ui'.header \in {NoUser, backend'[engine'].known} /\ ui'.verifying
    /\ data'[ui'.tab] = NoData /\ screen' = NoData
    /\ \A t \in Tabs : \/ data'[t] = NoData
                       \/ data'[t] = data[t] /\ data[t].engine = engine' /\ data[t].rev = ui'.rev

LEMMA BeginKeeps ==
  ASSUME SessionInv, NEW k, BeginStep(k)
  PROVE  SessionInv'
<1>. DEFINE n == Len(cycles) + 1
<1>0. GrowStep(k)
  BY DEF BeginStep
<1>1. SessionTypeOK /\ DataHolds /\ ShownForSignIn /\ ui' \in Screens /\ ui'.tab \in Tabs /\ cli' = cli /\ kind' = kind
  BY <1>0 DEF SessionInv, GrowStep, Screens
<1>2. NoData.since = 0 /\ NoData.engine = 0 /\ 0 \notin Engines /\ cli.logins \in Nat /\ 0 <= cli.logins
  BY <1>1, ConsoleAssumption DEF NoData, SessionTypeOK
<1>3. /\ SessionTypeOK' /\ CyclesHold' /\ SentIsCurrent' /\ cycles'[n] = k /\ n # 0
      /\ refresh # n /\ \A d \in calls : d.cycle # n
  BY <1>0, GrowKeeps
<1>4. k.engine = engine' /\ k.pin = 0 /\ engine' \in Engines /\ backend' \in [Engines -> Backends]
  BY <1>0, <1>3 DEF BeginStep, GrowStep
<1>5. \A d \in calls' : d.cycle = n =>
        /\ d.state = "queued" /\ d.what \in {"whoami", "data"}
        /\ d.what = "data" => kind[engine'] = "direct" /\ d.page = ui'.page /\ d.month = ui'.month
  BY <1>0, <1>3, <1>4 DEF BeginStep, GrowStep, NewRead
<1>6. CandidateAlone'
  BY DEF BeginStep, CandidateAlone
<1>7. HeaderHolds'
  BY <1>1, <1>5 DEF BeginStep, HeaderHolds
<1>8. PagesHold'
  BY <1>5 DEF BeginStep, PagesHold, PageMatchesQuery
<1>9. LatestHolds'
  <2>1. cycles'[n].pin # backend'[engine'].gen
    BY <1>3, <1>4 DEF Backends
  <2>2. \A d \in calls' : ~Sent(d) \/ d.cycle # n
    BY <1>5 DEF Sent
  <2>3. \A d \in calls' : d.cycle = n /\ kind[engine'] = "http" => d.what = "whoami" /\ d.state = "queued"
    BY <1>5
  <2>. QED BY <1>1, <1>5, <2>1, <2>2, <2>3 DEF BeginStep, LatestHolds, Asked, Sent
<1>10. DataHolds'
  BY <1>1, <1>2 DEF BeginStep, DataHolds
<1>11. ShownIsVerified'
  BY <1>1, <1>2, <1>4 DEF BeginStep, ShownIsVerified
<1>12. ShownForSignIn'
  BY <1>1 DEF BeginStep, ShownForSignIn
<1>. QED BY <1>3, <1>6, <1>7, <1>8, <1>9, <1>10, <1>11, <1>12 DEF SessionInv

LEMMA ReloadKeeps ==
  ASSUME SessionInv, OnTabs, NEW tab \in Tabs, NEW page \in Nat, NEW month \in Nat, Reload(tab, page, month)
  PROVE  SessionInv'
<1>. DEFINE n == Len(cycles) + 1
<1>1. /\ SessionTypeOK /\ CyclesHold /\ HeaderHolds /\ ShownIsVerified /\ connecting = 0 /\ screen = NoData
      /\ ui \in Screens /\ engine \in Engines /\ Synchronized /\ refresh \in Nat /\ Len(cycles) \in Nat
      /\ data \in [Tabs -> Items] /\ backend \in [Engines -> Backends] /\ ui.serial + 1 \in Nat
  BY InCycles DEF SessionInv, SessionTypeOK, OnTabs, Input, Screens
<1>2. NoData \in Items
  BY DEF NoData, Items, Known
<1>3. PICK k, d, f : /\ k = Cycle(engine, ui.serial + 1, tab) /\ d = Ask(n, "whoami")
                     /\ f = [Ask(n, "data") EXCEPT !.page = page, !.month = month]
  OBVIOUS
<1>4. k \in Cycles /\ k.pin = 0 /\ k.engine = engine /\ k.serial = ui.serial + 1 /\ k.tab = tab /\ k.since = cli.logins
  BY <1>1, <1>3, CycleIs
<1>5. /\ ui' \in Screens /\ ui'.serial = ui.serial + 1 /\ ui'.tab = tab /\ ui'.page = page /\ ui'.month = month
      /\ ui'.verifying /\ ui'.header = ui.header /\ ui'.rev = backend[engine].rev
  <2>1. backend[engine].rev \in Nat
    BY <1>1 DEF Backends
  <2>. QED BY <1>1, <2>1 DEF Reload, Refreshing, Screens
<1>6. /\ NewRead(d) /\ d.what = "whoami" /\ NewRead(f) /\ f.what = "data" /\ f.page = page /\ f.month = month
  <2>. DEFINE g == Ask(n, "data")
  <2>1. NewRead(d) /\ d.what = "whoami" /\ NewRead(g) /\ g.what = "data"
    BY <1>3, FirstReadIs DEF Reads
  <2>2. f = [g EXCEPT !.page = page, !.month = month]
    BY <1>3
  <2>. HIDE DEF g
  <2>. QED BY <2>1, <2>2 DEF NewRead, Calls
<1>7. /\ \A x \in calls' : x \in calls \/ x = d \/ (x = f /\ kind[engine] = "direct")
      /\ cycles' = Append(cycles, k) /\ refresh' = n
      /\ UNCHANGED <<cli, kind, backend, engine, opening, connecting, screen>>
      /\ data' = [data EXCEPT ![tab] = NoData]
  BY <1>1, <1>3, BusyIsLess DEF Reload, Refreshing
<1>8. GrowStep(k)
  <2>1. \A x \in Engines : backend[x].gen <= backend[x].gen /\ backend[x].rev <= backend[x].rev
    BY <1>1 DEF Backends
  <2>2. ui.serial <= ui.serial + 1 /\ ui.serial + 1 <= ui.serial + 1
    BY <1>1 DEF Screens
  <2>3. data' \in [Tabs -> Items]
    BY <1>1, <1>2, <1>7
  <2>4. \A x \in calls' : x \in calls \/ NewRead(x)
    BY <1>6, <1>7
  <2>5. backend[engine].state # "new"
    BY <1>1 DEF CyclesHold
  <2>6. /\ UNCHANGED <<cli, kind>> /\ engine' = engine /\ engine' \in Engines /\ backend' = backend
        /\ connecting' \in {0, connecting, n} /\ opening' \in {opening, n} /\ screen' \in Items
    BY <1>1, <1>2, <1>7
  <2>7. /\ \A x \in Engines :
            /\ backend[x].gen <= backend'[x].gen /\ backend'[x].rev = backend[x].rev
            /\ backend'[x].gen = backend[x].gen => backend'[x].bound = backend[x].bound
            /\ backend[x].state # "new" => backend'[x].state # "new"
        /\ backend'[k.engine].state # "new" /\ backend'[engine'].state # "new" /\ ui'.rev <= backend'[engine'].rev
    BY <1>1, <1>4, <1>5, <2>1, <2>5, <2>6
  <2>. QED BY <1>1, <1>4, <1>5, <1>7, <2>2, <2>3, <2>4, <2>6, <2>7 DEF GrowStep
<1>9. \A x \in calls' : \/ x \in calls \/ x.what = "whoami"
                        \/ x.what = "data" /\ x.page = ui'.page /\ x.month = ui'.month /\ kind[k.engine] = "direct"
  BY <1>4, <1>5, <1>6, <1>7
<1>10. \A t \in Tabs : \/ data'[t] = NoData
                       \/ data'[t] = data[t] /\ data[t].engine = engine' /\ data[t].rev = ui'.rev
  <2>1. \A t \in Tabs : data'[t] \in {NoData, data[t]}
    BY <1>1, <1>7
  <2>2. \A t \in Tabs : data[t] = NoData \/ (data[t].engine = engine /\ data[t].rev = ui.rev)
    BY <1>1 DEF ShownIsVerified
  <2>. QED BY <1>1, <1>5, <1>7, <2>1, <2>2 DEF Synchronized
<1>11. ui'.rev = backend'[engine'].rev /\ ui'.header \in {NoUser, backend'[engine'].known} /\ ui'.verifying
  BY <1>1, <1>5, <1>7 DEF HeaderHolds
<1>12. data'[ui'.tab] = NoData /\ screen' = NoData /\ connecting' = 0
  BY <1>1, <1>5, <1>7
<1>13. BeginStep(k)
  BY <1>4, <1>5, <1>7, <1>8, <1>9, <1>10, <1>11, <1>12 DEF BeginStep
<1>. QED BY <1>13, BeginKeeps

LEMMA ReloadsKeep ==
  ASSUME SessionInv, Refresh \/ SwitchTab \/ NextPage \/ PreviousPage \/ SetQuery
  PROVE  SessionInv'
<1>1. ui.tab \in Tabs /\ ui.page \in Nat /\ ui.month \in Nat
  BY DEF SessionInv, SessionTypeOK, Screens
<1>2. PICK tab \in Tabs, page \in Nat, month \in Nat : OnTabs /\ Reload(tab, page, month)
  <2>1. CASE Refresh \/ SwitchTab
    BY <1>1, <2>1 DEF Refresh, SwitchTab
  <2>2. CASE NextPage
    <3>1. ui.page + 1 \in Nat
      BY <1>1
    <3>. QED BY <1>1, <2>2, <3>1 DEF NextPage
  <2>3. CASE PreviousPage
    <3>1. ui.page - 1 \in Nat
      BY <1>1, <2>3 DEF PreviousPage
    <3>. QED BY <1>1, <2>3, <3>1 DEF PreviousPage
  <2>4. CASE SetQuery
    <3>1. ui.month + 1 \in Nat
      BY <1>1
    <3>. QED BY <1>1, <2>4, <3>1 DEF SetQuery
  <2>. QED BY <2>1, <2>2, <2>3, <2>4
<1>. QED BY <1>2, ReloadKeeps

(* A connection that is closed admits nothing any more. *)
LEMMA ClosedIs ==
  ASSUME SessionTypeOK, NEW e \in Engines, NEW q, q = Closed(e)
  PROVE  /\ q \in [Engines -> Backends] /\ q[e].gen = backend[e].gen + 1 /\ q[e].bound = NoUser
         /\ q[e].state = "closed" /\ q[e].rev = backend[e].rev /\ q[e].known = backend[e].known
         /\ \A x \in Engines : x # e => q[x] = backend[x]
<1>. DEFINE b == [backend[e] EXCEPT !.gen = @ + 1, !.bound = NoUser, !.state = "closed"]
<1>1. backend \in [Engines -> Backends] /\ backend[e] \in Backends /\ backend[e].gen + 1 \in Nat \ {0}
  BY DEF SessionTypeOK, Backends
<1>2. /\ b \in Backends /\ b.gen = backend[e].gen + 1 /\ b.bound = NoUser /\ b.state = "closed"
      /\ b.rev = backend[e].rev /\ b.known = backend[e].known
  BY <1>1 DEF Backends, Known
<1>3. q = [backend EXCEPT ![e] = b]
  BY <1>1 DEF Closed
<1>. HIDE DEF b
<1>. QED BY <1>1, <1>2, <1>3

(* The console goes over to the candidate, and to the user it verified. *)
ConnectedStep(c, e, n) ==
    /\ c.cycle = connecting /\ c.state = "answered"
    /\ engine' = e /\ backend' = Closed(engine) /\ connecting' = 0 /\ UNCHANGED <<cli, kind, opening>>
    /\ ui' = [ui EXCEPT !.serial = @ + 2, !.page = 0, !.header = c.user, !.rev = backend[e].rev, !.verifying = TRUE]
    /\ cycles' = Append(cycles, Cycle(e, ui.serial + 2, ui.tab))
    /\ calls' = (Busy(refresh) \ {c}) \cup {[Ask(n, w) EXCEPT !.page = 0] :
                   w \in IF kind[e] = "direct" THEN {"whoami", "data"} ELSE {"whoami"}}
    /\ refresh' = n /\ data' = [t \in Tabs |-> NoData] /\ screen' = NoData

LEMMA ConnectedKeeps ==
  ASSUME SessionInv, NEW c \in calls, NEW e, e = EngineOf(c), NEW n, n = Len(cycles) + 1, ConnectedStep(c, e, n)
  PROVE  SessionInv'
<1>1. /\ SessionTypeOK /\ CyclesHold /\ CandidateAlone /\ SentIsCurrent
      /\ ui \in Screens /\ engine \in Engines /\ refresh \in Nat /\ Len(cycles) \in Nat /\ ui.tab \in Tabs
      /\ backend \in [Engines -> Backends] /\ ui.serial \in Nat /\ ui.serial + 2 \in Nat
  <2>1. SessionTypeOK /\ CyclesHold /\ CandidateAlone /\ SentIsCurrent
    BY DEF SessionInv
  <2>2. refresh \in Nat /\ Len(cycles) \in Nat
    BY <2>1, InCycles
  <2>3. ui \in Screens /\ engine \in Engines /\ backend \in [Engines -> Backends]
    BY <2>1 DEF SessionTypeOK
  <2>4. ui.tab \in Tabs /\ ui.serial \in Nat
    BY <2>3 DEF Screens
  <2>5. ui.serial + 2 \in Nat
    BY <2>4
  <2>. QED BY <2>1, <2>2, <2>3, <2>4, <2>5
<1>2. e \in Engines /\ c.cycle \in DOMAIN cycles /\ connecting # 0 /\ e = cycles[connecting].engine
  BY <1>1, CallTypes DEF ConnectedStep, EngineOf
<1>3. e # engine /\ c.user = backend[e].known /\ backend[e].state # "new" /\ c.user \in Known
  BY <1>1, <1>2 DEF ConnectedStep, CandidateAlone, CyclesHold, Backends
<1>4. PICK k : k = Cycle(e, ui.serial + 2, ui.tab)
  OBVIOUS
<1>5. k \in Cycles /\ k.pin = 0 /\ k.engine = e /\ k.serial = ui.serial + 2 /\ k.tab = ui.tab /\ k.since = cli.logins
  BY <1>1, <1>2, <1>4, CycleIs
<1>6. /\ ui' \in Screens /\ ui'.serial = ui.serial + 2 /\ ui'.tab = ui.tab /\ ui'.page = 0 /\ ui'.month = ui.month
      /\ ui'.verifying /\ ui'.header = c.user /\ ui'.rev = backend[e].rev
  <2>1. backend[e].rev \in Nat
    BY <1>1, <1>2 DEF Backends
  <2>. QED BY <1>1, <1>3, <2>1 DEF ConnectedStep, Screens
<1>7. ASSUME NEW x \in calls'
      PROVE  \/ x \in calls
             \/ NewRead(x) /\ x.what = "whoami"
             \/ NewRead(x) /\ x.what = "data" /\ x.page = 0 /\ x.month = ui.month /\ kind[e] = "direct"
  <2>. SUFFICES ASSUME x \notin calls
                PROVE  /\ NewRead(x) /\ x.what \in {"whoami", "data"}
                       /\ x.what = "data" => x.page = 0 /\ x.month = ui.month /\ kind[e] = "direct"
    OBVIOUS
  <2>1. PICK w \in {"whoami", "data"} : x = [Ask(n, w) EXCEPT !.page = 0] /\ (w = "data" => kind[e] = "direct")
    BY <1>1, BusyIsLess DEF ConnectedStep
  <2>2. PICK d : d = Ask(n, w)
    OBVIOUS
  <2>3. NewRead(d) /\ d.what = w /\ d.month = ui.month
    BY <2>2, FirstReadIs DEF Reads
  <2>4. NewRead(x) /\ x.what = w /\ x.page = 0 /\ x.month = ui.month
    BY <2>1, <2>2, <2>3 DEF NewRead, Calls
  <2>. QED BY <2>1, <2>4
<1>8. /\ backend' \in [Engines -> Backends] /\ backend'[engine].gen = backend[engine].gen + 1
      /\ backend'[engine].state = "closed" /\ backend'[engine].rev = backend[engine].rev
      /\ \A x \in Engines : x # engine => backend'[x] = backend[x]
  BY <1>1, ClosedIs DEF ConnectedStep
<1>9. NoData \in Items
  BY DEF NoData, Items, Known
<1>10. GrowStep(k)
  <2>1. \A x \in Engines :
          /\ backend[x].gen <= backend'[x].gen /\ backend'[x].rev = backend[x].rev
          /\ backend'[x].gen = backend[x].gen => backend'[x].bound = backend[x].bound
          /\ backend[x].state # "new" => backend'[x].state # "new"
    <3>. TAKE x \in Engines
    <3>1. backend[x].gen \in Nat
      BY <1>1 DEF Backends
    <3>2. CASE x = engine
      BY <1>8, <3>1, <3>2
    <3>3. CASE x # engine
      BY <1>8, <3>1, <3>3
    <3>. QED BY <3>2, <3>3
  <2>2. ui.serial <= ui.serial + 2 /\ ui.serial + 2 <= ui.serial + 2 /\ backend[e].rev <= backend[e].rev
    <3>1. backend[e].rev \in Nat
      BY <1>1, <1>2 DEF Backends
    <3>. QED BY <1>1, <3>1
  <2>3. backend'[e] = backend[e]
    BY <1>2, <1>3, <1>8
  <2>4. UNCHANGED <<cli, kind, opening>> /\ cycles' = Append(cycles, k)
    BY <1>4 DEF ConnectedStep
  <2>5. data' \in [Tabs -> Items] /\ screen' \in Items /\ refresh' # refresh
    BY <1>1, <1>9, InCycles DEF ConnectedStep, SessionTypeOK
  <2>6. \A x \in calls' : x \in calls \/ NewRead(x)
    BY <1>7
  <2>7. backend'[e].state # "new" /\ ui'.rev <= backend'[e].rev
    BY <1>3, <1>6, <2>2, <2>3
  <2>. QED BY <1>2, <1>5, <1>6, <1>8, <2>1, <2>2, <2>4, <2>5, <2>6, <2>7 DEF ConnectedStep, GrowStep
<1>11. ui'.rev = backend'[engine'].rev /\ ui'.header \in {NoUser, backend'[engine'].known}
  BY <1>2, <1>3, <1>6, <1>8 DEF ConnectedStep
<1>12. \A x \in calls' : \/ x \in calls \/ x.what = "whoami"
                         \/ x.what = "data" /\ x.page = ui'.page /\ x.month = ui'.month /\ kind[k.engine] = "direct"
  BY <1>5, <1>6, <1>7
<1>13. \A t \in Tabs : data'[t] = NoData
  BY DEF ConnectedStep
<1>14. data'[ui'.tab] = NoData
  BY <1>1, <1>6, <1>13
<1>15. BeginStep(k)
  BY <1>5, <1>6, <1>10, <1>11, <1>12, <1>13, <1>14 DEF ConnectedStep, BeginStep
<1>. QED BY <1>15, BeginKeeps

(* A token that goes leaves no read that counts on it: only HTTP takes up  *)
(* another one, and a connection that is closed has new credentials.       *)
LEMMA DropKeeps ==
  ASSUME SessionInv, UNCHANGED <<cli, kind, engine, cycles, ui, refresh, opening, data, screen>>,
         calls' \subseteq calls, connecting' \in {0, connecting},
         NEW e \in Engines, NEW b \in Backends, backend' = [backend EXCEPT ![e] = b],
         b.bound = NoUser, b.rev = backend[e].rev, b.known = backend[e].known, b.state \in {"closed", backend[e].state},
         \/ e # engine /\ b.gen = backend[e].gen + 1
         \/ kind[e] = "http" /\ b.gen = backend[e].gen
  PROVE  SessionInv'
<1>1. /\ SessionTypeOK /\ CyclesHold /\ CandidateAlone /\ SentIsCurrent /\ HeaderHolds /\ PagesHold
      /\ LatestHolds /\ DataHolds /\ ShownIsVerified /\ ShownForSignIn
      /\ backend \in [Engines -> Backends] /\ engine \in Engines /\ kind \in [Engines -> {"http", "direct"}]
  BY DEF SessionInv, SessionTypeOK
<1>2. backend' \in [Engines -> Backends] /\ backend'[e] = b /\ \A x \in Engines : x # e => backend'[x] = backend[x]
  BY <1>1
<1>3. \A n \in DOMAIN cycles : cycles[n] \in Cycles /\ cycles[n].engine \in Engines /\ cycles[n].pin \in Nat
  BY <1>1, InCycles DEF Cycles
<1>4. \A x \in Engines : /\ backend'[x].rev = backend[x].rev /\ backend'[x].known = backend[x].known
                         /\ backend[x].gen \in Nat /\ backend'[x].gen \in Nat /\ backend[x].gen <= backend'[x].gen
                         /\ backend[x].state # "new" => backend'[x].state # "new"
                         /\ backend'[x].gen = backend[x].gen /\ kind[x] = "direct" => backend'[x] = backend[x]
                         /\ backend'[x].bound \in {NoUser, backend[x].bound}
  <2>. TAKE x \in Engines
  <2>1. backend[x].gen \in Nat /\ backend[e].gen \in Nat
    BY <1>1 DEF Backends
  <2>2. CASE x = e
    BY <1>2, <2>1, <2>2
  <2>3. CASE x # e
    BY <1>2, <2>1, <2>3
  <2>. QED BY <2>2, <2>3
<1>5. \A d \in calls : EngineOf(d) \in Engines /\ (UNCHANGED EngineOf(d)) /\ (UNCHANGED Pin(d))
  BY <1>1, CallTypes DEF EngineOf, Pin
<1>6. SessionTypeOK'
  <2>1. \A n \in DOMAIN cycles : cycles[n].pin <= backend'[cycles[n].engine].gen
    BY <1>1, <1>3, <1>4 DEF SessionTypeOK
  <2>2. connecting' \in 0..Len(cycles)
    BY <1>1, InCycles DEF SessionTypeOK
  <2>. QED BY <1>1, <1>2, <2>1, <2>2 DEF SessionTypeOK
<1>7. CyclesHold'
  <2>1. \A n \in DOMAIN cycles : kind[cycles[n].engine] = "direct" /\ cycles[n].pin = backend'[cycles[n].engine].gen =>
                                     backend'[cycles[n].engine].bound # NoUser
    <3>. TAKE n \in DOMAIN cycles
    <3>. HAVE kind[cycles[n].engine] = "direct" /\ cycles[n].pin = backend'[cycles[n].engine].gen
    <3>1. cycles[n].pin <= backend[cycles[n].engine].gen
      BY <1>1 DEF SessionTypeOK
    <3>2. backend'[cycles[n].engine] = backend[cycles[n].engine]
      BY <1>3, <1>4, <3>1
    <3>. QED BY <1>1, <3>2 DEF CyclesHold
  <2>. QED BY <1>1, <1>3, <1>4, <2>1 DEF CyclesHold
<1>8. CandidateAlone'
  <2>. SUFFICES ASSUME connecting' # 0 PROVE CandidateAlone'
    BY DEF CandidateAlone
  <2>1. connecting' = connecting /\ connecting \in DOMAIN cycles
    BY <1>1, InCycles
  <2>2. backend'[cycles[connecting].engine].known = backend[cycles[connecting].engine].known
    BY <1>3, <1>4, <2>1
  <2>. QED BY <1>1, <2>1, <2>2 DEF CandidateAlone
<1>9. SentIsCurrent'
  <2>. SUFFICES ASSUME NEW d \in calls
                PROVE  /\ d.state = "queued" => d.gen = 0
                       /\ Sent(d) =>
                           /\ d.user \in Users /\ d.gen <= backend'[EngineOf(d)].gen
                           /\ d.gen = backend'[EngineOf(d)].gen => d.rev = backend'[EngineOf(d)].rev
                           /\ d.what \in {"data", "detail"} => d.gen # 0 /\ Pin(d) = d.gen
    BY <1>5 DEF SentIsCurrent, Sent
  <2>1. d.gen \in Nat
    BY <1>1, CallTypes DEF Calls
  <2>2. CASE ~Sent(d)
    BY <1>1, <2>2 DEF SentIsCurrent
  <2>3. CASE Sent(d)
    <3>1. PICK x \in Engines : x = EngineOf(d)
      BY <1>5
    <3>2. /\ d.user \in Users /\ d.gen <= backend[x].gen /\ (d.gen = backend[x].gen => d.rev = backend[x].rev)
          /\ d.what \in {"data", "detail"} => d.gen # 0 /\ Pin(d) = d.gen
          /\ d.state = "queued" => d.gen = 0
      BY <1>1, <2>3, <3>1 DEF SentIsCurrent
    <3>. QED BY <1>4, <2>1, <3>1, <3>2
  <2>. QED BY <2>2, <2>3
<1>10. (Live' <=> Live) /\ (Latest' <=> Latest) /\ (Synchronized' <=> Synchronized)
  BY <1>1, <1>4 DEF Live, Latest, Current, Synchronized
<1>11. backend'[engine].known = backend[engine].known /\ backend'[engine].bound \in {NoUser, backend[engine].bound}
  BY <1>1, <1>4
<1>12. HeaderHolds'
  BY <1>1, <1>10, <1>11 DEF HeaderHolds
<1>13. PagesHold' /\ DataHolds' /\ ShownIsVerified' /\ ShownForSignIn'
  BY <1>1, <1>10, <1>11 DEF PagesHold, PageMatchesQuery, DataHolds, ShownIsVerified, ShownForSignIn
<1>14. LatestHolds'
  <2>1. kind[engine] = "direct" => backend'[engine] = backend[engine]
    BY <1>1, <1>2
  <2>. QED BY <1>1, <1>10, <1>11, <2>1 DEF LatestHolds, Asked, Sent
<1>. QED BY <1>6, <1>7, <1>8, <1>9, <1>12, <1>13, <1>14 DEF SessionInv

LEMMA ConnectReturnsKeeps ==
  ASSUME SessionInv, NEW c \in calls, ConnectReturns(c)
  PROVE  SessionInv'
<1>1. SessionTypeOK /\ CandidateAlone /\ c.cycle = connecting /\ connecting' = 0 /\ UNCHANGED <<cli, kind, opening>>
  BY DEF SessionInv, ConnectReturns
<1>2. PICK e \in Engines : e = EngineOf(c)
  BY <1>1, CallTypes
<1>3. CASE ConnectedStep(c, e, Len(cycles) + 1)
  <2>1. PICK n : n = Len(cycles) + 1
    OBVIOUS
  <2>2. ConnectedStep(c, e, n)
    BY <1>3, <2>1
  <2>. QED BY <1>2, <2>1, <2>2, ConnectedKeeps
<1>4. CASE /\ backend' = Closed(e) /\ calls' = calls \ {c}
           /\ UNCHANGED <<engine, ui, cycles, refresh, data, screen>>
  <2>1. e # engine
    BY <1>1, <1>2, CallTypes DEF CandidateAlone, EngineOf
  <2>. DEFINE k == [backend[e] EXCEPT !.gen = @ + 1, !.bound = NoUser, !.state = "closed"]
  <2>2. backend \in [Engines -> Backends] /\ backend[e] \in Backends /\ backend[e].gen + 1 \in Nat \ {0}
    BY <1>1 DEF SessionTypeOK, Backends
  <2>3. /\ k \in Backends /\ k.gen = backend[e].gen + 1 /\ k.bound = NoUser /\ k.state = "closed"
        /\ k.rev = backend[e].rev /\ k.known = backend[e].known
    BY <2>2 DEF Backends, Known
  <2>4. backend' = [backend EXCEPT ![e] = k]
    BY <1>4, <2>2 DEF Closed
  <2>. HIDE DEF k
  <2>5. PICK b \in Backends : b = k
    BY <2>3
  <2>6. /\ backend' = [backend EXCEPT ![e] = b] /\ b.gen = backend[e].gen + 1 /\ b.bound = NoUser
        /\ b.state = "closed" /\ b.rev = backend[e].rev /\ b.known = backend[e].known
    BY <2>3, <2>4, <2>5
  <2>. QED BY <1>1, <1>4, <2>1, <2>6, DropKeeps
<1>. QED BY <1>1, <1>2, <1>3, <1>4 DEF ConnectReturns, ConnectedStep

LEMMA TokenExpiresKeeps ==
  ASSUME SessionInv, NEW e \in Engines, TokenExpires(e)
  PROVE  SessionInv'
<1>. DEFINE k == [backend[e] EXCEPT !.bound = NoUser]
<1>1. backend \in [Engines -> Backends] /\ backend[e] \in Backends
  BY DEF SessionInv, SessionTypeOK
<1>2. /\ k \in Backends /\ k.gen = backend[e].gen /\ k.bound = NoUser /\ k.state = backend[e].state
      /\ k.rev = backend[e].rev /\ k.known = backend[e].known
  BY <1>1 DEF Backends, Known
<1>3. backend' = [backend EXCEPT ![e] = k]
  BY <1>1 DEF TokenExpires
<1>. HIDE DEF k
<1>4. PICK b \in Backends : b = k
  BY <1>2
<1>5. /\ backend' = [backend EXCEPT ![e] = b] /\ b.gen = backend[e].gen /\ b.bound = NoUser
      /\ b.state = backend[e].state /\ b.rev = backend[e].rev /\ b.known = backend[e].known
  BY <1>2, <1>3, <1>4
<1>. QED BY <1>5, DropKeeps DEF TokenExpires

(* After az login nothing that has begun is of the last sign-in. *)
LEMMA LoginKeeps ==
  ASSUME SessionInv, NEW u \in Users, Login(u)
  PROVE  SessionInv'
<1>1. /\ SessionTypeOK /\ CyclesHold /\ CandidateAlone /\ SentIsCurrent /\ HeaderHolds /\ PagesHold
      /\ DataHolds /\ ShownIsVerified
      /\ UNCHANGED <<kind, backend, engine, cycles, calls, ui, refresh, opening, connecting, data, screen>>
  BY DEF SessionInv, Login
<1>2. cli' \in [user : Users, logins : 0..MaxTrouble, faults : 0..MaxTrouble] /\ cli.logins \in Nat /\ cli'.logins = cli.logins + 1
  <2>1. cli.logins \in 0..MaxTrouble /\ cli.faults \in 0..MaxTrouble /\ MaxTrouble \in Nat /\ cli.logins + cli.faults < MaxTrouble
    BY <1>1, ConsoleAssumption DEF SessionTypeOK, Login
  <2>2. cli.logins + 1 \in 0..MaxTrouble
    BY <2>1
  <2>3. cli \in [user : Users, logins : 0..MaxTrouble, faults : 0..MaxTrouble]
    BY <1>1 DEF SessionTypeOK
  <2>4. PICK m \in 0..MaxTrouble : m = cli.logins + 1
    BY <2>2
  <2>5. cli' = [cli EXCEPT !.user = u, !.logins = m]
    BY <2>4 DEF Login
  <2>6. cli' \in [user : Users, logins : 0..MaxTrouble, faults : 0..MaxTrouble] /\ cli'.logins = m
    BY <2>3, <2>5
  <2>. QED BY <2>1, <2>4, <2>6
<1>3. \A n \in DOMAIN cycles : cycles[n].since \in Nat /\ cycles[n].since <= cli.logins
  BY <1>1, InCycles DEF Cycles, CyclesHold
<1>4. \A t \in Tabs : data[t].since \in Nat /\ data[t].since <= cli.logins
  BY <1>1 DEF SessionTypeOK, Items, DataHolds
<1>5. SessionTypeOK'
  BY <1>1, <1>2 DEF SessionTypeOK
<1>6. CyclesHold'
  BY <1>1, <1>2, <1>3 DEF CyclesHold
<1>7. CandidateAlone' /\ HeaderHolds' /\ PagesHold' /\ ShownIsVerified'
  BY <1>1 DEF CandidateAlone, HeaderHolds, Live, Current, Synchronized, PagesHold, PageMatchesQuery, ShownIsVerified
<1>8. SentIsCurrent'
  BY <1>1 DEF SentIsCurrent, Sent, EngineOf, Pin
<1>9. LatestHolds'
  <2>1. ~Latest'
    BY <1>1, <1>2, <1>3, InCycles DEF Latest
  <2>. QED BY <2>1 DEF LatestHolds
<1>10. DataHolds'
  BY <1>1, <1>2, <1>4 DEF DataHolds, Live, Current
<1>11. ShownForSignIn'
  BY <1>1, <1>2, <1>4 DEF ShownForSignIn
<1>. QED BY <1>5, <1>6, <1>7, <1>8, <1>9, <1>10, <1>11 DEF SessionInv

LEMMA SessionStep ==
  ASSUME SessionInv, [Next]_sessionVars
  PROVE  SessionInv'
<1>1. CASE Threads
  BY <1>1, SendHttpKeeps, SendDirectKeeps, ReadFeaturesKeeps, ReadFailsKeeps, ReadReturnsKeeps, WhoamiReturnsKeeps DEF Threads
<1>2. CASE Loop
  <2>1. ASSUME NEW c \in calls, HandleIdentity(c) \/ HandleFeatures(c) \/ HandleData(c) \/ ShowDetail(c) \/ ConnectReturns(c)
        PROVE  SessionInv'
    BY <2>1, HandleIdentityKeeps, HandleFeaturesKeeps, HandleDataKeeps, ShowDetailKeeps, ConnectReturnsKeeps
  <2>. QED BY <1>2, <2>1, ScreensKeep DEF Loop
<1>3. CASE Inputs
  BY <1>3, ReloadsKeep, ScreensKeep, OpenDetailKeeps, ConnectKeeps DEF Inputs
<1>4. CASE Outside
  BY <1>4, LoginKeeps, TokenExpiresKeeps DEF Outside
<1>5. CASE UNCHANGED sessionVars
  <2>1. SessionTypeOK' /\ CyclesHold' /\ CandidateAlone'
    BY <1>5 DEF sessionVars, SessionInv, SessionTypeOK, CyclesHold, CandidateAlone
  <2>2. SentIsCurrent' /\ HeaderHolds'
    BY <1>5 DEF sessionVars, SessionInv, SentIsCurrent, Sent, EngineOf, Pin, HeaderHolds, Live, Current, Synchronized
  <2>3. PagesHold' /\ LatestHolds' /\ DataHolds'
    BY <1>5 DEF sessionVars, SessionInv, PagesHold, PageMatchesQuery, LatestHolds, Latest, Live, Current, Asked, Sent,
          DataHolds
  <2>4. ShownIsVerified' /\ ShownForSignIn'
    BY <1>5 DEF sessionVars, SessionInv, ShownIsVerified, Synchronized, ShownForSignIn
  <2>. QED BY <2>1, <2>2, <2>3, <2>4 DEF SessionInv
<1>. QED BY <1>1, <1>2, <1>3, <1>4, <1>5 DEF Next

-----------------------------------------------------------------------------
(* The session of the console, in every state: a connection's credentials, *)
(* its cycles, the reads on their way and what the screen holds belong     *)
(* together, whatever threads finish late.                                 *)
THEOREM SessionInvariant == Spec => []SessionInv
<1>1. Init => SessionInv
  BY InitSession
<1>2. SessionInv /\ [Next]_sessionVars => SessionInv'
  BY SessionStep
<1>. QED BY <1>1, <1>2, PTL DEF Spec

(* Every variable of the session keeps its type, and every worker and read *)
(* its cycle; a cycle is never pinned to credentials yet to come.          *)
THEOREM SessionTypeCorrect == Spec => []SessionTypeOK
<1>1. SessionInv => SessionTypeOK
  BY DEF SessionInv
<1>. QED BY <1>1, SessionInvariant, PTL

(* Once a changed sign-in has been noticed, no tab and no form holds what  *)
(* was read for the previous one, and the header names the one that was    *)
(* verified last.                                                          *)
THEOREM ShownWasVerified == Spec => []ShownIsVerified
<1>1. SessionInv => ShownIsVerified
  BY DEF SessionInv
<1>. QED BY <1>1, SessionInvariant, PTL

(* The list on the screen is the page, and of the month, the paging says. *)
THEOREM PagesMatch == Spec => []PageMatchesQuery
<1>1. SessionInv => PageMatchesQuery
  BY DEF SessionInv, PagesHold
<1>. QED BY <1>1, SessionInvariant, PTL

(* What a refresh shows that began after the last az login was read as the *)
(* user who signed in.                                                     *)
THEOREM ShownBySignedIn == Spec => []ShownForSignIn
<1>1. SessionInv => ShownForSignIn
  BY DEF SessionInv
<1>. QED BY <1>1, SessionInvariant, PTL

-----------------------------------------------------------------------------
(* The boundary in front of the terminal (GuardedPublication), for any     *)
(* widgets, sign-ins and reads: what keeps every origin at least as strict *)
(* as the data under it.                                                   *)
(* Data is never wider than the origin it travels under; a widget's own    *)
(* content, which copying relies on, lies between the two.                 *)
OriginsCover ==
    /\ \A w \in Widgets : /\ widget[w].data \subseteq widget[w].content
                          /\ widget[w].content \subseteq widget[w].origin
    /\ \A d \in work : d.data \subseteq d.origin
    /\ \A n \in notes : n.data \subseteq n.origin

CoverInv == PublicationTypeOK /\ OriginsCover

(* The initial console shows nothing. *)
LEMMA InitPublication == PublicationInit => CoverInv
  BY PublicationAssumption DEF PublicationInit, CoverInv, PublicationTypeOK, OriginsCover, Blank, Safe,
      Revisions, Work, Notes

(* Clearing leaves widgets without data and no notification that is not a  *)
(* message that was waiting already.                                       *)
LEMMA BoundaryClearKeeps ==
  ASSUME CoverInv, NEW messages, ClearExcept(messages)
  PROVE  /\ app' \in [revision : Revisions, told : BOOLEAN]
         /\ widget' \in [Widgets -> [data : SUBSET Revisions, origin : SUBSET Revisions, content : SUBSET Revisions]]
         /\ notes' \subseteq notes /\ dirty' = Widgets
         /\ \A w \in Widgets : widget'[w] = Blank
  BY DEF CoverInv, PublicationTypeOK, ClearExcept, Blank, Safe

(* A refused origin clears the console and nothing else. *)
LEMMA RefuseKeeps ==
  ASSUME CoverInv, Refuse, work' \subseteq work
  PROVE  CoverInv'
<1>1. ClearExcept({})
  BY DEF Refuse, Clear
<1>2. /\ app' \in [revision : Revisions, told : BOOLEAN]
      /\ widget' \in [Widgets -> [data : SUBSET Revisions, origin : SUBSET Revisions, content : SUBSET Revisions]]
      /\ notes' \subseteq notes /\ dirty' = Widgets
      /\ \A w \in Widgets : widget'[w] = Blank
  BY <1>1, BoundaryClearKeeps
<1>3. PublicationTypeOK'
  BY <1>2 DEF Refuse, CoverInv, PublicationTypeOK
<1>4. OriginsCover'
  BY <1>2 DEF CoverInv, OriginsCover, Blank, Safe
<1>. QED BY <1>3, <1>4 DEF CoverInv

(* What a callback carries covers the widget it writes. *)
LEMMA SinkKeeps ==
  ASSUME CoverInv, NEW d \in work, Write(d), work' \subseteq work
  PROVE  CoverInv'
<1>1. d \in Work /\ d.data \subseteq d.origin
  BY DEF CoverInv, PublicationTypeOK, OriginsCover
<1>2. /\ d.data \in SUBSET Revisions /\ d.origin \in SUBSET Revisions /\ d.to \in Widgets
  BY <1>1 DEF Work
<1>3. PublicationTypeOK'
  BY <1>2 DEF Write, WidgetSink, CoverInv, PublicationTypeOK
<1>4. OriginsCover'
  BY <1>1, <1>2 DEF Write, WidgetSink, CoverInv, PublicationTypeOK, OriginsCover
<1>. QED BY <1>3, <1>4 DEF CoverInv

(* A notification that is dropped clears the console and stays dropped. *)
LEMMA DroppedKeeps ==
  ASSUME CoverInv, NEW n \in notes, Dropped(n)
  PROVE  CoverInv'
<1>1. ClearExcept({n})
  BY DEF Dropped
<1>2. /\ app' \in [revision : Revisions, told : BOOLEAN]
      /\ widget' \in [Widgets -> [data : SUBSET Revisions, origin : SUBSET Revisions, content : SUBSET Revisions]]
      /\ notes' \subseteq notes /\ dirty' = Widgets
      /\ \A w \in Widgets : widget'[w] = Blank
  BY <1>1, BoundaryClearKeeps
<1>3. PublicationTypeOK'
  BY <1>2 DEF Dropped, CoverInv, PublicationTypeOK
<1>4. OriginsCover'
  BY <1>2 DEF Dropped, CoverInv, OriginsCover, Blank, Safe
<1>. QED BY <1>3, <1>4 DEF CoverInv

(* A notification moves on under the origin it was posted with. *)
LEMMA NotifiedKeeps ==
  ASSUME CoverInv, NEW n \in notes, NEW step \in {"accepted", "mounted", "drawn"}, Notified(n, step)
  PROVE  CoverInv'
<1>. DEFINE m == [n EXCEPT !.step = step]
<1>1. n \in Notes /\ n.data \subseteq n.origin
  BY DEF CoverInv, PublicationTypeOK, OriginsCover
<1>2. m \in Notes /\ m.data \subseteq m.origin
  BY <1>1 DEF Notes
<1>3. notes' = (notes \ {n}) \cup {m}
  BY DEF Notified, Moved
<1>. HIDE DEF m
<1>4. PublicationTypeOK'
  BY <1>2, <1>3 DEF Notified, CoverInv, PublicationTypeOK
<1>5. OriginsCover'
  BY <1>2, <1>3 DEF Notified, CoverInv, OriginsCover
<1>. QED BY <1>4, <1>5 DEF CoverInv

(* Every step of the console and of the verifying thread keeps it. *)
LEMMA BoundaryStepKeeps ==
  ASSUME CoverInv, [PublicationNext]_publicationVars
  PROVE  CoverInv'
<1>. USE DEF CoverInv
<1>1. CASE SignInChanges
  <2>1. revision' \in Revisions
    BY <1>1, PublicationAssumption DEF SignInChanges, PublicationTypeOK, Revisions
  <2>2. app' \in [revision : Revisions, told : BOOLEAN]
    BY <1>1 DEF SignInChanges, Verified, PublicationTypeOK
  <2>3. PublicationTypeOK'
    BY <1>1, <2>1, <2>2 DEF SignInChanges, PublicationTypeOK
  <2>4. OriginsCover'
    BY <1>1 DEF SignInChanges, OriginsCover
  <2>. QED BY <2>3, <2>4
<1>2. CASE SynchronizePrincipal
  <2>1. CASE app.revision # revision
    <3>1. ClearExcept({})
      BY <1>2, <2>1 DEF SynchronizePrincipal, Clear
    <3>2. Refuse
      BY <1>2, <3>1 DEF SynchronizePrincipal, Refuse, Clear
    <3>. QED BY <1>2, <3>2, RefuseKeeps DEF SynchronizePrincipal
  <2>2. CASE app.revision = revision
    BY <1>2, <2>2 DEF SynchronizePrincipal, PublicationTypeOK, OriginsCover
  <2>. QED BY <2>1, <2>2
<1>3. ASSUME NEW w \in Widgets, Read(w) PROVE CoverInv'
  <2>1. revision \in Revisions /\ {revision} \subseteq Revisions
    BY DEF PublicationTypeOK
  <2>2. reads' \in 0..MaxReads
    BY <1>3, PublicationAssumption DEF Read, PublicationTypeOK
  <2>3. CASE /\ UNCHANGED notes
             /\ \E step \in {"sync", "async"} :
                   work' = work \cup {[origin |-> {revision}, data |-> {revision}, to |-> w, step |-> step]}
    <3>1. PICK step \in {"sync", "async"} :
                   work' = work \cup {[origin |-> {revision}, data |-> {revision}, to |-> w, step |-> step]}
      BY <2>3
    <3>. DEFINE e == [origin |-> {revision}, data |-> {revision}, to |-> w, step |-> step]
    <3>2. e \in Work /\ e.data \subseteq e.origin
      BY <2>1 DEF Work
    <3>3. work' = work \cup {e}
      BY <3>1
    <3>. HIDE DEF e
    <3>. QED BY <1>3, <2>2, <2>3, <3>2, <3>3 DEF Read, PublicationTypeOK, OriginsCover
  <2>4. CASE notes' = notes \cup {[origin |-> {revision}, data |-> {revision}, step |-> "posted"]} /\ UNCHANGED work
    <3>. DEFINE n == [origin |-> {revision}, data |-> {revision}, step |-> "posted"]
    <3>1. n \in Notes /\ n.data \subseteq n.origin
      BY <2>1 DEF Notes
    <3>2. notes' = notes \cup {n}
      BY <2>4
    <3>. HIDE DEF n
    <3>. QED BY <1>3, <2>2, <2>4, <3>1, <3>2 DEF Read, PublicationTypeOK, OriginsCover
  <2>. QED BY <1>3, <2>3, <2>4 DEF Read
<1>4. ASSUME NEW w \in Widgets, Type(w) PROVE CoverInv'
  <2>1. CASE Admits(InputOrigin(w))
    <3>1. widget[w] \in [data : SUBSET Revisions, origin : SUBSET Revisions, content : SUBSET Revisions]
      BY DEF PublicationTypeOK
    <3>2. InputOrigin(w) \in SUBSET Revisions
      BY <3>1 DEF InputOrigin, PublicationTypeOK
    <3>3. PublicationTypeOK'
      BY <1>4, <2>1, <3>2 DEF Type, PublicationTypeOK
    <3>4. OriginsCover'
      BY <1>4, <2>1, <3>1 DEF Type, PublicationTypeOK, OriginsCover, InputOrigin
    <3>. QED BY <3>3, <3>4
  <2>2. CASE ~Admits(InputOrigin(w))
    BY <1>4, <2>2, RefuseKeeps DEF Type
  <2>. QED BY <2>1, <2>2
<1>5. ASSUME NEW w \in Widgets, Copy(w) PROVE CoverInv'
  <2>1. CASE Admits(InputOrigin(w))
    BY <1>5, <2>1 DEF Copy, PublicationTypeOK, OriginsCover
  <2>2. CASE ~Admits(InputOrigin(w))
    BY <1>5, <2>2, RefuseKeeps DEF Copy
  <2>. QED BY <2>1, <2>2
<1>6. ASSUME NEW w \in Widgets, Draw(w) PROVE CoverInv'
  BY <1>6 DEF Draw, PublicationTypeOK, OriginsCover
<1>7. ASSUME NEW w \in Widgets, NEW v \in Widgets, Derive(w, v) PROVE CoverInv'
  <2>. DEFINE e == [origin |-> RetainedOrigin(w), data |-> widget[w].data, to |-> v, step |-> "async"]
  <2>1. widget[w] \in [data : SUBSET Revisions, origin : SUBSET Revisions, content : SUBSET Revisions]
    BY DEF PublicationTypeOK
  <2>2. e \in Work /\ e.data \subseteq e.origin
    BY <2>1 DEF RetainedOrigin, OriginsCover, Work
  <2>3. work' = work \cup {e}
    BY <1>7 DEF Derive
  <2>. HIDE DEF e
  <2>. QED BY <1>7, <2>2, <2>3 DEF Derive, PublicationTypeOK, OriginsCover
<1>8. ASSUME NEW d \in work, Callback(d) PROVE CoverInv'
  <2>1. CASE Run(d)
    BY <2>1, SinkKeeps, RefuseKeeps DEF Run
  <2>2. CASE Sink(d)
    BY <2>2, SinkKeeps, RefuseKeeps DEF Sink
  <2>3. CASE Start(d)
    <3>1. CASE Admits(d.origin)
      <4>. DEFINE e == [d EXCEPT !.step = "running"]
      <4>1. d \in Work /\ d.data \subseteq d.origin
        BY DEF PublicationTypeOK, OriginsCover
      <4>2. e \in Work /\ e.data \subseteq e.origin
        BY <4>1 DEF Work
      <4>3. work' = (work \ {d}) \cup {e}
        BY <2>3, <3>1 DEF Start
      <4>. HIDE DEF e
      <4>. QED BY <2>3, <3>1, <4>2, <4>3 DEF Start, PublicationTypeOK, OriginsCover
    <3>2. CASE ~Admits(d.origin)
      BY <2>3, <3>2, RefuseKeeps DEF Start
    <3>. QED BY <3>1, <3>2
  <2>. QED BY <1>8, <2>1, <2>2, <2>3 DEF Callback
<1>9. ASSUME NEW n \in notes, Notification(n) PROVE CoverInv'
  <2>1. Notified(n, "accepted") \/ Notified(n, "mounted") \/ Notified(n, "drawn") \/ Dropped(n)
    BY <1>9 DEF Notification, Accept, Deliver, DrawToast
  <2>. QED BY <2>1, NotifiedKeeps, DroppedKeeps
<1>10. ASSUME NEW n \in notes, Timeout(n) PROVE CoverInv'
  BY <1>10 DEF Timeout, PublicationTypeOK, OriginsCover
<1>11. CASE UNCHANGED publicationVars
  BY <1>11 DEF publicationVars, PublicationTypeOK, OriginsCover
<1>. QED BY <1>1, <1>2, <1>3, <1>4, <1>5, <1>6, <1>7, <1>8, <1>9, <1>10, <1>11 DEF PublicationNext

(* What a widget holds was read for the sign-in the console knows, or the  *)
(* console has been told of another one and is going to be cleared.        *)
ScreenFollows ==
    /\ app.revision <= revision
    /\ app.revision # revision => app.told
    /\ app.revision = revision => \A w \in Widgets : widget[w].data \subseteq {revision}

PublicationInv == CoverInv /\ ScreenFollows

LEMMA InitFollows == PublicationInit => ScreenFollows
  BY DEF PublicationInit, ScreenFollows, Blank

(* A cleared console knows the sign-in that is verified and holds nothing. *)
LEMMA ClearedFollows ==
  ASSUME CoverInv, NEW messages, ClearExcept(messages), UNCHANGED revision
  PROVE  ScreenFollows'
<1>1. \A w \in Widgets : widget'[w] = Blank
  BY BoundaryClearKeeps
<1>2. app'.revision = revision /\ revision \in Int
  BY PublicationAssumption DEF ClearExcept, CoverInv, PublicationTypeOK, Revisions
<1>. QED BY <1>1, <1>2 DEF ScreenFollows, Blank

LEMMA RefusedFollows ==
  ASSUME CoverInv, Refuse
  PROVE  ScreenFollows'
  BY ClearedFollows DEF Refuse, Clear

(* A write that is admitted leaves data of the sign-in that is verified.   *)
LEMMA WrittenFollows ==
  ASSUME CoverInv, ScreenFollows, NEW d \in work, Admits(d.origin), Write(d)
  PROVE  ScreenFollows'
<1>1. d \in Work /\ d.data \subseteq {revision}
  BY DEF CoverInv, PublicationTypeOK, OriginsCover, Admits
<1>2. \A w \in Widgets : widget'[w].data = IF w = d.to THEN d.data ELSE widget[w].data
  BY <1>1 DEF Write, WidgetSink, CoverInv, PublicationTypeOK, Work
<1>. QED BY <1>1, <1>2 DEF Write, ScreenFollows

LEMMA UntouchedFollows ==
  ASSUME ScreenFollows, UNCHANGED <<revision, app>>, \A w \in Widgets : widget'[w].data = widget[w].data
  PROVE  ScreenFollows'
  BY DEF ScreenFollows

LEMMA FollowStepKeeps ==
  ASSUME CoverInv, ScreenFollows, [PublicationNext]_publicationVars
  PROVE  ScreenFollows'
<1>1. CASE SignInChanges
  <2>1. app.revision <= revision /\ revision \in Int /\ app.revision \in Int
    BY DEF ScreenFollows, CoverInv, PublicationTypeOK, Revisions
  <2>2. revision' = revision + 1 /\ app'.told /\ app'.revision = app.revision
    BY <1>1 DEF SignInChanges, Verified, CoverInv, PublicationTypeOK
  <2>. QED BY <2>1, <2>2 DEF ScreenFollows
<1>2. CASE SynchronizePrincipal
  <2>1. CASE app.revision # revision
    BY <1>2, <2>1, ClearedFollows DEF SynchronizePrincipal, Clear
  <2>2. CASE app.revision = revision
    <3>1. app'.revision = app.revision /\ UNCHANGED <<revision, widget>>
      BY <1>2, <2>2 DEF SynchronizePrincipal, CoverInv, PublicationTypeOK
    <3>. QED BY <2>2, <3>1 DEF ScreenFollows
  <2>. QED BY <2>1, <2>2
<1>3. CASE UNCHANGED <<revision, app, widget>>
  BY <1>3, UntouchedFollows
<1>4. ASSUME NEW w \in Widgets, Type(w) PROVE ScreenFollows'
  <2>1. CASE Admits(InputOrigin(w))
    <3>1. \A v \in Widgets : widget'[v].data = widget[v].data
      BY <1>4, <2>1 DEF Type, CoverInv, PublicationTypeOK
    <3>. QED BY <1>4, <2>1, <3>1, UntouchedFollows DEF Type
  <2>2. CASE Refuse
    BY <2>2, RefusedFollows
  <2>. QED BY <1>4, <2>1, <2>2 DEF Type
<1>5. ASSUME NEW w \in Widgets, Copy(w) PROVE ScreenFollows'
  BY <1>3, <1>5, RefusedFollows DEF Copy
<1>6. ASSUME NEW d \in work, Callback(d) PROVE ScreenFollows'
  <2>1. CASE Admits(d.origin) /\ Write(d)
    BY <2>1, WrittenFollows
  <2>. QED BY <1>3, <1>6, <2>1, RefusedFollows DEF Callback, Run, Start, Sink, SinkAdmits
<1>7. ASSUME NEW n \in notes, Notification(n) PROVE ScreenFollows'
  <2>1. CASE Dropped(n)
    BY <2>1, ClearedFollows DEF Dropped
  <2>. QED BY <1>3, <1>7, <2>1 DEF Notification, Accept, Deliver, DrawToast, Notified
<1>8. CASE \/ \E w \in Widgets : Read(w) \/ Draw(w) \/ \E v \in Widgets : Derive(w, v)
           \/ \E n \in notes : Timeout(n)
           \/ UNCHANGED publicationVars
  BY <1>3, <1>8 DEF Read, Draw, Derive, Timeout, publicationVars
<1>. QED BY <1>1, <1>2, <1>4, <1>5, <1>6, <1>7, <1>8 DEF PublicationNext

(* The origins cover the data, and what the widgets hold is current or     *)
(* about to be cleared, in every state of every console.                   *)
THEOREM PublicationInvariant == PublicationSpec => []PublicationInv
<1>1. PublicationInit => PublicationInv
  BY InitPublication, InitFollows DEF PublicationInv
<1>2. PublicationInv /\ [PublicationNext]_publicationVars => PublicationInv'
  BY BoundaryStepKeeps, FollowStepKeeps DEF PublicationInv
<1>. QED BY <1>1, <1>2, PTL DEF PublicationSpec

(* A cleared console shows no data in any widget and announces nothing.    *)
LEMMA ClearedIsCurrent ==
  ASSUME CoverInv, NEW messages, ClearExcept(messages), UNCHANGED <<shown, clipboard>>
  PROVE  CurrentComesUp
  BY BoundaryClearKeeps DEF CurrentComesUp, Blank

(* A write that the sink admits brings up data of the current sign-in.     *)
LEMMA AdmittedWriteIsCurrent ==
  ASSUME CoverInv, NEW d \in work, Admits(d.origin), Write(d)
  PROVE  CurrentComesUp
<1>1. d \in Work /\ d.data \subseteq {revision}
  BY DEF CoverInv, PublicationTypeOK, OriginsCover, Admits
<1>2. \A w \in Widgets : widget'[w].data = IF w = d.to THEN d.data ELSE widget[w].data
  BY <1>1 DEF Write, WidgetSink, CoverInv, PublicationTypeOK, Work
<1>. QED BY <1>1, <1>2 DEF Write, CurrentComesUp

(* A notification that moves on is drawn under an origin that admits it.   *)
LEMMA NotificationIsCurrent ==
  ASSUME CoverInv, NEW n \in notes, Notification(n)
  PROVE  CurrentComesUp
<1>1. CASE Dropped(n)
  BY <1>1, ClearedIsCurrent DEF Dropped
<1>2. CASE Notified(n, "accepted") \/ Notified(n, "mounted")
  <2>1. n \in Notes
    BY DEF CoverInv, PublicationTypeOK
  <2>2. \A m \in notes' \ notes : m.step # "drawn"
    BY <1>2, <2>1 DEF Notified, Moved, Notes
  <2>. QED BY <1>2, <2>2 DEF Notified, CurrentComesUp
<1>3. CASE Admits(n.origin) /\ Notified(n, "drawn")
  <2>1. n \in Notes /\ n.data \subseteq {revision}
    BY <1>3 DEF CoverInv, PublicationTypeOK, OriginsCover, Admits
  <2>2. \A m \in notes' \ notes : m.data \subseteq {revision}
    BY <1>3, <2>1 DEF Notified, Moved, Notes
  <2>. QED BY <1>3, <2>2 DEF Notified, CurrentComesUp
<1>. QED BY <1>1, <1>2, <1>3 DEF Notification, Accept, Deliver, DrawToast

(* No step of the console brings up what was read for another sign-in.     *)
LEMMA StepIsCurrent ==
  ASSUME CoverInv, ScreenFollows, [PublicationNext]_publicationVars
  PROVE  [CurrentComesUp]_publicationVars
<1>1. CASE SignInChanges
  BY <1>1 DEF SignInChanges, CurrentComesUp
<1>2. CASE SynchronizePrincipal
  BY <1>2, ClearedIsCurrent DEF SynchronizePrincipal, Clear, CurrentComesUp
<1>3. ASSUME NEW w \in Widgets, Read(w) PROVE CurrentComesUp
  BY <1>3 DEF Read, CurrentComesUp
<1>4. ASSUME NEW w \in Widgets, Type(w) PROVE CurrentComesUp
  <2>1. CASE Admits(InputOrigin(w))
    <3>1. \A v \in Widgets : widget'[v].data = widget[v].data
      BY <1>4, <2>1 DEF Type, CoverInv, PublicationTypeOK
    <3>. QED BY <1>4, <2>1, <3>1 DEF Type, CurrentComesUp
  <2>2. CASE Refuse
    BY <2>2, ClearedIsCurrent DEF Refuse, Clear
  <2>. QED BY <1>4, <2>1, <2>2 DEF Type
<1>5. ASSUME NEW w \in Widgets, Copy(w) PROVE CurrentComesUp
  <2>1. CASE Admits(InputOrigin(w))
    <3>1. widget[w].data \subseteq {revision}
      BY <2>1 DEF Admits, InputOrigin, CoverInv, OriginsCover
    <3>. QED BY <1>5, <2>1, <3>1 DEF Copy, CurrentComesUp
  <2>2. CASE Refuse
    BY <2>2, ClearedIsCurrent DEF Refuse, Clear
  <2>. QED BY <1>5, <2>1, <2>2 DEF Copy
<1>6. ASSUME NEW w \in Widgets, Draw(w) PROVE CurrentComesUp
  <2>1. Admits(widget[w].origin) => widget[w].data \subseteq {revision}
    BY DEF Admits, CoverInv, OriginsCover
  <2>2. widget[w].data \subseteq {revision} \/ app.told
    BY DEF ScreenFollows
  <2>3. ASSUME NEW v \in Widgets, shown'[v] # shown[v]
        PROVE  shown'[v] \subseteq {revision} \/ (v \notin Natives /\ app.told)
    <3>1. v = w /\ shown'[v] = IF w \in Natives /\ ~Admits(widget[w].origin) THEN {} ELSE widget[w].data
      BY <1>6, <2>3 DEF Draw, CoverInv, PublicationTypeOK
    <3>. QED BY <2>1, <2>2, <3>1
  <2>. QED BY <1>6, <2>3 DEF Draw, CurrentComesUp
<1>7. ASSUME NEW w \in Widgets, NEW v \in Widgets, Derive(w, v) PROVE CurrentComesUp
  BY <1>7 DEF Derive, CurrentComesUp
<1>8. ASSUME NEW d \in work, Callback(d) PROVE CurrentComesUp
  <2>1. CASE Refuse
    BY <2>1, ClearedIsCurrent DEF Refuse, Clear
  <2>2. CASE Admits(d.origin) /\ Write(d)
    BY <2>2, AdmittedWriteIsCurrent
  <2>3. CASE Start(d) /\ UNCHANGED <<widget, notes, shown, clipboard>>
    BY <2>3 DEF CurrentComesUp
  <2>. QED BY <1>8, <2>1, <2>2, <2>3 DEF Callback, Run, Start, Sink, SinkAdmits
<1>9. ASSUME NEW n \in notes, Notification(n) PROVE CurrentComesUp
  BY <1>9, NotificationIsCurrent
<1>10. ASSUME NEW n \in notes, Timeout(n) PROVE CurrentComesUp
  BY <1>10 DEF Timeout, CurrentComesUp
<1>. QED BY <1>1, <1>2, <1>3, <1>4, <1>5, <1>6, <1>7, <1>8, <1>9, <1>10 DEF PublicationNext

(* OnlyCurrentComesUp, for any widgets, sign-ins and reads: every guard    *)
(* that is asked stands over data read for no other sign-in, and where the *)
(* console draws without asking, the data is current or about to go.       *)
THEOREM CurrentOnly == PublicationSpec => OnlyCurrentComesUp
<1>1. PublicationInv /\ [PublicationNext]_publicationVars => [CurrentComesUp]_publicationVars
  BY StepIsCurrent DEF PublicationInv
<1>. QED BY <1>1, PublicationInvariant, PTL DEF PublicationSpec, OnlyCurrentComesUp

-----------------------------------------------------------------------------
(* The file of the profile (ProfileFile), for any consoles, configure runs,*)
(* contents and crashes: the checks under the file lock are what keeps a   *)
(* process from overwriting bytes it has not seen.                         *)
(* The steps of profile_lock's body. *)
Inside == {"locked", "backup", "recheck", "replace", "verifying", "written", "restoring", "restore"}

(* Only the holder of the lock is inside; and about to write it stands     *)
(* before the bytes it checked, unless an editor has saved since.          *)
LockGuards ==
    \A p \in Processes :
        /\ proc[p].step \in Inside => lock = p
        /\ At(p, "replace") /\ p \notin late => file = proc[p].before
        /\ At(p, "restore") /\ p \notin late => file = proc[p].want

ProfileInv == ProfileTypeOK /\ LockGuards

Plans == [step : Steps, want : Contents \cup {Missing}, before : Contents \cup {Missing},
          backup : Contents \cup {Missing}]

(* Nobody is inside at first. *)
LEMMA InitProfile == ProfileInit => ProfileInv
  BY ProfileAssumption DEF ProfileInit, ProfileInv, ProfileTypeOK, LockGuards, NoPlan, Steps, Inside, At

(* A process that only moves on, with file and lock as they are.           *)
LEMMA MoveKeeps ==
  ASSUME ProfileInv, NEW p \in Processes, NEW plan \in Plans,
         proc' = [proc EXCEPT ![p] = plan], UNCHANGED <<file, edits, crashes, author>>,
         late' \subseteq late, backups' \subseteq Contents,
         late \ late' \subseteq {p},
         \/ lock' = lock /\ (plan.step \in Inside => lock = p)
         \/ lock' = Nobody /\ plan.step \notin Inside /\ lock \in {p, Nobody}
         \/ lock' = p /\ lock = Nobody,
         plan.step = "replace" => file = plan.before,
         plan.step = "restore" => file = plan.want
  PROVE  ProfileInv'
<1>1. ProfileTypeOK'
  BY DEF ProfileInv, ProfileTypeOK, Plans
<1>2. proc'[p] = plan /\ \A q \in Processes \ {p} : proc'[q] = proc[q]
  BY DEF ProfileInv, ProfileTypeOK
<1>3. LockGuards'
  <2>. SUFFICES ASSUME NEW q \in Processes
                PROVE  /\ proc'[q].step \in Inside => lock' = q
                       /\ proc'[q].step = "replace" /\ q \notin late' => file' = proc'[q].before
                       /\ proc'[q].step = "restore" /\ q \notin late' => file' = proc'[q].want
    BY DEF LockGuards, At
  <2>1. CASE q = p
    BY <1>2, <2>1 DEF Plans
  <2>2. CASE q # p
    <3>1. proc'[q] = proc[q] /\ (q \in late' <=> q \in late)
      BY <1>2, <2>2
    <3>2. proc[q].step \in Inside => lock' = q
      BY <2>2, ProfileAssumption DEF ProfileInv, LockGuards
    <3>. QED BY <3>1, <3>2 DEF ProfileInv, LockGuards, At
  <2>. QED BY <2>1, <2>2
<1>. QED BY <1>1, <1>3 DEF ProfileInv

(* The plan under way. *)
LEMMA PlanOf ==
  ASSUME ProfileInv, NEW p \in Processes
  PROVE  /\ proc[p] \in Plans
         /\ proc[p].want \in Contents \cup {Missing} /\ proc[p].backup \in Contents \cup {Missing}
  BY DEF ProfileInv, ProfileTypeOK, Plans

(* The plans a step leaves behind. *)
LEMMA PlanTypes ==
  ASSUME ProfileInv, NEW p \in Processes, NEW step \in Steps
  PROVE  /\ proc[p] \in Plans
         /\ [proc[p] EXCEPT !.step = step] \in Plans
         /\ [NoPlan EXCEPT !.step = step] \in Plans
         /\ Goes(p, step) <=> proc' = [proc EXCEPT ![p] = [proc[p] EXCEPT !.step = step]]
  BY DEF ProfileInv, ProfileTypeOK, Plans, NoPlan, Steps, Goes

(* A process moves on within the lock, or outside of it.                   *)
LEMMA GoesKeeps ==
  ASSUME ProfileInv, NEW p \in Processes, NEW step \in Steps, Goes(p, step),
         UNCHANGED <<file, backups, lock, edits, crashes, author>>,
         late' = late \/ late' = late \ {p},
         step \in Inside => lock = p,
         step = "replace" => file = proc[p].before,
         step = "restore" => file = proc[p].want
  PROVE  ProfileInv'
<1>. DEFINE plan == [proc[p] EXCEPT !.step = step]
<1>1. plan \in Plans /\ proc' = [proc EXCEPT ![p] = plan]
  BY PlanTypes
<1>2. plan.step = step /\ plan.before = proc[p].before /\ plan.want = proc[p].want
  BY PlanTypes DEF Plans
<1>3. backups' \subseteq Contents /\ late' \subseteq late /\ late \ late' \subseteq {p}
  BY DEF ProfileInv, ProfileTypeOK
<1>. HIDE DEF plan
<1>. QED BY <1>1, <1>2, <1>3, MoveKeeps

(* A change that is over lets go of the lock, if it held it.               *)
LEMMA EndsKeeps ==
  ASSUME ProfileInv, NEW p \in Processes, NEW step \in Steps \ Inside, Leaves(p, step),
         UNCHANGED <<file, backups, edits, crashes, author>>,
         late' = late \/ late' = late \ {p},
         lock' = lock \/ (lock = p /\ lock' = Nobody)
  PROVE  ProfileInv'
<1>. DEFINE plan == [NoPlan EXCEPT !.step = step]
<1>1. plan \in Plans /\ proc' = [proc EXCEPT ![p] = plan]
  BY PlanTypes DEF Leaves
<1>2. plan.step = step /\ step # "replace" /\ step # "restore"
  BY DEF NoPlan, Inside
<1>3. backups' \subseteq Contents /\ late' \subseteq late /\ late \ late' \subseteq {p}
  BY DEF ProfileInv, ProfileTypeOK
<1>. HIDE DEF plan
<1>. QED BY <1>1, <1>2, <1>3, MoveKeeps

(* The holder replaces the file and moves on or leaves. *)
LEMMA WriteKeeps ==
  ASSUME ProfileInv, NEW p \in Processes, lock = p, NEW plan \in Plans,
         proc' = [proc EXCEPT ![p] = plan], plan.step \notin {"replace", "restore"},
         file' \in Contents \cup {Missing}, author' = p,
         UNCHANGED <<backups, edits, crashes, late>>,
         lock' = p \/ (lock' = Nobody /\ plan.step \notin Inside)
  PROVE  ProfileInv'
<1>1. ProfileTypeOK'
  BY DEF ProfileInv, ProfileTypeOK, Plans
<1>2. proc'[p] = plan /\ \A q \in Processes \ {p} : proc'[q] = proc[q]
  BY DEF ProfileInv, ProfileTypeOK
<1>3. \A q \in Processes \ {p} : proc[q].step \notin Inside
  BY DEF ProfileInv, LockGuards
<1>4. LockGuards'
  BY <1>2, <1>3 DEF LockGuards, At, Inside
<1>. QED BY <1>1, <1>4 DEF ProfileInv

(* A preview starts a plan over. *)
LEMMA PreviewKeeps ==
  ASSUME ProfileInv, NEW p \in Processes, Preview(p)
  PROVE  ProfileInv'
<1>1. PICK want \in Contents :
         proc' = [proc EXCEPT ![p] = [step |-> "previewed", want |-> want, before |-> file, backup |-> Missing]]
  BY DEF Preview
<1>. DEFINE plan == [step |-> "previewed", want |-> want, before |-> file, backup |-> Missing]
<1>2. plan \in Plans /\ plan.step = "previewed" /\ "previewed" \notin Inside
  BY DEF ProfileInv, ProfileTypeOK, Plans, Steps, Inside
<1>3. proc' = [proc EXCEPT ![p] = plan]
  BY <1>1
<1>4. /\ backups' \subseteq Contents /\ late' \subseteq late /\ late \ late' \subseteq {p}
      /\ UNCHANGED <<file, lock, edits, crashes, author>>
  BY DEF Preview, Looks, ProfileInv, ProfileTypeOK
<1>. HIDE DEF plan
<1>. QED BY <1>2, <1>3, <1>4, MoveKeeps

(* Before the file is replaced: each check ends the change or moves it on. *)
LEMMA ChecksKeep ==
  ASSUME ProfileInv, NEW p \in Processes,
         Compare(p) \/ Lock(p) \/ Check(p) \/ Backup(p) \/ Recheck(p)
  PROVE  ProfileInv'
<1>0. /\ {"comparing", "refused", "locked", "backup", "recheck", "replace"} \subseteq Steps
      /\ "comparing" \notin Inside /\ "refused" \notin Inside
      /\ {"locked", "backup", "recheck", "replace"} \subseteq Inside
  BY DEF Steps, Inside
<1>1. CASE Compare(p)
  BY <1>0, <1>1, GoesKeeps, EndsKeeps DEF Compare, Looks
<1>2. CASE Lock(p)
  <2>1. CASE Free(p)
    <3>. DEFINE plan == [proc[p] EXCEPT !.step = "locked"]
    <3>1. plan \in Plans /\ proc' = [proc EXCEPT ![p] = plan] /\ plan.step = "locked"
      BY <1>0, <1>2, <2>1, PlanTypes DEF Lock, Plans
    <3>2. backups' \subseteq Contents /\ late' \subseteq late /\ late \ late' \subseteq {p}
      BY <1>2 DEF Lock, ProfileInv, ProfileTypeOK
    <3>. HIDE DEF plan
    <3>. QED BY <1>2, <2>1, <3>1, <3>2, MoveKeeps DEF Lock, Free
  <2>2. CASE ~Free(p)
    BY <1>0, <1>2, <2>2, EndsKeeps DEF Lock
  <2>. QED BY <2>1, <2>2
<1>3. CASE Check(p)
  <2>1. lock = p
    BY <1>0, <1>3 DEF Check, At, ProfileInv, LockGuards
  <2>. QED BY <1>0, <1>3, <2>1, GoesKeeps, EndsKeeps DEF Check, Refuses, Looks
<1>4. CASE Backup(p)
  <2>1. lock = p
    BY <1>0, <1>4 DEF Backup, At, ProfileInv, LockGuards
  <2>2. CASE BacksUp
    <3>. DEFINE plan == [proc[p] EXCEPT !.step = "recheck", !.backup = file]
    <3>1. plan \in Plans /\ plan.step = "recheck"
      BY <1>0, PlanTypes DEF ProfileInv, ProfileTypeOK, Plans
    <3>2. proc' = [proc EXCEPT ![p] = plan]
      BY <1>4, <2>2 DEF Backup, Copied, ProfileInv, ProfileTypeOK
    <3>3. backups' \subseteq Contents /\ late' \subseteq late /\ late \ late' \subseteq {p}
      BY <1>4, <2>2 DEF Backup, BacksUp, Copied, ProfileInv, ProfileTypeOK
    <3>. HIDE DEF plan
    <3>. QED BY <1>4, <2>1, <3>1, <3>2, <3>3, MoveKeeps DEF Backup
  <2>3. CASE ~BacksUp
    <3>1. Goes(p, "recheck") /\ UNCHANGED <<file, backups, lock, edits, crashes, author, late>>
      BY <1>4, <2>3 DEF Backup
    <3>. QED BY <1>0, <2>1, <3>1, GoesKeeps
  <2>. QED BY <2>2, <2>3
<1>5. CASE Recheck(p)
  <2>1. lock = p
    BY <1>0, <1>5 DEF Recheck, At, ProfileInv, LockGuards
  <2>. QED BY <1>0, <1>5, <2>1, GoesKeeps, EndsKeeps DEF Recheck, Reviewed, Refuses, Looks
<1>. QED BY <1>1, <1>2, <1>3, <1>4, <1>5

(* After it is replaced: the connection is verified and stands, or the old *)
(* bytes return.                                                           *)
LEMMA TransactionKeeps ==
  ASSUME ProfileInv, NEW p \in Processes,
         Replace(p) \/ WhoamiSucceeds(p) \/ WhoamiFails(p) \/ Adopt(p) \/ CheckOwn(p) \/ Restore(p)
  PROVE  ProfileInv'
<1>0. /\ {"verifying", "written", "restoring", "restore", "saved", "failed", "manual"} \subseteq Steps
      /\ "saved" \notin Inside /\ "failed" \notin Inside /\ "manual" \notin Inside
      /\ {"replace", "verifying", "written", "restoring", "restore"} \subseteq Inside
  BY DEF Steps, Inside
<1>1. lock = p
  BY <1>0 DEF Replace, WhoamiSucceeds, WhoamiFails, Adopt, CheckOwn, Restore, At, ProfileInv, LockGuards
<1>2. CASE Replace(p)
  <2>1. file' \in Contents \cup {Missing}
    BY <1>2, PlanOf DEF Replace
  <2>2. CASE p \in Consoles
    <3>. DEFINE plan == [proc[p] EXCEPT !.step = "verifying"]
    <3>1. plan \in Plans /\ proc' = [proc EXCEPT ![p] = plan] /\ plan.step = "verifying"
      BY <1>0, <1>2, <2>2, PlanTypes DEF Replace, Plans
    <3>. HIDE DEF plan
    <3>. QED BY <1>1, <1>2, <2>1, <2>2, <3>1, WriteKeeps DEF Replace
  <2>3. CASE p \notin Consoles
    <3>. DEFINE plan == [NoPlan EXCEPT !.step = "saved"]
    <3>1. plan \in Plans
      BY <1>0, PlanTypes
    <3>2. proc' = [proc EXCEPT ![p] = plan]
      BY <1>2, <2>3 DEF Replace, Leaves
    <3>3. plan.step = "saved"
      BY DEF NoPlan
    <3>. HIDE DEF plan
    <3>. QED BY <1>0, <1>1, <1>2, <2>1, <2>3, <3>1, <3>2, <3>3, WriteKeeps DEF Replace
  <2>. QED BY <2>2, <2>3
<1>3. CASE WhoamiSucceeds(p)
  BY <1>0, <1>1, <1>3, GoesKeeps DEF WhoamiSucceeds
<1>4. CASE WhoamiFails(p)
  BY <1>0, <1>1, <1>4, GoesKeeps DEF WhoamiFails
<1>5. CASE Adopt(p)
  BY <1>0, <1>1, <1>5, GoesKeeps, EndsKeeps DEF Adopt, Looks
<1>6. CASE CheckOwn(p)
  BY <1>0, <1>1, <1>6, GoesKeeps, EndsKeeps DEF CheckOwn, Own, Looks
<1>7. CASE Restore(p)
  <2>1. CASE file' = Old(p) /\ author' = p /\ Leaves(p, "failed")
    <3>. DEFINE plan == [NoPlan EXCEPT !.step = "failed"]
    <3>1. plan \in Plans /\ proc' = [proc EXCEPT ![p] = plan]
      BY <1>0, <2>1, PlanTypes DEF Leaves
    <3>3. plan.step = "failed"
      BY DEF NoPlan
    <3>2. file' \in Contents \cup {Missing}
      BY <2>1, PlanOf DEF Old
    <3>. HIDE DEF plan
    <3>. QED BY <1>0, <1>1, <1>7, <2>1, <3>1, <3>2, <3>3, WriteKeeps DEF Restore
  <2>2. CASE Goes(p, "manual") /\ UNCHANGED <<file, author>>
    <3>. DEFINE plan == [proc[p] EXCEPT !.step = "manual"]
    <3>1. plan \in Plans /\ proc' = [proc EXCEPT ![p] = plan] /\ plan.step = "manual"
      BY <1>0, <2>2, PlanTypes DEF Plans
    <3>2. backups' \subseteq Contents /\ late' \subseteq late /\ late \ late' \subseteq {p}
      BY <1>7 DEF Restore, ProfileInv, ProfileTypeOK
    <3>. HIDE DEF plan
    <3>. QED BY <1>0, <1>1, <1>7, <2>2, <3>1, <3>2, MoveKeeps DEF Restore
  <2>. QED BY <1>7, <2>1, <2>2 DEF Restore
<1>. QED BY <1>2, <1>3, <1>4, <1>5, <1>6, <1>7

(* The editor makes everyone late; a process that dies frees its lock.     *)
LEMMA OutsideKeeps ==
  ASSUME ProfileInv, Edit \/ \E p \in Processes : Dies(p)
  PROVE  ProfileInv'
<1>1. CASE Edit
  <2>1. ProfileTypeOK'
    BY <1>1, ProfileAssumption DEF Edit, ProfileInv, ProfileTypeOK
  <2>2. LockGuards'
    BY <1>1 DEF Edit, ProfileInv, LockGuards, At
  <2>. QED BY <2>1, <2>2 DEF ProfileInv
<1>2. ASSUME NEW p \in Processes, Dies(p) PROVE ProfileInv'
  <2>1. crashes' \in 0..MaxCrashes
    BY <1>2, ProfileAssumption DEF Dies, ProfileInv, ProfileTypeOK
  <2>2. PICK plan \in Plans : proc' = [proc EXCEPT ![p] = plan] /\ plan.step \in {"crashed", "idle"}
    <3>1. CASE proc[p].step \in Written
      <4>1. [proc[p] EXCEPT !.step = "crashed"] \in Plans
        BY PlanOf DEF Plans, Steps
      <4>2. proc' = [proc EXCEPT ![p] = [proc[p] EXCEPT !.step = "crashed"]]
        BY <1>2, <3>1 DEF Dies, Goes
      <4>3. [proc[p] EXCEPT !.step = "crashed"].step = "crashed"
        BY PlanOf DEF Plans
      <4>. QED BY <4>1, <4>2, <4>3
    <3>2. CASE proc[p].step \notin Written
      BY <1>2, <3>2, PlanTypes DEF Dies, Leaves, NoPlan, Steps
    <3>. QED BY <3>1, <3>2
  <2>3. lock' = (IF lock = p THEN Nobody ELSE lock)
    BY <1>2 DEF Dies
  <2>4. ProfileTypeOK'
    BY <1>2, <2>1, <2>2, <2>3 DEF Dies, ProfileInv, ProfileTypeOK, Plans
  <2>5. proc'[p] = plan /\ \A q \in Processes \ {p} : proc'[q] = proc[q]
    BY <2>2 DEF ProfileInv, ProfileTypeOK
  <2>6. LockGuards'
    BY <1>2, <2>2, <2>3, <2>5 DEF Dies, ProfileInv, LockGuards, At, Inside
  <2>. QED BY <2>4, <2>6 DEF ProfileInv
<1>. QED BY <1>1, <1>2

(* Every step of every process and of the editor keeps it. *)
LEMMA StepKeepsProfile ==
  ASSUME ProfileInv, [ProfileNext]_profileVars
  PROVE  ProfileInv'
<1>1. CASE UNCHANGED profileVars
  BY <1>1 DEF profileVars, ProfileInv, ProfileTypeOK, LockGuards, At
<1>. QED BY <1>1, PreviewKeeps, ChecksKeep, TransactionKeeps, OutsideKeeps DEF ProfileNext

(* The lock is held throughout, and what is about to be replaced is known. *)
THEOREM ProfileInvariant == ProfileSpec => []ProfileInv
  BY InitProfile, StepKeepsProfile, PTL DEF ProfileSpec

(* NewerKept, for any number of consoles, configure runs and crashes: the  *)
(* second comparison under the lock is the one that protects a newer file. *)
THEOREM NewerIsKept == ProfileSpec => NewerKept
<1>1. ASSUME ProfileInv, [ProfileNext]_profileVars PROVE [ReplacesKnown]_profileVars
  <2>1. ASSUME NEW p \in Processes, Replace(p) PROVE ReplacesKnown
    BY <1>1, <2>1 DEF Replace, At, ReplacesKnown, ProfileInv, LockGuards
  <2>2. ASSUME NEW p \in Processes, Restore(p) PROVE ReplacesKnown
    BY <1>1, <2>2 DEF Restore, At, ReplacesKnown, ProfileInv, LockGuards
  <2>3. CASE Edit
    BY <2>3, ProfileAssumption DEF Edit, ReplacesKnown
  <2>4. CASE UNCHANGED file
    BY <2>4 DEF ReplacesKnown
  <2>. QED BY <1>1, <2>1, <2>2, <2>3, <2>4
         DEF ProfileNext, Preview, Compare, Lock, Check, Backup, Recheck, WhoamiSucceeds, WhoamiFails, Adopt,
             CheckOwn, Dies
<1>. QED BY <1>1, ProfileInvariant, PTL DEF ProfileSpec, NewerKept
-----------------------------------------------------------------------------
Replaced == Written \cup {"replace", "manual", "crashed"}
(* Nothing is late before the first save of the editor.  From the first    *)
(* check to the second, with fewer than two such saves, being late is the  *)
(* same as facing other bytes; so what passes the second check was backed  *)
(* up as it was reviewed.                                                  *)
Backed(p) ==
    /\ proc[p].backup \in backups \cup {Missing}
    /\ proc[p].step \notin Replaced \cup {"recheck"} => proc[p].backup = Missing
    /\ edits < 2 /\ proc[p].step \in {"backup", "recheck"} => (p \in late <=> file # proc[p].before)
    /\ edits < 2 /\ (proc[p].step \in Replaced \/ (At(p, "recheck") /\ p \notin late))
          => proc[p].backup = proc[p].before

BackupHolds ==
    /\ edits = 0 => late = {}
    /\ \A p \in Processes : Backed(p)

(* What a process does leaves the plans of the others backed up: it adds   *)
(* to the backups, and only the holder of the lock replaces the file.      *)
LEMMA OneBacks ==
  ASSUME ProfileInv, BackupHolds, NEW p \in Processes, NEW plan \in Plans,
         proc' = [proc EXCEPT ![p] = plan], backups \subseteq backups', edits' = edits,
         late' = late \/ late' = late \ {p},
         file' = file \/ lock = p,
         Backed(p)'
  PROVE  BackupHolds'
<1>1. proc'[p] = plan /\ \A q \in Processes \ {p} : proc'[q] = proc[q]
  BY DEF ProfileInv, ProfileTypeOK
<1>2. ASSUME NEW q \in Processes \ {p} PROVE Backed(q)'
  <2>1. proc'[q] = proc[q] /\ (q \in late' <=> q \in late)
    BY <1>1
  <2>2. file' = file \/ proc[q].step \notin {"backup", "recheck"}
    BY DEF ProfileInv, LockGuards, Inside
  <2>. QED BY <2>1, <2>2 DEF BackupHolds, Backed, At
<1>. QED BY <1>2 DEF BackupHolds

(* The plan a step leaves to the process that takes it. *)
LEMMA GoesPlan ==
  ASSUME ProfileInv, NEW p \in Processes, NEW step \in Steps, Goes(p, step)
  PROVE  /\ \E plan \in Plans : proc' = [proc EXCEPT ![p] = plan]
         /\ proc'[p].step = step /\ proc'[p].before = proc[p].before /\ proc'[p].backup = proc[p].backup
<1>. DEFINE plan == [proc[p] EXCEPT !.step = step]
<1>1. plan \in Plans /\ proc' = [proc EXCEPT ![p] = plan]
  BY PlanTypes
<1>2. plan.step = step /\ plan.before = proc[p].before /\ plan.backup = proc[p].backup
  BY PlanTypes DEF Plans
<1>. HIDE DEF plan
<1>. QED BY <1>1, <1>2 DEF ProfileInv, ProfileTypeOK

LEMMA EndsPlan ==
  ASSUME ProfileInv, NEW p \in Processes, NEW step \in Steps, Leaves(p, step)
  PROVE  /\ \E plan \in Plans : proc' = [proc EXCEPT ![p] = plan]
         /\ proc'[p].step = step /\ proc'[p].before = Missing /\ proc'[p].backup = Missing
  BY PlanTypes DEF ProfileInv, ProfileTypeOK, Leaves, NoPlan

(* A change that is over has no plan.                                      *)
LEMMA EndsBacks ==
  ASSUME ProfileInv, BackupHolds, NEW p \in Processes, NEW step \in Steps, Leaves(p, step),
         step \notin {"backup", "recheck"},
         UNCHANGED <<backups, edits>>, late' = late \/ late' = late \ {p}, file' = file \/ lock = p
  PROVE  BackupHolds'
<1>1. Backed(p)'
  BY EndsPlan DEF Backed, At
<1>2. backups \subseteq backups'
  OBVIOUS
<1>. QED BY <1>1, <1>2, EndsPlan, OneBacks

(* A step within the transaction, or before it, keeps the backup.          *)
LEMMA GoesBacks ==
  ASSUME ProfileInv, BackupHolds, NEW p \in Processes, NEW step \in Steps, Goes(p, step),
         UNCHANGED <<backups, edits>>, late' = late \/ late' = late \ {p}, file' = file \/ lock = p,
         \/ step \in Replaced /\ proc[p].step \in Replaced
         \/ step \in {"comparing", "locked"} /\ proc[p].step \notin Replaced \cup {"recheck"}
  PROVE  BackupHolds'
<1>1. Backed(p)'
  BY GoesPlan DEF BackupHolds, Backed, At, Replaced, Written
<1>2. backups \subseteq backups'
  OBVIOUS
<1>. QED BY <1>1, <1>2, GoesPlan, OneBacks
(* Nobody has a plan at first. *)
LEMMA InitBacks == ProfileInit => BackupHolds
  BY DEF ProfileInit, NoPlan, BackupHolds, Backed, At, Replaced, Written

(* A preview starts without a backup. *)
LEMMA PreviewBacks ==
  ASSUME ProfileInv, BackupHolds, NEW p \in Processes, Preview(p)
  PROVE  BackupHolds'
<1>1. PICK want \in Contents :
         proc' = [proc EXCEPT ![p] = [step |-> "previewed", want |-> want, before |-> file, backup |-> Missing]]
  BY DEF Preview
<1>. DEFINE plan == [step |-> "previewed", want |-> want, before |-> file, backup |-> Missing]
<1>2. plan \in Plans
  BY DEF ProfileInv, ProfileTypeOK, Plans, Steps
<1>3. proc' = [proc EXCEPT ![p] = plan] /\ proc'[p].step = "previewed" /\ proc'[p].backup = Missing
  BY <1>1 DEF ProfileInv, ProfileTypeOK
<1>4. Backed(p)'
  BY <1>3 DEF Backed, At, Replaced, Written
<1>5. backups' = backups /\ edits' = edits /\ file' = file /\ (late' = late \/ late' = late \ {p})
  BY DEF Preview, Looks
<1>. HIDE DEF plan
<1>. QED BY <1>2, <1>3, <1>4, <1>5, OneBacks

(* The first check: what is reviewed is there, and p is not late.          *)
LEMMA CheckBacks ==
  ASSUME ProfileInv, BackupHolds, NEW p \in Processes, Check(p)
  PROVE  BackupHolds'
<1>0. {"backup", "refused"} \subseteq Steps
  BY DEF Steps
<1>1. CASE Reviewed(p)
  <2>1. /\ Goes(p, "backup") /\ file = proc[p].before /\ At(p, "locked")
        /\ late' = late \ {p} /\ UNCHANGED <<file, backups, edits>>
    BY <1>1 DEF Check, Reviewed, Looks
  <2>2. Backed(p)'
    BY <1>0, <2>1, GoesPlan DEF BackupHolds, Backed, At, Replaced, Written
  <2>3. backups \subseteq backups'
    BY <2>1
  <2>. QED BY <1>0, <2>1, <2>2, <2>3, GoesPlan, OneBacks
<1>2. CASE ~Reviewed(p)
  BY <1>0, <1>2, EndsBacks DEF Check, Refuses, Looks
<1>. QED BY <1>1, <1>2

(* The copy is of the reviewed bytes, or of others and p is late.          *)
LEMMA BackupBacks ==
  ASSUME ProfileInv, BackupHolds, NEW p \in Processes, Backup(p)
  PROVE  BackupHolds'
<1>0. "recheck" \in Steps
  BY DEF Steps
<1>1. At(p, "backup") /\ UNCHANGED <<file, lock, edits, late>>
  BY DEF Backup
<1>2. /\ proc[p].backup = Missing
      /\ edits < 2 => (p \in late <=> file # proc[p].before)
  BY <1>1 DEF BackupHolds, Backed, At, Replaced, Written
<1>3. CASE BacksUp
  <2>. DEFINE plan == [proc[p] EXCEPT !.step = "recheck", !.backup = file]
  <2>1. plan \in Plans /\ plan.step = "recheck" /\ plan.before = proc[p].before /\ plan.backup = file
    BY <1>0, PlanTypes DEF ProfileInv, ProfileTypeOK, Plans
  <2>2. proc' = [proc EXCEPT ![p] = plan] /\ backups' = backups \cup {file}
    BY <1>3 DEF Backup, Copied, ProfileInv, ProfileTypeOK
  <2>. HIDE DEF plan
  <2>3. proc'[p] = plan
    BY <2>2 DEF ProfileInv, ProfileTypeOK
  <2>4. Backed(p)'
    BY <1>1, <1>2, <2>1, <2>2, <2>3 DEF Backed, At, Replaced, Written
  <2>. QED BY <1>1, <2>1, <2>2, <2>4, OneBacks
<1>4. CASE ~BacksUp
  <2>1. Goes(p, "recheck") /\ backups' = backups /\ file = Missing
    BY <1>4 DEF Backup, BacksUp
  <2>2. Backed(p)'
    BY <1>0, <1>1, <1>2, <2>1, GoesPlan DEF Backed, At, Replaced, Written
  <2>. QED BY <1>0, <1>1, <2>1, <2>2, GoesPlan, OneBacks
<1>. QED BY <1>3, <1>4

(* The second check: whoever passes it was not late. *)
LEMMA RecheckBacks ==
  ASSUME ProfileInv, BackupHolds, NEW p \in Processes, Recheck(p)
  PROVE  BackupHolds'
<1>0. {"replace", "refused"} \subseteq Steps
  BY DEF Steps
<1>1. CASE Reviewed(p)
  <2>1. /\ Goes(p, "replace") /\ file = proc[p].before /\ At(p, "recheck")
        /\ late' = late \ {p} /\ UNCHANGED <<file, backups, edits>>
    BY <1>1 DEF Recheck, Reviewed, Looks
  <2>2. Backed(p)'
    BY <1>0, <2>1, GoesPlan DEF BackupHolds, Backed, At, Replaced, Written
  <2>. QED BY <1>0, <2>1, <2>2, GoesPlan, OneBacks
<1>2. CASE ~Reviewed(p)
  BY <1>0, <1>2, EndsBacks DEF Recheck, Refuses, Looks
<1>. QED BY <1>1, <1>2

(* Taking the lock, and everything from the replacement on.                *)
LEMMA TransactionBacks ==
  ASSUME ProfileInv, BackupHolds, NEW p \in Processes,
         \/ Compare(p) \/ Lock(p)
         \/ Replace(p) \/ WhoamiSucceeds(p) \/ WhoamiFails(p) \/ Adopt(p) \/ CheckOwn(p) \/ Restore(p)
  PROVE  BackupHolds'
<1>0. /\ {"comparing", "locked", "verifying", "written", "restoring", "restore", "manual"} \subseteq Steps
      /\ {"saved", "refused", "failed"} \subseteq Steps
  BY DEF Steps
<1>. USE <1>0
<1>1. CASE Compare(p)
  BY <1>1, GoesBacks, EndsBacks DEF Compare, At, Looks, Replaced, Written
<1>2. CASE Lock(p)
  BY <1>2, GoesBacks, EndsBacks DEF Lock, At, Replaced, Written
<1>3. CASE Replace(p)
  <2>1. lock = p
    BY <1>3 DEF Replace, At, ProfileInv, LockGuards, Inside
  <2>. QED BY <1>3, <2>1, GoesBacks, EndsBacks DEF Replace, At, Replaced, Written
<1>4. CASE WhoamiSucceeds(p) \/ WhoamiFails(p)
  BY <1>4, GoesBacks DEF WhoamiSucceeds, WhoamiFails, At, Replaced, Written
<1>5. CASE Adopt(p)
  BY <1>5, GoesBacks, EndsBacks DEF Adopt, At, Looks, Replaced, Written
<1>6. CASE CheckOwn(p)
  BY <1>6, GoesBacks, EndsBacks DEF CheckOwn, At, Looks, Replaced, Written
<1>7. CASE Restore(p)
  <2>1. lock = p
    BY <1>7 DEF Restore, At, ProfileInv, LockGuards, Inside
  <2>. QED BY <1>7, <2>1, GoesBacks, EndsBacks DEF Restore, At, Replaced, Written
<1>. QED BY <1>1, <1>2, <1>3, <1>4, <1>5, <1>6, <1>7

(* The first save of the editor finds nobody late and leaves other bytes;  *)
(* a process that dies unverified leaves its plan behind.                  *)
LEMMA OutsideBacks ==
  ASSUME ProfileInv, BackupHolds, Edit \/ \E p \in Processes : Dies(p)
  PROVE  BackupHolds'
<1>1. CASE Edit
  <2>1. /\ UNCHANGED <<backups, proc>> /\ edits' = edits + 1 /\ edits \in Nat
        /\ late' = Processes /\ file' # file
    BY <1>1, ProfileAssumption DEF Edit, ProfileInv, ProfileTypeOK
  <2>2. edits' < 2 => edits = 0 /\ late = {}
    BY <2>1 DEF BackupHolds
  <2>3. ASSUME NEW p \in Processes PROVE Backed(p)'
    BY <2>1, <2>2 DEF BackupHolds, Backed, At
  <2>. QED BY <2>1, <2>3 DEF BackupHolds
<1>2. ASSUME NEW p \in Processes, Dies(p) PROVE BackupHolds'
  <2>0. {"crashed", "idle"} \subseteq Steps
    BY DEF Steps
  <2>. QED BY <1>2, <2>0, GoesBacks, EndsBacks DEF Dies, Replaced, Written
<1>. QED BY <1>1, <1>2

LEMMA StepKeepsBackups ==
  ASSUME ProfileInv, BackupHolds, [ProfileNext]_profileVars
  PROVE  BackupHolds'
<1>1. CASE UNCHANGED profileVars
  BY <1>1 DEF profileVars, BackupHolds, Backed, At
<1>. QED BY <1>1, PreviewBacks, CheckBacks, BackupBacks, RecheckBacks, TransactionBacks, OutsideBacks DEF ProfileNext

(* OldRecoverable, for any consoles, configure runs, contents and crashes: *)
(* the backup taken between the two checks is of the reviewed file, unless *)
(* an editor saved twice.                                                  *)
THEOREM OldIsRecoverable == ProfileSpec => []OldRecoverable
<1>1. BackupHolds => OldRecoverable
  BY DEF BackupHolds, Backed, OldRecoverable, Replaced, Processes
<1>. QED BY <1>1, InitBacks, StepKeepsBackups, ProfileInvariant, PTL DEF ProfileSpec
=============================================================================
