--------------------------- MODULE ConsoleSession ---------------------------
(***************************************************************************)
(* What the FinOps console shows, and for whom.  A refresh verifies the    *)
(* sign-in (whoami), reads what the server can do and reads the tab; its   *)
(* requests run in threads that outlive it.  Meanwhile the user of the     *)
(* Azure CLI changes in another terminal, tokens expire, tabs, pages and   *)
(* the month change, details open, and the connection is replaced by       *)
(* another one.                                                            *)
(*                                                                         *)
(* gen counts the credentials of a connection: HttpBackend's               *)
(* _credential_generation, and the CredentialContexts of DirectBackend.    *)
(* A read cycle is pinned to one (0: not yet).                             *)
(***************************************************************************)
EXTENDS Naturals, Sequences, FiniteSets

CONSTANTS
    Users, NoUser,
    Engines,        \* connections, one after the other; each is opened once
    First,          \* the one the console starts with
    Kinds,          \* each connection's kind, "http" or "direct", as it may begin
    MaxTrouble,     \* bound: changes of the CLI's user and reads that fail
    MaxCycles,      \* bound: read cycles (refreshes, details, connections)
    MaxMoves        \* bound: next pages and changes of the month

ASSUME ConsoleAssumption ==
    /\ NoUser \notin Users /\ First \in Engines /\ 0 \notin Engines
    /\ Kinds \subseteq [Engines -> {"http", "direct"}]
    /\ MaxTrouble \in Nat

VARIABLES
    cli,        \* the user the Azure CLI is signed in as; spent bounds
    kind,       \* the kind of each connection
    backend,    \* Backend and Engine: [gen, bound, known, rev, state]
    engine,     \* the connection of the console
    cycles,     \* the read cycles in the order they began
    calls,      \* reads running or answered, not yet handled by the UI loop
    ui,         \* the tab, serial, header, page, month, principal revision
    refresh, opening, connecting,   \* the cycles of these workers (0: none)
    data,       \* data[t]: what tab t shows
    screen      \* the detail or form above the tabs

sessionVars == <<cli, kind, backend, engine, cycles, calls, ui, refresh, opening, connecting, data, screen>>

Tabs == {"overview", "requests"}
NoData == [engine |-> 0, rev |-> 0, user |-> NoUser, page |-> 0, month |-> 0, since |-> 0, cycle |-> 0]
Reads == {"whoami", "features", "data", "detail"}
CallStates == {"queued", "sent", "answered", "failed"}

Known == Users \cup {NoUser}
Backends == [gen : Nat \ {0}, bound : Known, known : Known, rev : Nat, state : {"new", "open", "closed"}]
Cycles == [engine : Engines, pin : Nat, serial : Nat, tab : Tabs, since : Nat, rev : Nat]
Calls == [cycle : Nat, what : Reads, state : CallStates, gen : Nat, rev : Nat, user : Known, page : Nat, month : Nat]
Screens == [tab : Tabs, serial : Nat, header : Known, rev : Nat, page : Nat, month : Nat, verifying : BOOLEAN]
Items == [engine : Engines \cup {0}, rev : Nat, user : Known, page : Nat, month : Nat, since : Nat, cycle : Nat]

SessionTypeOK ==
    /\ cli \in [user : Users, logins : 0..MaxTrouble, faults : 0..MaxTrouble]
    /\ kind \in [Engines -> {"http", "direct"}]
    /\ backend \in [Engines -> Backends] /\ engine \in Engines
    /\ cycles \in Seq(Cycles) /\ calls \subseteq Calls
    /\ ui \in Screens
    /\ data \in [Tabs -> Items] /\ screen \in Items
    /\ \A w \in {refresh, opening, connecting} : w \in 0..Len(cycles)
    /\ \A c \in calls : c.cycle \in DOMAIN cycles
    /\ \A n \in DOMAIN cycles : cycles[n].pin <= backend[cycles[n].engine].gen

Init ==
    /\ cli \in [user : Users, logins : {0}, faults : {0}]
    /\ kind \in Kinds
    /\ backend = [e \in Engines |-> [gen |-> 1, bound |-> NoUser, known |-> NoUser, rev |-> 0,
                                     state |-> IF e = First THEN "open" ELSE "new"]]
    /\ engine = First
    /\ cycles = <<>> /\ calls = {}
    /\ ui = [tab |-> "overview", serial |-> 0, header |-> NoUser, rev |-> 0, page |-> 0, month |-> 0,
             verifying |-> FALSE]
    /\ refresh = 0 /\ opening = 0 /\ connecting = 0
    /\ data = [t \in Tabs |-> NoData]
    /\ screen = NoData

-----------------------------------------------------------------------------
(* --------------------- reads, in threads of their own ------------------- *)
(* The answer of a read nobody waits for any more is dropped. *)
Answer(c, state, user) ==
    calls' = (calls \ {c}) \cup
        IF c.cycle \in {refresh, opening, connecting} THEN {[c EXCEPT !.state = state, !.user = user]} ELSE {}
Fails(c) == Answer(c, "failed", c.user)
EngineOf(c) == cycles[c.cycle].engine
Pin(c) == cycles[c.cycle].pin
Pinned(c, g) == cycles' = [cycles EXCEPT ![c.cycle].pin = g]
Set(e, g, user) == backend' = [backend EXCEPT ![e].gen = g, ![e].bound = user]
(* read_guard: the cycle's credentials are still the connection's *)
Valid(n) == cycles[n].pin \in {0, backend[cycles[n].engine].gen}

Ask(n, what) == [cycle |-> n, what |-> what, state |-> "queued", gen |-> 0, rev |-> 0, user |-> NoUser,
                 page |-> ui.page, month |-> ui.month]

(* Mutant: whoami reuses the token it has. *)
TokenReused(e, what) == IF backend[e].bound # NoUser THEN backend[e].bound ELSE cli.user
(* Whose token goes along: whoami asks the CLI again, others reuse it. *)
Token(e, what) == IF what # "whoami" /\ backend[e].bound # NoUser THEN backend[e].bound ELSE cli.user

(* HttpBackend._request, up to sending, for whatever AumServiceBackend.read *)
(* asks (the lists it keeps for its own rows are left out);                *)
(* Engine._identity_lock lets one whoami through at a time.                *)
SendHttp(c) ==
    LET e == EngineOf(c)
        user == Token(e, c.what)
    IN  /\ kind[e] = "http" /\ c.state = "queued" /\ c.what # "features"
        /\ c.what = "whoami" => \A d \in calls : d.what = "whoami" /\ EngineOf(d) = e => d.state # "sent"
        /\ IF Valid(c.cycle)
           THEN /\ calls' = (calls \ {c}) \cup
                        {[c EXCEPT !.state = "sent", !.gen = backend[e].gen, !.rev = backend[e].rev, !.user = user]}
                /\ Pinned(c, IF c.what = "whoami" THEN Pin(c) ELSE backend[e].gen)
                /\ Set(e, backend[e].gen, user)
           ELSE Fails(c) /\ UNCHANGED <<cycles, backend>>
        /\ UNCHANGED <<cli, kind, engine, ui, refresh, opening, connecting, data, screen>>

(* DirectBackend._account: the first read of a cycle asks the CLI who is   *)
(* signed in; a new user is a new credential context.                      *)
SendDirect(c) ==
    LET e == EngineOf(c)
        g == IF backend[e].bound = cli.user THEN backend[e].gen ELSE backend[e].gen + 1
    IN  /\ kind[e] = "direct" /\ c.state = "queued" /\ c.what # "features"
        /\ c.what = "whoami" => \A d \in calls : d.what = "whoami" /\ EngineOf(d) = e => d.state # "sent"
        /\ \/ /\ Pin(c) = 0
              /\ Pinned(c, g) /\ Set(e, g, cli.user)
              /\ calls' = (calls \ {c}) \cup
                      {[c EXCEPT !.state = "sent", !.gen = g, !.rev = backend[e].rev, !.user = cli.user]}
           \/ /\ Pin(c) # 0 /\ Valid(c.cycle)
              /\ calls' = (calls \ {c}) \cup
                      {[c EXCEPT !.state = "sent", !.gen = Pin(c), !.rev = backend[e].rev, !.user = backend[e].bound]}
              /\ UNCHANGED <<cycles, backend>>
           \/ /\ ~Valid(c.cycle)
              /\ Fails(c) /\ UNCHANGED <<cycles, backend>>
        /\ UNCHANGED <<cli, kind, engine, ui, refresh, opening, connecting, data, screen>>

(* A request that timed out or was refused; a detail that fails changes    *)
(* nothing but a message.                                                  *)
ReadFails(c) ==
    /\ c.state = "sent" /\ c.what # "detail" /\ cli.logins + cli.faults < MaxTrouble /\ cli' = [cli EXCEPT !.faults = @ + 1]
    /\ Fails(c)
    /\ UNCHANGED <<kind, backend, engine, cycles, ui, refresh, opening, connecting, data, screen>>

(* The snapshot of Direct runs az itself, as whoever is signed in by then. *)
Reader(c) == IF kind[EngineOf(c)] = "direct" THEN cli.user ELSE c.user

ReadReturns(c) ==
    /\ c.state = "sent" /\ c.what # "whoami"
    /\ IF c.gen = backend[EngineOf(c)].gen /\ Valid(c.cycle)
       THEN Answer(c, "answered", Reader(c))
       ELSE Fails(c)
    /\ UNCHANGED <<cli, kind, backend, engine, cycles, ui, refresh, opening, connecting, data, screen>>

(* refresh_features, in one step: the cycle is pinned by now, and nothing   *)
(* but the guard depends on what happens while it runs.                    *)
ReadFeatures(c) ==
    LET e == EngineOf(c) IN
    /\ c.what = "features" /\ c.state = "queued"
    /\ IF Valid(c.cycle)
       THEN /\ Answer(c, "answered", Token(e, "features"))
            /\ Set(e, backend[e].gen, Token(e, "features"))
       ELSE Fails(c) /\ UNCHANGED backend
    /\ UNCHANGED <<cli, kind, engine, cycles, ui, refresh, opening, connecting, data, screen>>

(* whoami: another identity than the last one makes new credentials, and   *)
(* the cycle that found it goes on with those (HTTP) or cannot (Direct).   *)
WhoamiReturns(c) ==
    LET e == EngineOf(c)
        other == backend[e].known \notin {NoUser, c.user}
        g == backend[e].gen + 1
    IN  /\ c.state = "sent" /\ c.what = "whoami"
        /\ IF c.gen = backend[e].gen
           THEN /\ backend' = [backend EXCEPT ![e].known = c.user,
                        ![e].gen = IF other THEN g ELSE @, ![e].rev = IF other THEN @ + 1 ELSE @,
                        ![e].bound = IF other THEN NoUser ELSE @]
                /\ IF kind[e] = "http" /\ Pin(c) = 0
                   THEN Pinned(c, IF other THEN g ELSE c.gen)
                   ELSE UNCHANGED cycles
                /\ Answer(c, "answered", c.user)
           ELSE Fails(c) /\ UNCHANGED <<backend, cycles>>
        /\ UNCHANGED <<cli, kind, engine, ui, refresh, opening, connecting, data, screen>>

-----------------------------------------------------------------------------
(* ------------------- the sign-in as the UI knows it ---------------------- *)
(* Every input is preceded by _synchronize_principal. *)
Synchronized == ui.rev = backend[engine].rev

(* Mutant: the other tabs keep what they show. *)
ClearedActiveTab ==
    /\ ui' = [ui EXCEPT !.rev = backend[engine].rev, !.serial = @ + 1, !.page = 0, !.header = backend[engine].known]
    /\ data' = [data EXCEPT ![ui.tab] = NoData]
    /\ screen' = NoData
(* _clear_principal_state: the refresh that noticed is outdated too. *)
Cleared ==
    /\ ui' = [ui EXCEPT !.rev = backend[engine].rev, !.serial = @ + 1, !.page = 0, !.header = backend[engine].known]
    /\ data' = [t \in Tabs |-> NoData]
    /\ screen' = NoData

Synchronize ==
    /\ ~Synchronized
    /\ Cleared
    /\ UNCHANGED <<cli, kind, backend, engine, cycles, calls, refresh, opening, connecting>>

(* current_guard, evaluated by a worker in cycle n: its own connection's   *)
(* cycle counts only while that is the console's connection.               *)
CurrentGuard(n) == cycles[n].engine = engine => Valid(n)

Item(c) == [engine |-> EngineOf(c), rev |-> c.rev, user |-> c.user, page |-> c.page, month |-> c.month,
            since |-> cycles[c.cycle].since, cycle |-> c.cycle]
(* cached_guard: the guard under which an item was published *)
Cached(d) == d # NoData /\ d.engine = engine /\ Valid(d.cycle)

-----------------------------------------------------------------------------
(* ------------------------------ refreshes -------------------------------- *)
(* When the worker of cycle n ends: a thread it leaves behind matters      *)
(* through whoami and Direct's account only.                               *)
Busy(n) == {c \in calls : c.cycle = n =>
    /\ c.state \in {"queued", "sent"}
    /\ c.what = "whoami" \/ (c.what \in {"data", "detail"} /\ kind[EngineOf(c)] = "direct")}
Cycle(e, serial, tab) == [engine |-> e, pin |-> 0, serial |-> serial, tab |-> tab, since |-> cli.logins, rev |-> ui.rev]

(* _current_refresh *)
Current(n) == cycles[n].serial = ui.serial /\ cycles[n].tab = ui.tab

(* action_refresh with the query of page, month: it cancels the previous   *)
(* one, whose threads run on.  Direct reads data and identity together.    *)
Refreshing(e, known, tab, page, month) ==
    LET n == Len(cycles) + 1
        asked == [Ask(n, "data") EXCEPT !.page = page, !.month = month]
    IN  /\ n <= MaxCycles
        /\ ui' = [ui EXCEPT !.serial = @ + 1, !.tab = tab, !.page = page, !.month = month, !.verifying = TRUE,
                            !.header = known, !.rev = backend[e].rev]
        /\ cycles' = Append(cycles, Cycle(e, ui.serial + 1, tab))
        /\ calls' = Busy(refresh) \cup {Ask(n, "whoami")} \cup (IF kind[e] = "direct" THEN {asked} ELSE {})
        /\ refresh' = n

Input == Synchronized /\ connecting = 0
OnTabs == Input /\ screen = NoData

(* Mutant: what the tab shows stays until the answer. *)
ReloadKeepingData(tab, page, month) ==
    /\ Refreshing(engine, ui.header, tab, page, month)
    /\ UNCHANGED <<cli, kind, backend, engine, opening, connecting, data, screen>>
Reload(tab, page, month) ==
    /\ Refreshing(engine, ui.header, tab, page, month)
    /\ data' = [data EXCEPT ![tab] = NoData]
    /\ UNCHANGED <<cli, kind, backend, engine, opening, connecting, screen>>

Refresh == OnTabs /\ Reload(ui.tab, ui.page, ui.month)
SwitchTab == \E t \in Tabs \ {ui.tab} : OnTabs /\ Reload(t, ui.page, ui.month)
NextPage == /\ OnTabs /\ ui.tab = "requests" /\ data["requests"] # NoData
            /\ ui.page + ui.month < MaxMoves /\ Reload(ui.tab, ui.page + 1, ui.month)
PreviousPage == OnTabs /\ ui.tab = "requests" /\ ui.page > 0 /\ Reload(ui.tab, ui.page - 1, ui.month)
(* Another month or filter: every list starts at its first page. *)
SetQuery == OnTabs /\ ui.page + ui.month < MaxMoves /\ Reload(ui.tab, 0, ui.month + 1)

(* The refresh handles an answer: first the sign-in, then the features,    *)
(* then the data.                                                          *)
Mine(c, what) == c.cycle = refresh /\ refresh # 0 /\ c.what = what /\ c.state \in {"answered", "failed"}
Ends == /\ refresh' = 0
        /\ calls' = Busy(refresh)
Abandoned == Ends /\ UNCHANGED <<ui, data, screen>>
ShowError ==
    /\ Ends
    /\ data' = [data EXCEPT ![ui.tab] = NoData]
    /\ ui' = [ui EXCEPT !.verifying = FALSE]
    /\ UNCHANGED screen

HandleIdentity(c) ==
    /\ Mine(c, "whoami")
    /\ \/ ~Synchronized /\ Cleared /\ Ends
       \/ Synchronized /\ ~Current(c.cycle) /\ Abandoned
       \/ Synchronized /\ Current(c.cycle) /\ c.state = "failed" /\ kind[engine] = "http" /\ ShowError
       \/ /\ Synchronized /\ Current(c.cycle) /\ c.state = "failed" /\ kind[engine] = "direct"
          /\ ui' = [ui EXCEPT !.header = NoUser, !.verifying = FALSE]
          /\ calls' = calls \ {c}
          /\ UNCHANGED <<data, screen, refresh>>
       \/ /\ Synchronized /\ Current(c.cycle) /\ c.state = "answered" /\ CurrentGuard(c.cycle)
          /\ ui' = [ui EXCEPT !.header = c.user, !.page = IF c.user # ui.header /\ (ui.header # NoUser \/ kind[engine] = "http")
                                                           THEN 0 ELSE @]
          /\ data' = IF c.user # ui.header /\ (ui.header # NoUser \/ kind[engine] = "http")
                     THEN [t \in Tabs |-> NoData] ELSE data
          /\ calls' = (calls \ {c}) \cup {Ask(c.cycle, "features")}
          /\ UNCHANGED <<screen, refresh>>
       \/ Synchronized /\ Current(c.cycle) /\ c.state = "answered" /\ ~CurrentGuard(c.cycle) /\ Cleared /\ Ends
    /\ UNCHANGED <<cli, kind, backend, engine, cycles, opening, connecting>>

(* refresh_features: the guard is from before the read *)
HandleFeatures(c) ==
    /\ Mine(c, "features")
    /\ \/ ~Synchronized /\ Cleared /\ Ends
       \/ Synchronized /\ ~Current(c.cycle) /\ Abandoned
       \/ Synchronized /\ Current(c.cycle) /\ c.state = "failed" /\ ShowError
       \/ /\ Synchronized /\ Current(c.cycle) /\ c.state = "answered" /\ Valid(c.cycle)
          /\ ui' = [ui EXCEPT !.verifying = FALSE]
          /\ calls' = (calls \ {c}) \cup (IF kind[engine] = "http" THEN {Ask(c.cycle, "data")} ELSE {})
          /\ UNCHANGED <<data, screen, refresh>>
       \/ Synchronized /\ Current(c.cycle) /\ c.state = "answered" /\ ~Valid(c.cycle) /\ Cleared /\ Ends
    /\ UNCHANGED <<cli, kind, backend, engine, cycles, opening, connecting>>

(* publish_tab: at the end, and for every panel of the overview as it      *)
(* arrives, with Direct even before the sign-in is verified.               *)
HandleData(c) ==
    LET rest == \E d \in calls : d.cycle = c.cycle /\ d.what \in {"whoami", "features"} IN
    /\ Mine(c, "data")
    /\ \/ ~rest /\ ~Current(c.cycle) /\ Abandoned
       \/ /\ Current(c.cycle) /\ c.state = "failed" /\ ShowError
       \/ /\ Current(c.cycle) /\ c.state = "answered" /\ ~CurrentGuard(c.cycle) /\ ShowError
       \/ /\ Current(c.cycle) /\ c.state = "answered" /\ CurrentGuard(c.cycle) /\ ~rest
          /\ data' = [data EXCEPT ![cycles[c.cycle].tab] = Item(c)]
          /\ Ends
          /\ UNCHANGED <<ui, screen>>
       \/ /\ Current(c.cycle) /\ c.state = "answered" /\ CurrentGuard(c.cycle) /\ rest /\ cycles[c.cycle].tab = "overview"
          /\ data["overview"] # Item(c)
          /\ data' = [data EXCEPT !["overview"] = Item(c)]
          /\ UNCHANGED <<ui, screen, calls, refresh>>
    /\ UNCHANGED <<cli, kind, backend, engine, cycles, opening, connecting>>

-----------------------------------------------------------------------------
(* --------------------- details, forms, connections ----------------------- *)
(* A row (_open_detail) or a history (_publish_read) is asked for. *)
OpenDetail ==
    LET n == Len(cycles) + 1 IN
    /\ OnTabs /\ Cached(data[ui.tab]) /\ n <= MaxCycles
    /\ cycles' = Append(cycles, Cycle(engine, ui.serial, ui.tab))
    /\ calls' = Busy(opening) \cup {Ask(n, "detail")}
    /\ opening' = n
    /\ UNCHANGED <<cli, kind, backend, engine, ui, refresh, connecting, data, screen>>

Closing == opening' = 0 /\ calls' = Busy(opening)
(* current_guard as it was when the cycle began *)
EarlyGuard(n) == cycles[n].engine = engine /\ cycles[n].rev = backend[engine].rev /\ Valid(n)
(* _publish_read takes its guard before it asks, _open_detail when the row *)
(* has arrived.                                                            *)
ShowDetail(c) ==
    /\ c.cycle = opening /\ c.what = "detail" /\ c.state \in {"answered", "failed"}
    /\ Closing
    /\ \/ /\ c.state = "answered" /\ (EarlyGuard(c.cycle) \/ CurrentGuard(c.cycle))
          /\ screen' = Item(c)
          /\ UNCHANGED <<ui, data>>
       \/ c.state = "answered" /\ ~EarlyGuard(c.cycle) /\ Cleared
       \/ c.state = "failed" /\ UNCHANGED <<ui, data, screen>>
    /\ UNCHANGED <<cli, kind, backend, engine, cycles, refresh, connecting>>

(* push_cached_form, open_cached_change: not while the sign-in is being    *)
(* verified                                                                *)
OpenForm ==
    /\ OnTabs /\ ~ui.verifying /\ Cached(data[ui.tab])
    /\ screen' = data[ui.tab]
    /\ UNCHANGED <<cli, kind, backend, engine, cycles, calls, ui, refresh, opening, connecting, data>>
Dismiss ==
    /\ Input /\ screen # NoData /\ screen' = NoData
    /\ UNCHANGED <<cli, kind, backend, engine, cycles, calls, ui, refresh, opening, connecting, data>>

(* activate_profile: whoami over the candidate *)
Connect(e) ==
    LET n == Len(cycles) + 1 IN
    /\ OnTabs /\ backend[e].state = "new" /\ n < MaxCycles
    /\ backend' = [backend EXCEPT ![e].state = "open"]
    /\ cycles' = Append(cycles, Cycle(e, 0, ui.tab))
    /\ calls' = calls \cup {Ask(n, "whoami")}
    /\ connecting' = n
    /\ UNCHANGED <<cli, kind, engine, ui, refresh, opening, data, screen>>

Closed(e) == [backend EXCEPT ![e].gen = @ + 1, ![e].bound = NoUser, ![e].state = "closed"]
ConnectReturns(c) ==
    LET e == EngineOf(c) IN
    /\ c.cycle = connecting /\ c.state \in {"answered", "failed"}
    /\ connecting' = 0
    /\ \/ /\ c.state = "answered" /\ Valid(c.cycle)
          /\ engine' = e /\ backend' = Closed(engine)
          /\ LET n == Len(cycles) + 1 IN
             /\ n <= MaxCycles
             /\ ui' = [ui EXCEPT !.serial = @ + 2, !.page = 0, !.header = c.user, !.rev = backend[e].rev, !.verifying = TRUE]
             /\ cycles' = Append(cycles, Cycle(e, ui.serial + 2, ui.tab))
             /\ calls' = (Busy(refresh) \ {c}) \cup {[Ask(n, w) EXCEPT !.page = 0] :
                            w \in IF kind[e] = "direct" THEN {"whoami", "data"} ELSE {"whoami"}}
             /\ refresh' = n
          /\ data' = [t \in Tabs |-> NoData] /\ screen' = NoData
       \/ /\ c.state = "failed" \/ ~Valid(c.cycle)
          /\ backend' = Closed(e) /\ calls' = calls \ {c}
          /\ UNCHANGED <<engine, ui, cycles, refresh, data, screen>>
    /\ UNCHANGED <<cli, kind, opening>>

-----------------------------------------------------------------------------
(* az login in another terminal; an expired token, or one answered 401 *)
Login(u) ==
    /\ cli.logins + cli.faults < MaxTrouble /\ u # cli.user
    /\ cli' = [cli EXCEPT !.user = u, !.logins = @ + 1]
    /\ UNCHANGED <<kind, backend, engine, cycles, calls, ui, refresh, opening, connecting, data, screen>>
TokenExpires(e) ==
    /\ kind[e] = "http" /\ backend[e].bound # NoUser /\ cli.logins > 0
    /\ backend' = [backend EXCEPT ![e].bound = NoUser]
    /\ UNCHANGED <<cli, kind, engine, cycles, calls, ui, refresh, opening, connecting, data, screen>>

Threads == \E c \in calls : SendHttp(c) \/ SendDirect(c) \/ ReadFeatures(c) \/ ReadFails(c) \/ ReadReturns(c) \/ WhoamiReturns(c)
Loop == \/ \E c \in calls : \/ HandleIdentity(c) \/ HandleFeatures(c) \/ HandleData(c) \/ ShowDetail(c)
                            \/ ConnectReturns(c)
        \/ Synchronize
Inputs == \/ Refresh \/ SwitchTab \/ NextPage \/ PreviousPage \/ SetQuery \/ OpenForm \/ Dismiss
          \/ OpenDetail
          \/ \E e \in Engines : Connect(e)
Outside == (\E u \in Users : Login(u)) \/ \E e \in Engines : TokenExpires(e)

Next == Threads \/ Loop \/ Inputs \/ Outside
Spec == Init /\ [][Next]_sessionVars

-----------------------------------------------------------------------------
(* Once a changed sign-in has been noticed, nothing that was read for the  *)
(* previous one is left in any tab or form, and the header names the one   *)
(* the connection verified last, whatever threads finish late.             *)
ShownIsVerified ==
    Synchronized =>
        /\ \A t \in Tabs : data[t] # NoData =>
            /\ data[t].engine = engine /\ data[t].rev = ui.rev
            /\ ui.header \in {NoUser, backend[engine].known}
        /\ screen.engine = engine => screen.rev = ui.rev

(* The visible list is the page and the month the paging state says, so    *)
(* that Next and Previous move from what is seen.                          *)
PageMatchesQuery ==
    data[ui.tab] # NoData =>
        /\ data[ui.tab].month = ui.month
        /\ ui.tab = "requests" => data[ui.tab].page = ui.page

(* What a refresh shows that began after the last az login was read as the *)
(* user who signed in, and once verified the header does not name another. *)
ShownForSignIn ==
    \A t \in Tabs : data[t] # NoData /\ data[t].since = cli.logins =>
        /\ data[t].user = cli.user
        /\ t = ui.tab /\ ~ui.verifying => ui.header \in {NoUser, cli.user}
=============================================================================
