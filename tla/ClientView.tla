------------------------------- MODULE ClientView -------------------------------
(***************************************************************************)
(* The game as the room page shows it: the engine's callbacks, the         *)
(* messages on their way to each open tab, what the page keeps of them,    *)
(* and the moves its panels offer.                                         *)
(*                                                                         *)
(* A tab's messages arrive in the order they were emitted, which is not    *)
(* the order of the callbacks: game:state goes out at once, a personal     *)
(* message only after fetchSockets has answered, so after every game:state *)
(* of the same engine call.                                                *)
(*                                                                         *)
(* Players without a tab here act on the engine directly.  The constructor *)
(* and start() are one call: while the phase is "lobby" only Start is up.  *)
(***************************************************************************)
EXTENDS GameEngine, Functions, SequencesExt

CONSTANTS
  Tabs,
  PlayerOf,   \* tab -> the player its session names
  Reloaders,  \* tabs that may reload              (bounds the inputs)
  Unseen,     \* players without a tab who act     (bounds the inputs)
  MaxLag      \* messages on the way to one tab    (bounds the delay)

ASSUME TabsAssumption ==
  /\ IsFiniteSet(Tabs) /\ Reloaders \subseteq Tabs
  /\ PlayerOf \in [Tabs -> Players \ Quitters]
  /\ Unseen \subseteq Players \ Range(PlayerOf)
  /\ MaxLag \in Nat

VARIABLES
  wire,     \* tab -> messages on their way to it
  screen,   \* tab -> gameState, myInfo, lastNightResult, whether it was on display,
            \*        and the target chosen in the form that is shown
  request,  \* tab -> the move on its way to the server
  order     \* the tabs in the order their sockets joined the room

viewVars == <<wire, screen, request, order>>

NoResult == [type |-> "none", target |-> None, potions |-> {}]
NoMove   == [type |-> "none", target |-> None]

Blank == [state |-> [phase |-> "none", alive |-> {}, votes |-> NoBallots],
          info |-> FALSE, result |-> NoResult, seen |-> FALSE, chosen |-> None]

ViewInit ==
  /\ Init
  /\ wire = [t \in Tabs |-> <<>>]
  /\ screen = [t \in Tabs |-> Blank]
  /\ request = [t \in Tabs |-> NoMove]
  /\ order \in SetToSeqs(Tabs)
-------------------------------------------------------------------------------
(***************************************************************************)
(* What the server sends                                                   *)
(***************************************************************************)

buildPublicState(s) ==
  [phase |-> s.phase, alive |-> s.alive,
   votes |-> IF s.phase = "day_main" THEN s.votes ELSE NoBallots]

GameState(s) == [kind |-> "game:state", body |-> buildPublicState(s)]

MyInfo == [kind |-> "game:my_info", body |-> NoResult]

NightResult(type, target, potions) ==
  [kind |-> "game:night_result", body |-> [type |-> type, target |-> target, potions |-> potions]]

Potions(s) == {b \in {"heal", "poison"} : s.witchPotions[b]}

\* The states one engine call publishes: those of the handler itself, then the
\* one of the phase it enters.
Published(own) == own \o IF phase' = phase THEN <<>> ELSE <<GameState(state')>>

\* What enterPhase tells the witch it wakes.
Woken(p) ==
  IF phase' = "night_witch" /\ phase # "night_witch" /\ p \in AliveAs(state', "witch")
  THEN <<NightResult("witch_view", witchView', Potions(state'))>>
  ELSE <<>>

\* One engine call ends: all it had to say is on its way, `answer' to the players
\* in `who' behind the broadcasts.
Tell(own, who, answer) ==
  /\ wire' = [t \in Tabs |-> wire[t] \o Published(own)
                \o (IF PlayerOf[t] \in who THEN <<answer>> ELSE <<>>) \o Woken(PlayerOf[t])]
  /\ \A t \in Tabs : Len(wire'[t]) <= MaxLag
  /\ UNCHANGED <<screen, order>>

Act(p, m) ==
  \/ m.type = "guard_protect" /\ GuardProtect(p, m.target)
  \/ m.type = "wolf_kill" /\ WolfKill(p, m.target)
  \/ m.type = "wolf_skip" /\ WolfSkip(p)
  \/ m.type = "seer_check" /\ SeerCheck(p, m.target)
  \/ m.type = "witch_heal" /\ WitchHeal(p)
  \/ m.type = "witch_poison" /\ WitchPoison(p, m.target)
  \/ m.type = "witch_pass" /\ WitchPass(p)
  \/ m.type = "vote" /\ submitVote(p, m.target)

\* The moves the engine does not refuse.
Accepts(p, m) ==
  \/ m.type = "guard_protect" /\ CanProtect(p, m.target)
  \/ m.type = "wolf_kill" /\ CanKill(p, m.target)
  \/ m.type = "wolf_skip" /\ MayAct(p, "night_wolves")
  \/ m.type = "seer_check" /\ CanCheck(p, m.target)
  \/ m.type = "witch_heal" /\ CanHeal(p)
  \/ m.type = "witch_poison" /\ CanPoison(p, m.target)
  \/ m.type = "witch_pass" /\ MayAct(p, "night_witch")
  \/ m.type = "vote" /\ CanVote(p, m.target)

\* An accepted move and what the engine answers.
Perform(p, m) ==
  /\ Act(p, m)
  /\ \/ /\ m.type = "guard_protect"
        /\ Tell(<<>>, {p}, NightResult("guard_ack", None, {}))
     \/ /\ m.type \in {"wolf_kill", "wolf_skip"}
        /\ Tell(<<>>, AliveAs(state, "werewolf"),
                NightResult("wolf_ack", night_state'.wolfKillTargetId, {}))
     \/ /\ m.type = "seer_check"
        /\ Tell(<<>>, {p}, NightResult("seer_result", m.target, {}))
     \/ /\ m.type \in {"witch_heal", "witch_poison", "witch_pass"}
        /\ Tell(<<>>, {p}, NightResult("no_op", None, {}))
     \/ /\ m.type = "vote"
        /\ Tell(<<GameState([state EXCEPT !.votes[p] = m.target])>>, {}, NoResult)

\* Slip: the table is told of a departure only when it closes the phase.
Departure_Unsaid(p) == <<>>

\* A departure is published at once, unless it ends the game.
Departure(p) ==
  LET gone == [state EXCEPT !.alive = @ \ {p}, !.votes[p] = Undecided]
  IN  IF checkWinner(gone) = "none" THEN <<GameState(gone)>> ELSE <<>>
-------------------------------------------------------------------------------
(***************************************************************************)
(* What the page makes of it                                               *)
(***************************************************************************)

\* Slip: every game:state clears the night result.
onGameState_ClearsAlways(scr, next) == [scr EXCEPT !.state = next, !.result = NoResult]

onGameState(scr, next) ==
  [scr EXCEPT !.state = next,
              !.result = IF next.phase \in {"day_reveal", "day_main", "lobby", "ended"}
                         THEN NoResult ELSE @]

inGame(scr) == scr.state.phase \notin {"none", "lobby", "ended"}

\* What NightActionPanel makes of the state, one's role and the last result.
NightActionPanel(p, scr) ==
  CASE p \notin scr.state.alive -> "dead"
    [] p \in scr.state.alive /\ role[p] # Actor[scr.state.phase] -> "wait"
    [] OTHER ->
       IF role[p] = "seer" /\ scr.result.type = "seer_result" THEN "seer_result"
       ELSE IF role[p] = "witch" /\ scr.result.type # "witch_view" THEN "witch_wait"
       ELSE role[p]

\* Which panel a page shows to its player.
Panel(p, scr) ==
  CASE inGame(scr) /\ scr.info /\ scr.state.phase \in NightPhases -> NightActionPanel(p, scr)
    [] inGame(scr) /\ scr.info /\ scr.state.phase = "day_main" /\ p \in scr.state.alive -> "vote"
    [] OTHER -> "none"

\* The component that keeps the chosen target (`selected' or `target') while it is shown.
Holder(p, scr) ==
  CASE Panel(p, scr) \in {"guard", "werewolf", "seer", "seer_result"} -> "ActionForm"
    [] Panel(p, scr) = "witch" /\ "poison" \in scr.result.potions -> "PoisonPicker"
    [] OTHER -> "none"

\* The page after a message, rendered before the next one; `seen' once the seer's result
\* has been on display.  The choice is kept, whatever the message says of the one chosen,
\* while its form is shown.
Received(p, scr, m) ==
  LET next ==
        CASE m.kind = "game:state" -> onGameState(scr, m.body)
          [] m.kind = "game:my_info" -> [scr EXCEPT !.info = TRUE]
          [] m.kind = "game:night_result" -> [scr EXCEPT !.result = m.body, !.seen = FALSE]
  IN  [next EXCEPT !.seen = @ \/ Panel(p, next) = "seer_result",
                   !.chosen = IF Holder(p, next) = Holder(p, scr) THEN @ ELSE None]

\* Slip: the list does not look at the alive flags.
aliveOthers_WithTheDead(p, scr) == Players \ {p}

aliveOthers(p, scr) == scr.state.alive \ {p}

\* The players whose buttons set the choice.
Listed(p, scr) ==
  CASE Panel(p, scr) = "guard" -> scr.state.alive
    [] Panel(p, scr) \in {"werewolf", "seer"} -> aliveOthers(p, scr)
    [] Holder(p, scr) = "PoisonPicker" -> aliveOthers(p, scr)
    [] OTHER -> {}

\* What a click can set the choice to: "Huy" of the poison picker forgets it.
Settable(p, scr) == Listed(p, scr) \cup (IF Holder(p, scr) = "PoisonPicker" THEN {None} ELSE {})

Button(type) == {[type |-> type, target |-> None]}

\* The button that confirms the choice, disabled while there is none.
Confirm(type, scr) == IF scr.chosen = None THEN {} ELSE {[type |-> type, target |-> scr.chosen]}

\* A second click on one's own vote skips; whoever has skipped cannot skip again.
VotePanel(p, scr) ==
  LET mine == scr.state.votes[p]
  IN  [type : {"vote"}, target : (aliveOthers(p, scr) \cup {None}) \ {mine}]
        \cup (IF mine \in aliveOthers(p, scr) THEN Button("vote") ELSE {})

\* The moves the buttons of a page make.
Offers(p, scr) ==
  LET panel == Panel(p, scr)
  IN  CASE panel = "guard" -> Confirm("guard_protect", scr)
        [] panel = "werewolf" -> Confirm("wolf_kill", scr) \cup Button("wolf_skip")
        [] panel = "seer" -> Confirm("seer_check", scr)
        [] panel = "witch" ->
             Button("witch_pass")
               \cup (IF "poison" \in scr.result.potions THEN Confirm("witch_poison", scr) ELSE {})
               \cup (IF scr.result.target # None /\ "heal" \in scr.result.potions
                     THEN Button("witch_heal") ELSE {})
        [] panel = "vote" -> VotePanel(p, scr)
        [] OTHER -> {}
-------------------------------------------------------------------------------
(***************************************************************************)
(* Actions                                                                 *)
(***************************************************************************)

\* start(): everybody is told a role, behind the state of the first phase.
GameBegins ==
  /\ Start
  /\ Tell(<<>>, Players, MyInfo)
  /\ UNCHANGED request

\* A new game in the same room, with the same pages still open.
NewGame ==
  /\ live /\ phase = "ended"
  /\ role' \in Deals
  /\ alive' = Players
  /\ phase' = "lobby"
  /\ timers' = {} /\ phaseTimer' = "none"
  /\ votes' = NoBallots
  /\ night_state' = freshNightState(None)
  /\ witchPotions' = [heal |-> TRUE, poison |-> TRUE]
  /\ winner' = "none" /\ witchView' = None
  /\ UNCHANGED <<live, viewVars>>

TimeRunsOut ==
  /\ \E t \in TimedPhases : PhaseTimeout(t)
  /\ Tell(<<>>, {}, NoResult)
  /\ UNCHANGED request

Depart(p) ==
  /\ handlePlayerLeft(p)
  /\ Tell(Departure(p), {}, NoResult)
  /\ UNCHANGED request

Deliver(t) ==
  /\ wire[t] # <<>>
  /\ screen' = [screen EXCEPT ![t] = Received(PlayerOf[t], @, Head(wire[t]))]
  /\ wire' = [wire EXCEPT ![t] = Tail(@)]
  /\ UNCHANGED <<vars, request, order>>

\* The inputs explored.
Tried(m) == m.target \in (IF m.type = "vote" THEN DayTargets ELSE NightTargets) \cup {None}

Moves ==
  {m \in [type : {"guard_protect", "wolf_kill", "seer_check", "witch_poison", "vote"}, target : Players]
           \cup [type : {"wolf_skip", "witch_heal", "witch_pass", "vote"}, target : {None}] : Tried(m)}

ActUnseen(p, m) ==
  /\ phase # "lobby"
  /\ Perform(p, m)
  /\ UNCHANGED request

\* A target is clicked, or the poison picker closed, also while a move is on its way.
Choose(t) ==
  /\ \E q \in {q \in Settable(PlayerOf[t], screen[t]) : q \in NightTargets \cup {None}} :
       screen' = [screen EXCEPT ![t].chosen = q]
  /\ UNCHANGED <<vars, wire, request, order>>

Click(t) ==
  /\ request[t] = NoMove
  /\ \E m \in {m \in Offers(PlayerOf[t], screen[t]) : Tried(m)} :
       request' = [request EXCEPT ![t] = m]
  /\ UNCHANGED <<vars, wire, screen, order>>

\* The move reaches the engine, which may refuse it: the state it was made from may
\* be gone by now.
Serve(t) ==
  /\ request[t] # NoMove /\ phase # "lobby"
  /\ request' = [request EXCEPT ![t] = NoMove]
  /\ IF Accepts(PlayerOf[t], request[t])
     THEN Perform(PlayerOf[t], request[t])
     ELSE UNCHANGED <<vars, wire, screen, order>>

\* Slip: the socket of the page that went away is still in the room.
Rejoined_Twice(t) == Append(order, t)

Rejoined(t) == Append(RemoveFirst(order, t), t)

\* The page is loaded anew and asks for the room; the snapshot of the game goes to
\* the first socket of the player that the room lists, which may be another tab's.
Reload(t) ==
  /\ t \in Reloaders /\ phase # "lobby"
  /\ order' = Rejoined(t)
  /\ LET target == order'[SelectInSeq(order', LAMBDA u : PlayerOf[u] = PlayerOf[t])]
     IN  wire' = [[wire EXCEPT ![t] = <<>>] EXCEPT ![target] = @ \o <<GameState(state), MyInfo>>]
  /\ \A u \in Tabs : Len(wire'[u]) <= MaxLag
  /\ screen' = [screen EXCEPT ![t] = Blank]
  /\ request' = [request EXCEPT ![t] = NoMove]
  /\ UNCHANGED vars

ViewNext ==
  \/ GameBegins
  \/ NewGame
  \/ TimeRunsOut
  \/ \E p \in Quitters : Depart(p)
  \/ \E p \in Unseen, m \in Moves : ActUnseen(p, m)
  \/ \E t \in Tabs : Deliver(t) \/ Choose(t) \/ Click(t) \/ Serve(t) \/ Reload(t)

ViewSpec == ViewInit /\ [][ViewNext]_<<vars, viewVars>>
-------------------------------------------------------------------------------
(***************************************************************************)
(* Properties                                                              *)
(***************************************************************************)

Shown == [phase : Phases, alive : SUBSET Players, votes : Ballots]

Results ==
  [type : {"none", "guard_ack", "wolf_ack", "seer_result", "no_op", "witch_view"},
   target : PlayerOrNone, potions : SUBSET {"heal", "poison"}]

Messages ==
  [kind : {"game:state"}, body : Shown]
    \cup [kind : {"game:my_info", "game:night_result"}, body : Results]

\* The type invariant.
ViewTypeOK ==
  /\ \A t \in Tabs : \A i \in DOMAIN wire[t] : wire[t][i] \in Messages
  /\ screen \in [Tabs -> [state : Shown \cup {Blank.state}, info : BOOLEAN, result : Results,
                         seen : BOOLEAN, chosen : PlayerOrNone]]
  /\ request \in [Tabs -> Moves \cup {NoMove}]
  /\ IsInjective(order) /\ Range(order) = Tabs

\* Nothing is on its way to the player's tabs.
UpToDate(p) == \A t \in Tabs : PlayerOf[t] = p => wire[t] = <<>>

\* A page that has received all that was sent to it shows the game as it is: every
\* handler that changes the phase, the living or the votes publishes the change.
ScreensFollowTheEngine ==
  phase # "lobby" =>
    \A t \in Tabs : (wire[t] = <<>> /\ screen[t].state # Blank.state) =>
                      screen[t].state = buildPublicState(state)

Legal(p) == {m \in Moves : Accepts(p, m)}

\* The antidote, when a wolf's departure has put another victim, or none, in the place
\* of the one the witch was told of.
Reopened == IF witchView # night_state.wolfKillTargetId THEN Button("witch_heal") ELSE {}

\* The moves a page makes with the choice it has or another one.
Makes(p, scr) ==
  UNION {Offers(p, [scr EXCEPT !.chosen = q]) : q \in Listed(p, scr) \cup {scr.chosen}}

\* Whoever the night waits for can play: once his pages are up to date he can make on
\* one of them every move the engine would accept from him, however often he reloaded
\* and whichever of his tabs the snapshots went to.  The result of a check of an
\* earlier game, when a page still keeps one, hides the seer's form; a page the witch
\* may have loaded anew waits for what the snapshot does not repeat; and the antidote is
\* offered for the victim she was told of.
EveryMoveIsOffered ==
  \A p \in Range(PlayerOf) :
    (phase \in NightPhases /\ p \in AliveAs(state, Actor[phase]) /\ UpToDate(p)) =>
      \E t \in Tabs : /\ PlayerOf[t] = p
                      /\ \/ Legal(p) \ Reopened \subseteq Makes(p, screen[t])
                         \/ Panel(p, screen[t]) = "seer_result"
                         \/ t \in Reloaders /\ Panel(p, screen[t]) = "witch_wait"

\* A choice that is on the list no more stays confirmable.
Forgotten(p, scr) ==
  {m \in Moves : m.target = scr.chosen /\ m.target \notin Listed(p, scr) \cup {None}}

\* What an up-to-date page offers, the engine accepts, but for the two rules no list
\* of targets knows, the guard's last protection and the other wolves; for the antidote
\* when the victim is another one than the witch was told; and for a target that was
\* chosen and has since left the list.
EveryOfferIsAccepted ==
  \A t \in Tabs :
    LET p == PlayerOf[t]
        refused == [type : {"guard_protect"}, target : {night_state.guardLastNightProtectedId}]
                     \cup [type : {"wolf_kill"}, target : {q \in Players : role[q] = "werewolf"}]
    IN  (wire[t] = <<>> /\ phase # "lobby") =>
          {m \in Offers(p, screen[t]) : Tried(m)}
            \subseteq Legal(p) \cup refused \cup Reopened \cup Forgotten(p, screen[t])

\* The seer's form turns into the result, "Ket qua soi:" (NightActionPanel.tsx:164):
\* a page that drops a seer_result has had it on display.
SeerReadsTheResult ==
  [][\A t \in Tabs :
       (screen[t].result.type = "seer_result" /\ screen'[t].result # screen[t].result)
         => screen[t].seen]_<<vars, viewVars>>

\* "clear stale night result when moving past night" (page.tsx:82): the phases before
\* the seer's never find the result of an earlier check on a page.
NightsStartClean ==
  \A t \in Tabs : screen[t].state.phase \in {"night_guard", "night_wolves"}
                    => screen[t].result.type # "seer_result"
===============================================================================
