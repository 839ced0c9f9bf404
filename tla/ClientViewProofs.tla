--------------------------- MODULE ClientViewProofs ---------------------------
(***************************************************************************)
(* The room pages follow the engine, for any number of players and tabs,   *)
(* any deal, and however long the messages take; and what they offer their *)
(* player is what the engine would accept from him.                        *)
(*                                                                         *)
(* The invariant that carries the proof looks at the messages on their way *)
(* to a page: the last game:state among them is the game as it is, or      *)
(* there is none and the page shows the game already, or nothing at all.   *)
(* It asks of every engine call that what it publishes covers what it      *)
(* changed: a call that enters a phase publishes that phase last, and one  *)
(* that stays in its phase changes nothing a page is told, but for a vote  *)
(* and a departure, which publish themselves.                              *)
(*                                                                         *)
(* Two more parts are for the moves on offer: one of each player's pages   *)
(* knows role and game or will (Attended), and the last word of a witch's  *)
(* pages about her night is what she was told of it (Briefed).             *)
(***************************************************************************)
EXTENDS ClientView, GameEngineSteps

(***************************************************************************)
(* What an engine call does to the state the pages are told of.            *)
(***************************************************************************)
\* What a page is told of s is what it is told of t.
SamePage(s, t) == buildPublicState(t) = buildPublicState(s)

LEMMA NightIsSilent ==
  ASSUME NEW n, NEW b, NightStep(n, b), phase' = phase
  PROVE  SamePage(state, state')
<1>1. GoesOn(state, state')
  BY DEF NightStep, Buried, NightPhases, state
<1>2. alive' = alive /\ phase \in NightPhases
  BY <1>1 DEF NightStep, GoesOn, state
<1> QED
  BY <1>2 DEF SamePage, buildPublicState, NightPhases, state

LEMMA DuskMovesOn ==
  ASSUME DuskStep
  PROVE  phase' # phase
BY DEF DuskStep, Buried, NightPhases, state

\* A timeout acts on the engine as it is, but for the timer.
LEMMA TimedOut ==
  ASSUME IInv, NEW t, PhaseTimeout(t)
  PROVE  \E s : /\ Running(s) /\ s.alive = alive /\ s.phase = phase
                /\ s.night_state = night_state /\ s.witchPotions = witchPotions
                /\ Become(onPhaseTimeout(s))
<1> DEFINE s == [state EXCEPT !.timers = @ \ {t}, !.phaseTimer = "none"]
<1>1. live /\ phase \in TimedPhases /\ timers = {phase} /\ t = phase
  BY DEF IInv, PhaseTimeout, Timed, state
<1>2. Running(state)
  BY <1>1, InPlay
<1>3. /\ Running(s) /\ s.alive = alive /\ s.phase = phase
      /\ s.night_state = night_state /\ s.witchPotions = witchPotions
  BY <1>1, <1>2 DEF Running, EngineState, state
<1>4. Become(onPhaseTimeout(s))
  BY DEF PhaseTimeout
<1> QED
  BY <1>3, <1>4

LEMMA TimeoutIsSilent ==
  ASSUME IInv, NEW t, PhaseTimeout(t), phase' = phase
  PROVE  SamePage(state, state')
<1>1. CASE NightStep(night_state, witchPotions)
  BY <1>1, NightIsSilent
<1>2. CASE QuietStep /\ phase # "day_main"
  <2>1. alive' = alive /\ phase \notin {"day_main"}
    BY <1>2 DEF QuietStep
  <2> QED BY <2>1 DEF SamePage, buildPublicState, state
<1>3. phase = "day_main" => DuskStep
  <2> SUFFICES ASSUME phase = "day_main" PROVE DuskStep
    OBVIOUS
  <2>1. PICK s : /\ Running(s) /\ s.alive = alive /\ s.phase = phase
                 /\ s.night_state = night_state /\ s.witchPotions = witchPotions
                 /\ Become(onPhaseTimeout(s))
    BY TimedOut
  <2>2. DuskFrom(s, onPhaseTimeout(s))
    BY <2>1, DuskOutcome DEF onPhaseTimeout, NightPhases
  <2> QED BY <2>1, <2>2, DuskStepOf
<1> QED
  BY <1>1, <1>2, <1>3, TimeoutStep, DuskMovesOn

\* The witch's phase is the last of the night.
LEMMA WitchIsLast ==
  ASSUME NEW s, Running(s), s.phase = "night_witch"
  PROVE  advanceToNextNightPhase(s).phase # "night_witch"
<1>1. Rank[s.phase] = 4
  BY DEF Rank
<1> QED
  BY <1>1, WakeOutcome DEF advanceToNextNightPhase, Buried

LEMMA TimeoutEndsTheNight ==
  ASSUME IInv, NEW t, PhaseTimeout(t), phase = "night_witch"
  PROVE  phase' # "night_witch"
<1>1. PICK s : Running(s) /\ s.phase = phase /\ Become(onPhaseTimeout(s))
  BY TimedOut
<1>2. onPhaseTimeout(s) = advanceToNextNightPhase(s)
  BY <1>1 DEF onPhaseTimeout, NightPhases
<1>3. phase' = advanceToNextNightPhase(s).phase
  BY <1>1, <1>2 DEF Become
<1> QED
  BY <1>1, <1>3, WitchIsLast

\* What the witch was told of stands, and nobody is woken.
SameBriefing ==
  witchView' = witchView /\ witchPotions' = witchPotions /\ alive' \subseteq alive

LEMMA VoteIsShown ==
  ASSUME IInv, NEW voter \in Players, NEW choice \in PlayerOrNone, submitVote(voter, choice),
         phase' = phase
  PROVE  SamePage([state EXCEPT !.votes[voter] = choice], state')
<1> DEFINE s == [state EXCEPT !.votes[voter] = choice]
<1>1. phase = "day_main" /\ Running(state)
  BY InPlay DEF submitVote, CanVote, TimedPhases
<1>2. /\ Running(s) /\ s.alive = alive /\ s.phase = phase
      /\ s.night_state = night_state /\ s.witchPotions = witchPotions
  BY <1>1 DEF Running, EngineState, Ballots, PlayerOrNone, state
<1>3. Become(tryAutoSkipDayVote(s))
  BY DEF submitVote
<1> HIDE DEF s
<1>4. tryAutoSkipDayVote(s) = s
  <2>1. ~DuskFrom(s, tryAutoSkipDayVote(s))
    BY <1>1, <1>2, <1>3, DuskStepOf, DuskMovesOn
  <2> QED BY <1>2, <2>1, AutoSkipOutcome
<1>5. alive' = s.alive /\ phase' = s.phase /\ votes' = s.votes
  BY <1>3, <1>4 DEF Become
<1> QED
  BY <1>5 DEF SamePage, buildPublicState, state, s

LEMMA DepartureIsShown ==
  ASSUME IInv, NEW p \in Players, handlePlayerLeft(p), phase' = phase
  PROVE  LET gone == [state EXCEPT !.alive = @ \ {p}, !.votes[p] = Undecided]
         IN  /\ checkWinner(gone) = "none" /\ SamePage(gone, state')
             /\ phase = "night_witch" => SameBriefing
<1> DEFINE gone == [state EXCEPT !.alive = @ \ {p}, !.votes[p] = Undecided]
           ballots == [night_state.wolfVotes EXCEPT ![p] = Undecided]
           n == Counted(ballots)
           left == [state EXCEPT !.alive = @ \ {p},
                                 !.votes[p] = Undecided,
                                 !.night_state.wolfVotes = ballots,
                                 !.night_state.wolfKillTargetId = recomputeWolfTarget(ballots)]
           next == IF phase = "day_main" THEN tryAutoSkipDayVote(left) ELSE tryAdvancePhase(left)
<1>1. live /\ phase \in TimedPhases /\ p \in alive
  BY DEF handlePlayerLeft, IInv, TypeOK, EngineState, state, Phases
<1>2. state \in EngineState /\ Running(state)
  BY <1>1, InPlay
<1>3. night_state \in NightState /\ votes \in Ballots /\ ballots \in Ballots
  BY <1>2 DEF EngineState, NightState, Ballots, state
<1>4. gone.alive = alive \ {p} /\ gone.phase = phase /\ gone.votes = [votes EXCEPT ![p] = Undecided]
  BY <1>2 DEF EngineState, state
<1>5. left = [state EXCEPT !.alive = alive \ {p}, !.votes = [votes EXCEPT ![p] = Undecided],
                           !.night_state = n]
  <2> HIDE DEF ballots
  <2> QED BY <1>2 DEF Counted, EngineState, state
<1>6. n \in NightState
  <2> HIDE DEF ballots
  <2> QED BY <1>3, CountedFields
<1>7. Become(EndOr(left, next))
  BY DEF handlePlayerLeft
<1> HIDE DEF gone, n, ballots
<1>8. /\ left \in EngineState /\ Running(left) /\ left.alive = alive \ {p}
      /\ left.phase = phase /\ left.night_state = n
      /\ left.witchPotions = witchPotions /\ left.votes = [votes EXCEPT ![p] = Undecided]
      /\ left.witchView = witchView
  BY <1>1, <1>2, <1>3, <1>5, <1>6 DEF Running, EngineState, Ballots, state
<1> HIDE DEF left
<1>9. checkWinner(left) = checkWinner(gone)
  BY <1>4, <1>8, VerdictOfTheLiving
<1>10. checkWinner(left) = "none"
  <2> SUFFICES ASSUME checkWinner(left) # "none" PROVE FALSE
    OBVIOUS
  <2>1. EndOr(left, next) = endGame(left, checkWinner(left)) /\ checkWinner(left) \in {"village", "wolves"}
    BY VerdictType DEF EndOr
  <2>2. EndOr(left, next).phase = "ended"
    BY <1>8, <2>1, EndGameFields
  <2>3. phase' = EndOr(left, next).phase
    BY <1>7 DEF Become
  <2> QED BY <1>1, <2>2, <2>3 DEF TimedPhases, NightPhases
<1>11. /\ phase' = next.phase /\ alive' = next.alive /\ votes' = next.votes
       /\ witchView' = next.witchView /\ witchPotions' = next.witchPotions
  BY <1>7, <1>10 DEF Become, EndOr
<1>12. CASE phase \in NightPhases
  <2>1. phase = "night_witch" => SameBriefing
    <3> SUFFICES ASSUME phase = "night_witch" PROVE SameBriefing
      OBVIOUS
    <3>1. next = left \/ next = advanceToNextNightPhase(left)
      BY DEF tryAdvancePhase
    <3>2. advanceToNextNightPhase(left).phase # "night_witch"
      BY <1>8, WitchIsLast
    <3> QED BY <1>8, <1>11, <3>1, <3>2 DEF SameBriefing
  <2>2. next = tryAdvancePhase(left)
    BY <1>12 DEF NightPhases
  <2>3. NightFrom(left, next)
    BY <1>8, <1>12, <2>2, AdvanceOutcome
  <2> HIDE DEF next
  <2>4. next.alive = alive \ {p}
    BY <1>8, <1>11, <1>12, <2>3 DEF NightFrom, GoesOn, Buried, NightPhases
  <2> QED
    BY <1>4, <1>9, <1>10, <1>11, <1>12, <2>1, <2>4
    DEF SamePage, buildPublicState, NightPhases, state, gone
<1>13. CASE next = left
  BY <1>4, <1>8, <1>9, <1>10, <1>11, <1>13 DEF SamePage, SameBriefing, buildPublicState, state, gone
<1>14. CASE phase = "day_main" /\ DuskFrom(left, next)
  BY <1>11, <1>14 DEF DuskFrom, Buried, NightPhases
<1>15. phase = "day_reveal" => next = left
  BY <1>8 DEF tryAdvancePhase, NightPhases
<1>16. phase = "day_main" => next = left \/ DuskFrom(left, next)
  BY <1>8, AutoSkipOutcome
<1> QED
  BY <1>1, <1>12, <1>13, <1>14, <1>15, <1>16 DEF TimedPhases

-------------------------------------------------------------------------------
(***************************************************************************)
(* The messages on their way to a page.                                    *)
(***************************************************************************)
\* The last of the kind K among the messages w is m; there is none.
LastOf(K, w, m) ==
  \E i \in 1 .. Len(w) : w[i] = m /\ \A j \in 1 .. Len(w) : j > i => w[j] \notin K
NoneOf(K, w) == \A i \in 1 .. Len(w) : w[i] \notin K

LEMMA Concatenated ==
  ASSUME NEW S, NEW w \in Seq(S), NEW u \in Seq(S), NEW x, x = w \o u
  PROVE  /\ x \in Seq(S) /\ Len(w) \in Nat /\ Len(u) \in Nat /\ Len(x) = Len(w) + Len(u)
         /\ \A i \in 1 .. Len(w) : i \in 1 .. Len(x) /\ x[i] = w[i]
         /\ \A i \in 1 .. Len(u) : Len(w) + i \in 1 .. Len(x) /\ x[Len(w) + i] = u[i]
         /\ \A j \in 1 .. Len(x) : \/ j \in 1 .. Len(w) /\ x[j] = w[j]
                                   \/ \E i \in 1 .. Len(u) : j = Len(w) + i /\ x[j] = u[i]
<1>1. /\ x \in Seq(S) /\ Len(x) = Len(w) + Len(u)
      /\ \A i \in 1 .. Len(w) + Len(u) : x[i] = IF i <= Len(w) THEN w[i] ELSE u[i - Len(w)]
      /\ Len(w) \in Nat /\ Len(u) \in Nat
  BY ConcatProperties, LenProperties
<1>2. \A i \in 1 .. Len(w) : i \in 1 .. Len(x) /\ x[i] = w[i]
  BY <1>1
<1>3. ASSUME NEW i \in 1 .. Len(u) PROVE Len(w) + i \in 1 .. Len(x) /\ x[Len(w) + i] = u[i]
  <2>1. /\ Len(w) + i \in 1 .. Len(w) + Len(u) /\ ~(Len(w) + i <= Len(w))
        /\ Len(w) + i - Len(w) = i
    BY <1>1
  <2> QED BY <1>1, <2>1
<1>4. ASSUME NEW j \in 1 .. Len(x), j \notin 1 .. Len(w)
      PROVE  \E i \in 1 .. Len(u) : j = Len(w) + i /\ x[j] = u[i]
  <2>1. j - Len(w) \in 1 .. Len(u) /\ j = Len(w) + (j - Len(w)) /\ x[j] = u[j - Len(w)]
    BY <1>1, <1>4
  <2> QED BY <2>1
<1> QED
  BY <1>1, <1>2, <1>3, <1>4

LEMMA MoreMessages ==
  ASSUME NEW S, NEW w \in Seq(S), NEW u \in Seq(S), NEW K
  PROVE  /\ w \o u \in Seq(S)
         /\ NoneOf(K, w \o u) <=> NoneOf(K, w) /\ NoneOf(K, u)
         /\ \A m : LastOf(K, u, m) => LastOf(K, w \o u, m)
         /\ \A m : LastOf(K, w, m) /\ NoneOf(K, u) => LastOf(K, w \o u, m)
<1> DEFINE x == w \o u
<1> HIDE DEF x
<1>1. /\ x \in Seq(S) /\ Len(w) \in Nat /\ Len(u) \in Nat /\ Len(x) = Len(w) + Len(u)
      /\ \A i \in 1 .. Len(w) : i \in 1 .. Len(x) /\ x[i] = w[i]
      /\ \A i \in 1 .. Len(u) : Len(w) + i \in 1 .. Len(x) /\ x[Len(w) + i] = u[i]
      /\ \A j \in 1 .. Len(x) : \/ j \in 1 .. Len(w) /\ x[j] = w[j]
                                \/ \E i \in 1 .. Len(u) : j = Len(w) + i /\ x[j] = u[i]
  BY Concatenated DEF x
<1>2. NoneOf(K, x) <=> NoneOf(K, w) /\ NoneOf(K, u)
  <2>1. NoneOf(K, x) => NoneOf(K, w)
    BY <1>1 DEF NoneOf
  <2>2. NoneOf(K, x) => NoneOf(K, u)
    BY <1>1 DEF NoneOf
  <2>3. NoneOf(K, w) /\ NoneOf(K, u) => NoneOf(K, x)
    BY <1>1 DEF NoneOf
  <2> QED BY <2>1, <2>2, <2>3
<1>3. ASSUME NEW m, LastOf(K, u, m) PROVE LastOf(K, x, m)
  <2>1. PICK i \in 1 .. Len(u) : u[i] = m /\ \A j \in 1 .. Len(u) : j > i => u[j] \notin K
    BY <1>3 DEF LastOf
  <2>2. Len(w) + i \in 1 .. Len(x) /\ x[Len(w) + i] = m
    BY <1>1, <2>1
  <2>3. ASSUME NEW j \in 1 .. Len(x), j > Len(w) + i PROVE x[j] \notin K
    <3>1. j \notin 1 .. Len(w)
      BY <1>1, <2>3
    <3>2. PICK k \in 1 .. Len(u) : j = Len(w) + k /\ x[j] = u[k]
      BY <1>1, <3>1
    <3>3. k > i
      BY <1>1, <2>3, <3>2
    <3> QED BY <2>1, <3>2, <3>3
  <2> QED BY <2>2, <2>3 DEF LastOf
<1>4. ASSUME NEW m, LastOf(K, w, m), NoneOf(K, u) PROVE LastOf(K, x, m)
  <2>1. PICK i \in 1 .. Len(w) : w[i] = m /\ \A j \in 1 .. Len(w) : j > i => w[j] \notin K
    BY <1>4 DEF LastOf
  <2>2. i \in 1 .. Len(x) /\ x[i] = m
    BY <1>1, <2>1
  <2>3. \A j \in 1 .. Len(x) : j > i => x[j] \notin K
    BY <1>1, <1>4, <2>1 DEF NoneOf
  <2> QED BY <2>2, <2>3 DEF LastOf
<1> QED
  BY <1>1, <1>2, <1>3, <1>4 DEF x

LEMMA OneMessage ==
  ASSUME NEW S, NEW m \in S, NEW K
  PROVE  <<m>> \in Seq(S) /\ (NoneOf(K, <<m>>) <=> m \notin K) /\ LastOf(K, <<m>>, m)
<1> DEFINE w == <<m>>
<1>1. w \in Seq(S) /\ Len(w) = 1 /\ w[1] = m
  OBVIOUS
<1> HIDE DEF w
<1>2. 1 .. Len(w) = {1}
  BY <1>1
<1> QED
  BY <1>1, <1>2 DEF NoneOf, LastOf, w

LEMMA NoMessage ==
  ASSUME NEW S
  PROVE  /\ <<>> \in Seq(S)
         /\ \A K : NoneOf(K, <<>>) /\ \A m : ~LastOf(K, <<>>, m)
         /\ \A w \in Seq(S) : w \o <<>> = w
<1>1. \A K : NoneOf(K, <<>>) /\ \A m : ~LastOf(K, <<>>, m)
  BY DEF NoneOf, LastOf
<1>2. \A w \in Seq(S) : w \o <<>> = w
  BY ConcatEmptySeq
<1> QED
  BY <1>1, <1>2

\* The first message is received.
LEMMA FirstTaken ==
  ASSUME NEW S, NEW w \in Seq(S), w # <<>>, NEW K
  PROVE  /\ Head(w) \in S /\ Tail(w) \in Seq(S)
         /\ NoneOf(K, w) <=> Head(w) \notin K /\ NoneOf(K, Tail(w))
         /\ \A m : LastOf(K, w, m) => \/ LastOf(K, Tail(w), m)
                                      \/ Head(w) = m /\ NoneOf(K, Tail(w))
<1> DEFINE h == Head(w)
           u == Tail(w)
<1>1. /\ h \in S /\ u \in Seq(S) /\ h = w[1] /\ Len(u) = Len(w) - 1 /\ Len(w) \in Nat
      /\ 1 \in 1 .. Len(w)
      /\ \A i \in 1 .. Len(u) : u[i] = w[i + 1]
  BY HeadTailProperties, LenProperties, EmptySeq
<1> HIDE DEF h, u
<1>2. /\ \A j \in 1 .. Len(u) : j + 1 \in 1 .. Len(w) /\ u[j] = w[j + 1]
      /\ \A i \in 1 .. Len(w) : i # 1 => i - 1 \in 1 .. Len(u) /\ u[i - 1] = w[i]
  BY <1>1
<1>3. NoneOf(K, w) <=> h \notin K /\ NoneOf(K, u)
  <2>1. NoneOf(K, w) => h \notin K /\ NoneOf(K, u)
    BY <1>1, <1>2 DEF NoneOf
  <2>2. h \notin K /\ NoneOf(K, u) => NoneOf(K, w)
    BY <1>1, <1>2 DEF NoneOf
  <2> QED BY <2>1, <2>2
<1>4. ASSUME NEW m, LastOf(K, w, m) PROVE LastOf(K, u, m) \/ (h = m /\ NoneOf(K, u))
  <2>1. PICK i \in 1 .. Len(w) : w[i] = m /\ \A j \in 1 .. Len(w) : j > i => w[j] \notin K
    BY <1>4 DEF LastOf
  <2>2. CASE i = 1
    BY <1>1, <1>2, <2>1, <2>2 DEF NoneOf
  <2>3. CASE i # 1
    <3>1. i - 1 \in 1 .. Len(u) /\ u[i - 1] = m
      BY <1>2, <2>1, <2>3
    <3>2. \A j \in 1 .. Len(u) : j > i - 1 => u[j] \notin K
      BY <1>2, <2>1
    <3> QED BY <3>1, <3>2 DEF LastOf
  <2> QED BY <2>2, <2>3
<1> QED
  BY <1>1, <1>3, <1>4 DEF h, u

\* The messages that show the game, and those that say something of the night: its
\* results, and the states at which a page forgets them.
States == [kind : {"game:state"}, body : Shown]
Tellings ==
  [kind : {"game:night_result"}, body : Results]
    \cup {m \in States : m.body.phase \in {"day_reveal", "day_main", "lobby", "ended"}}

\* The last state among the messages w is v; there is none.
Speaks(w, v) == LastOf(States, w, [kind |-> "game:state", body |-> v])
Silent(w) == NoneOf(States, w)

\* A page that shows x will, with all of w received, show v, or be blank still.
Leads(w, x, v) == Speaks(w, v) \/ (Silent(w) /\ x \in {Blank.state, v})

\* One more state, behind which nothing but other messages.
LEMMA StateAdded ==
  ASSUME NEW S, NEW w \in Seq(S), NEW u \in Seq(S), NEW v, NEW x, Speaks(u, v)
  PROVE  w \o u \in Seq(S) /\ Leads(w \o u, x, v)
BY MoreMessages DEF Leads, Speaks

LEMMA OthersAdded ==
  ASSUME NEW S, NEW w \in Seq(S), NEW u \in Seq(S), NEW v, NEW x, Leads(w, x, v), Silent(u)
  PROVE  w \o u \in Seq(S) /\ Leads(w \o u, x, v)
BY MoreMessages DEF Leads, Speaks, Silent

LEMMA FirstReceived ==
  ASSUME NEW w \in Seq(Messages), w # <<>>, NEW x, NEW v, Leads(w, x, v)
  PROVE  Leads(Tail(w), IF Head(w).kind = "game:state" THEN Head(w).body ELSE x, v)
<1> DEFINE h == Head(w)
           u == Tail(w)
           g == [kind |-> "game:state", body |-> v]
<1>1. /\ h \in Messages /\ (Silent(w) <=> h \notin States /\ Silent(u))
      /\ Speaks(w, v) => Speaks(u, v) \/ (h = g /\ Silent(u))
  BY FirstTaken DEF Silent, Speaks
<1> HIDE DEF h, u
<1>2. h \notin States => h.kind # "game:state"
  BY <1>1 DEF Messages, States
<1> QED
  BY <1>1, <1>2 DEF Leads, h, u

-------------------------------------------------------------------------------
(***************************************************************************)
(* What is sent.                                                           *)
(***************************************************************************)
Screens ==
  [state : Shown \cup {Blank.state}, info : BOOLEAN, result : Results, seen : BOOLEAN,
   chosen : PlayerOrNone]

\* What is shown and on its way has the types the page expects; the tabs are in
\* line once each; and every page is on its way to the game as it is.
Wired   == wire \in [Tabs -> Seq(Messages)]
Screened == screen \in [Tabs -> Screens]
Asked   == request \in [Tabs -> Moves \cup {NoMove}]
InLine  == order \in Seq(Tabs) /\ IsInjective(order) /\ ToSet(order) = Tabs
OnTheWay ==
  phase # "lobby" => \A t \in Tabs : Leads(wire[t], screen[t].state, buildPublicState(state))

\* One of each player's pages knows the role and the game, or will.
Informed(t) ==
  /\ screen[t].info \/ ~NoneOf({MyInfo}, wire[t])
  /\ screen[t].state # Blank.state \/ ~Silent(wire[t])
Attended ==
  phase # "lobby" => \A p \in Range(PlayerOf) : \E t \in Tabs : PlayerOf[t] = p /\ Informed(t)

\* The last word the pages of the witch have of her night is what she was told of it,
\* unless they were loaded anew since.
Briefing == NightResult("witch_view", witchView, Potions(state))
Remembers(t) ==
  \/ LastOf(Tellings, wire[t], Briefing)
  \/ /\ NoneOf(Tellings, wire[t])
     /\ \/ screen[t].result = Briefing.body
        \/ t \in Reloaders /\ screen[t].result.type # "witch_view"
Briefed ==
  phase = "night_witch" =>
    \A t \in Tabs : PlayerOf[t] \in AliveAs(state, "witch") => Remembers(t)

Dealt == live /\ role \in Deals

ViewInv == IInv /\ Dealt /\ Wired /\ Screened /\ Asked /\ InLine /\ OnTheWay /\ Attended /\ Briefed
-------------------------------------------------------------------------------
LEMMA StateMessage ==
  ASSUME NEW s, s.phase \in Phases, s.alive \in SUBSET Players, s.votes \in Ballots
  PROVE  /\ GameState(s) \in States /\ GameState(s) \in Messages
         /\ GameState(s) = [kind |-> "game:state", body |-> buildPublicState(s)]
<1>1. NoBallots \in Ballots
  BY DEF NoBallots, Ballots
<1>2. buildPublicState(s) \in Shown
  BY <1>1 DEF buildPublicState, Shown
<1> QED
  BY <1>2 DEF GameState, States, Messages

\* A message to one player.
Personal(m) == m \in Messages /\ m \notin States

LEMMA ResultMessage ==
  ASSUME NEW type \in {"guard_ack", "wolf_ack", "seer_result", "no_op", "witch_view"},
         NEW target \in PlayerOrNone, NEW potions \in SUBSET {"heal", "poison"}
  PROVE  Personal(NightResult(type, target, potions))
<1>1. [type |-> type, target |-> target, potions |-> potions] \in Results
  BY DEF Results
<1> QED
  BY <1>1 DEF Personal, NightResult, Messages, States

LEMMA NothingOfNote == NoResult \in Results
BY DEF NoResult, Results, PlayerOrNone

LEMMA InfoMessage == Personal(MyInfo)
BY NothingOfNote DEF Personal, MyInfo, Messages, States

LEMMA PersonalWord ==
  ASSUME NEW m, Personal(m)
  PROVE  <<m>> \in Seq(Messages) /\ Silent(<<m>>)
BY OneMessage DEF Personal, Silent

LEMMA WitchWoken ==
  ASSUME TypeOK', NEW p
  PROVE  /\ Woken(p) \in Seq(Messages) /\ Silent(Woken(p))
         /\ NightResult("witch_view", witchView', Potions(state')) \in Messages
<1> DEFINE m == NightResult("witch_view", witchView', Potions(state'))
<1>1. Potions(state') \in SUBSET {"heal", "poison"} /\ witchView' \in PlayerOrNone
  BY DEF Potions, TypeOK, EngineState, state
<1>2. Personal(m)
  BY <1>1, ResultMessage
<1> HIDE DEF m
<1>3. <<m>> \in Seq(Messages) /\ Silent(<<m>>)
  BY <1>2, PersonalWord
<1> QED
  BY <1>2, <1>3, NoMessage DEF Woken, Silent, Personal, m

\* What the handler publishes itself (own) and what it leaves to the phase it enters
\* show the game as it is.
Covers(own) ==
  /\ own \in Seq(Messages)
  /\ phase' = phase =>
       \/ own = <<>> /\ phase # "lobby" /\ SamePage(state, state')
       \/ \E s : own = <<GameState(s)>> /\ GameState(s) \in Messages /\ SamePage(s, state')

\* It leaves the last word on the witch's night to the engine.
Spares(own, who) ==
  phase = "night_witch" /\ phase' = "night_witch" =>
    who = {} /\ NoneOf(Tellings, own) /\ SameBriefing

\* The first call of a game tells everybody his role.
Greets(who, answer) == phase = "lobby" => phase' # phase /\ who = Players /\ answer = MyInfo

LEMMA PublishedOf ==
  ASSUME TypeOK', NEW own \in Seq(Messages)
  PROVE  /\ Published(own) \in Seq(Messages)
         /\ phase' = phase => Published(own) = own
         /\ phase' # phase => /\ Speaks(Published(own), buildPublicState(state'))
                              /\ ~Silent(Published(own))
<1> DEFINE g == GameState(state')
           v == buildPublicState(state')
<1>1. g \in States /\ g \in Messages /\ g = [kind |-> "game:state", body |-> v]
  <2>1. state'.phase \in Phases /\ state'.alive \in SUBSET Players /\ state'.votes \in Ballots
    BY DEF TypeOK, EngineState, state
  <2> QED BY <2>1, StateMessage
<1>2. Published(own) = own \o IF phase' = phase THEN <<>> ELSE <<g>>
  BY DEF Published
<1> HIDE DEF g, v
<1>3. /\ <<g>> \in Seq(Messages) /\ LastOf(States, <<g>>, g) /\ ~NoneOf(States, <<g>>)
  BY <1>1, OneMessage
<1>4. /\ own \o <<g>> \in Seq(Messages) /\ LastOf(States, own \o <<g>>, g)
      /\ ~NoneOf(States, own \o <<g>>)
  BY <1>3, MoreMessages
<1>5. own \o <<>> = own
  BY NoMessage
<1> QED
  BY <1>1, <1>2, <1>4, <1>5 DEF Speaks, Silent, v

LEMMA PublishedCovers ==
  ASSUME TypeOK', OnTheWay, NEW own, Covers(own), NEW t \in Tabs, wire[t] \in Seq(Messages)
  PROVE  /\ wire[t] \o Published(own) \in Seq(Messages)
         /\ phase' # "lobby" =>
              Leads(wire[t] \o Published(own), screen[t].state, buildPublicState(state'))
<1> DEFINE v == buildPublicState(state')
           x == screen[t].state
           w == wire[t]
<1>1. /\ Published(own) \in Seq(Messages)
      /\ phase' = phase => Published(own) = own
      /\ phase' # phase => Speaks(Published(own), v)
  BY PublishedOf DEF Covers
<1> HIDE DEF v, x
<1>2. CASE phase' # phase
  BY <1>1, <1>2, StateAdded DEF v, x
<1>3. CASE phase' = phase
  <2>1. CASE own = <<>> /\ phase # "lobby" /\ SamePage(state, state')
    <3>1. Leads(w, x, v)
      BY <2>1 DEF OnTheWay, SamePage, v, x
    <3>2. w \o own = w
      BY <2>1, NoMessage
    <3> QED BY <1>1, <1>3, <3>1, <3>2 DEF v, x
  <2>2. CASE \E s : own = <<GameState(s)>> /\ GameState(s) \in Messages /\ SamePage(s, state')
    <3>1. PICK s : own = <<GameState(s)>> /\ GameState(s) \in Messages /\ SamePage(s, state')
      BY <2>2
    <3>2. GameState(s) = [kind |-> "game:state", body |-> v]
      BY <3>1 DEF GameState, SamePage, v
    <3>3. Speaks(own, v)
      BY <3>1, <3>2, OneMessage DEF Speaks
    <3>4. w \o own \in Seq(Messages) /\ Leads(w \o own, x, v)
      BY <1>1, <1>3, <3>3, StateAdded
    <3> QED BY <1>1, <1>3, <3>4 DEF v, x
  <2> QED BY <1>3, <2>1, <2>2 DEF Covers
<1> QED
  BY <1>2, <1>3

\* What a call adds to the messages on their way to a page: what is published, an
\* answer, and what the witch is told on waking.
Answer(t, who, answer) == IF PlayerOf[t] \in who THEN <<answer>> ELSE <<>>

LEMMA Letter ==
  ASSUME TypeOK', Wired, NEW own \in Seq(Messages),
         NEW who, NEW answer, Personal(answer) \/ who = {}, NEW t \in Tabs
  PROVE  /\ wire[t] \in Seq(Messages) /\ Published(own) \in Seq(Messages)
         /\ Answer(t, who, answer) \in Seq(Messages) /\ Silent(Answer(t, who, answer))
         /\ Woken(PlayerOf[t]) \in Seq(Messages) /\ Silent(Woken(PlayerOf[t]))
<1>1. wire[t] \in Seq(Messages) /\ Published(own) \in Seq(Messages)
  BY PublishedOf DEF Wired
<1>2. Answer(t, who, answer) \in Seq(Messages) /\ Silent(Answer(t, who, answer))
  BY PersonalWord, NoMessage DEF Silent, Answer
<1> QED
  BY <1>1, <1>2, WitchWoken

LEMMA Told ==
  ASSUME TypeOK', OnTheWay, Wired, NEW own, Covers(own),
         NEW who, NEW answer, Personal(answer) \/ who = {}, Tell(own, who, answer)
  PROVE  Wired' /\ OnTheWay' /\ screen' = screen /\ order' = order
<1>1. /\ DOMAIN wire' = Tabs /\ wire' = [t \in Tabs |-> wire'[t]]
      /\ screen' = screen /\ order' = order
  BY DEF Tell
<1>2. ASSUME NEW t \in Tabs
      PROVE  /\ wire'[t] \in Seq(Messages)
             /\ phase' # "lobby" => Leads(wire'[t], screen[t].state, buildPublicState(state'))
  <2> DEFINE x == screen[t].state
             v == buildPublicState(state')
             w == wire[t] \o Published(own)
             b == Answer(t, who, answer)
             c == Woken(PlayerOf[t])
  <2>1. w \in Seq(Messages) /\ (phase' # "lobby" => Leads(w, x, v))
    BY PublishedCovers DEF Wired
  <2>2. /\ b \in Seq(Messages) /\ c \in Seq(Messages) /\ Silent(b) /\ Silent(c)
        /\ wire'[t] = (w \o b) \o c
    <3>1. own \in Seq(Messages)
      BY DEF Covers
    <3>2. b \in Seq(Messages) /\ c \in Seq(Messages) /\ Silent(b) /\ Silent(c)
      BY <3>1, Letter
    <3>3. wire'[t] = (w \o b) \o c
      BY DEF Tell, Answer
    <3> QED BY <3>2, <3>3
  <2> HIDE DEF w, b, c, v, x
  <2>3. w \o b \in Seq(Messages) /\ (phase' # "lobby" => Leads(w \o b, x, v))
    BY <2>1, <2>2, MoreMessages, OthersAdded
  <2>4. (w \o b) \o c \in Seq(Messages) /\ (phase' # "lobby" => Leads((w \o b) \o c, x, v))
    BY <2>2, <2>3, MoreMessages, OthersAdded
  <2> QED BY <2>2, <2>4 DEF x, v
<1>3. Wired'
  BY <1>1, <1>2 DEF Wired
<1>4. OnTheWay'
  BY <1>1, <1>2 DEF OnTheWay
<1> QED
  BY <1>1, <1>3, <1>4

\* A page that knows, or will, still does after the call; the first call of a game
\* reaches them all.
LEMMA ToldInformed ==
  ASSUME TypeOK', Wired, NEW own \in Seq(Messages),
         NEW who, NEW answer, Personal(answer) \/ who = {}, Tell(own, who, answer),
         NEW t \in Tabs,
         Informed(t) \/ (phase' # phase /\ PlayerOf[t] \in who /\ answer = MyInfo)
  PROVE  Informed(t)'
<1> DEFINE w == wire[t]
           a == Published(own)
           b == Answer(t, who, answer)
           c == Woken(PlayerOf[t])
<1>1. /\ w \in Seq(Messages) /\ a \in Seq(Messages) /\ b \in Seq(Messages) /\ c \in Seq(Messages)
      /\ phase' # phase => ~Silent(a)
  BY Letter, PublishedOf
<1>2. wire'[t] = ((w \o a) \o b) \o c /\ screen' = screen
  BY DEF Tell, Answer
<1>3. PlayerOf[t] \in who /\ answer = MyInfo => ~NoneOf({MyInfo}, b)
  <2>1. MyInfo \in Messages
    BY InfoMessage DEF Personal
  <2>2. ~NoneOf({MyInfo}, <<MyInfo>>)
    BY <2>1, OneMessage
  <2> QED BY <2>2 DEF Answer
<1> HIDE DEF w, a, b, c
<1>4. ASSUME NEW K, NoneOf(K, wire'[t])
      PROVE  NoneOf(K, w) /\ NoneOf(K, a) /\ NoneOf(K, b)
  <2>1. (w \o a) \in Seq(Messages) /\ (w \o a) \o b \in Seq(Messages)
    BY <1>1, MoreMessages
  <2>2. NoneOf(K, ((w \o a) \o b) \o c)
    BY <1>2, <1>4
  <2>3. NoneOf(K, (w \o a) \o b)
    BY <1>1, <2>1, <2>2, MoreMessages
  <2>4. NoneOf(K, w \o a) /\ NoneOf(K, b)
    BY <1>1, <2>1, <2>3, MoreMessages
  <2> QED BY <1>1, <2>4, MoreMessages
<1>5. CASE Informed(t)
  BY <1>2, <1>4, <1>5 DEF Informed, Silent, w
<1>6. CASE phase' # phase /\ PlayerOf[t] \in who /\ answer = MyInfo
  BY <1>1, <1>3, <1>4, <1>6 DEF Informed, Silent
<1> QED
  BY <1>5, <1>6

\* The witch is told of the night when she is woken, and nothing more until she acts.
LEMMA ToldBriefed ==
  ASSUME TypeOK', Wired, Briefed, NEW own \in Seq(Messages), role' = role,
         NEW who, NEW answer, Personal(answer) \/ who = {}, Tell(own, who, answer),
         Spares(own, who)
  PROVE  Briefed'
<1> SUFFICES ASSUME phase' = "night_witch", NEW t \in Tabs, PlayerOf[t] \in AliveAs(state', "witch")
             PROVE  Remembers(t)'
  BY DEF Briefed, AliveAs
<1> DEFINE w == wire[t]
           a == Published(own)
           b == Answer(t, who, answer)
           c == Woken(PlayerOf[t])
<1>1. /\ w \in Seq(Messages) /\ a \in Seq(Messages) /\ b \in Seq(Messages) /\ c \in Seq(Messages)
  BY Letter
<1>2. wire'[t] = ((w \o a) \o b) \o c /\ screen' = screen
  BY DEF Tell, Answer
<1>3. CASE phase # "night_witch"
  <2> DEFINE m == NightResult("witch_view", witchView', Potions(state'))
  <2>1. c = <<m>>
    BY <1>3 DEF Woken
  <2>2. LastOf(Tellings, c, m)
    <3>1. m \in Messages
      BY WitchWoken
    <3> HIDE DEF m
    <3> QED BY <2>1, <3>1, OneMessage
  <2>3. Briefing' = m
    BY DEF Briefing, Potions
  <2> HIDE DEF w, a, b, c, m
  <2>4. (w \o a) \o b \in Seq(Messages)
    BY <1>1, MoreMessages
  <2>5. LastOf(Tellings, ((w \o a) \o b) \o c, m)
    BY <1>1, <2>2, <2>4, MoreMessages
  <2> QED BY <1>2, <2>3, <2>5 DEF Remembers
<1>4. CASE phase = "night_witch"
  <2>1. who = {} /\ NoneOf(Tellings, own) /\ SameBriefing
    BY <1>4 DEF Spares
  <2>2. a = own /\ b = <<>> /\ c = <<>>
    BY <1>4, <2>1, PublishedOf DEF Answer, Woken
  <2>3. Briefing' = Briefing
    BY <2>1 DEF Briefing, Potions, SameBriefing, state
  <2>4. PlayerOf[t] \in AliveAs(state, "witch")
    BY <2>1 DEF AliveAs, SameBriefing, state
  <2>5. Remembers(t)
    BY <1>4, <2>4 DEF Briefed
  <2> HIDE DEF w, a, b, c
  <2>6. wire'[t] = w \o own /\ w \o own \in Seq(Messages)
    BY <1>1, <1>2, <2>2, NoMessage, MoreMessages
  <2>7. /\ NoneOf(Tellings, w) => NoneOf(Tellings, w \o own)
        /\ \A m : LastOf(Tellings, w, m) => LastOf(Tellings, w \o own, m)
    BY <1>1, <2>1, MoreMessages
  <2> QED BY <1>2, <2>3, <2>5, <2>6, <2>7 DEF Remembers, w
<1> QED
  BY <1>3, <1>4

\* The fields of a move.
LEMMA MoveFields ==
  ASSUME NEW m \in Moves
  PROVE  /\ m.target \in PlayerOrNone
         /\ m.type \in {"guard_protect", "wolf_kill", "seer_check", "witch_poison"} =>
              m.target \in NightTargets
         /\ m.type = "vote" => m.target \in DayTargets \cup {None}
BY PlayersAssumption DEF Moves, Tried, PlayerOrNone

\* The steps of a game that the table goes on with.
Call == Next /\ role' = role /\ live' = live

LEMMA ActIsACall ==
  ASSUME NEW p \in Players, NEW m \in Moves, Act(p, m)
  PROVE  Call
<1>1. Next
  BY MoveFields DEF Act, Next
<1>2. role' = role /\ live' = live
  BY DEF Act, GuardProtect, WolfKill, WolfSkip, CastWolfVote, SeerCheck, WitchHeal, WitchPoison,
         WitchPass, submitVote, Become
<1> QED
  BY <1>1, <1>2 DEF Call

\* A move of the night changes the phase or nothing that a page is told.
LEMMA NightActsAreSilent ==
  ASSUME IInv, NEW p \in Players, NEW m \in Moves, m.type # "vote", Act(p, m), phase' = phase
  PROVE  SamePage(state, state')
<1> DEFINE q == m.target
<1>1. q \in PlayerOrNone
  BY MoveFields
<1>2. m.type \in {"guard_protect", "wolf_kill", "seer_check", "witch_poison"} => q \in Players
  BY MoveFields, InputsAssumption
<1>3. \E n, b : NightStep(n, b)
  <2>1. CASE m.type = "guard_protect" /\ GuardProtect(p, q)
    BY <1>2, <2>1, GuardProtectStep
  <2>2. CASE m.type = "wolf_kill" /\ WolfKill(p, q)
    BY <1>1, <2>2, CastWolfVoteStep DEF WolfKill, CanKill
  <2>3. CASE WolfSkip(p)
    BY <2>3, CastWolfVoteStep DEF WolfSkip, PlayerOrNone
  <2>4. CASE m.type = "seer_check" /\ SeerCheck(p, q)
    BY <1>2, <2>4, SeerCheckStep
  <2>5. CASE WitchHeal(p)
    BY <2>5, WitchHealStep DEF WitchStep
  <2>6. CASE m.type = "witch_poison" /\ WitchPoison(p, q)
    BY <1>2, <2>6, WitchPoisonStep DEF WitchStep
  <2>7. CASE WitchPass(p)
    BY <2>7, WitchPassStep DEF WitchStep
  <2> QED BY <2>1, <2>2, <2>3, <2>4, <2>5, <2>6, <2>7 DEF Act
<1> QED
  BY <1>3, NightIsSilent

-------------------------------------------------------------------------------
(***************************************************************************)
(* The calls of the engine, with what they send.                           *)
(***************************************************************************)
\* What an engine call leaves to the pages.
Delivered ==
  IInv' /\ Dealt' /\ Wired' /\ Screened' /\ InLine' /\ OnTheWay' /\ Attended' /\ Briefed'

LEMMA CallEnds ==
  ASSUME ViewInv, Call, NEW own, Covers(own),
         NEW who, NEW answer, Personal(answer) \/ who = {}, Tell(own, who, answer),
         Spares(own, who), Greets(who, answer)
  PROVE  Delivered
<1>1. IInv' /\ TypeOK'
  <2>1. IInv'
    BY StepInv DEF ViewInv, Call
  <2> QED BY <2>1 DEF IInv
<1>2. Wired' /\ OnTheWay' /\ screen' = screen /\ order' = order
  BY <1>1, Told DEF ViewInv
<1>3. own \in Seq(Messages)
  BY DEF Covers
<1>4. Briefed'
  BY <1>1, <1>3, ToldBriefed DEF ViewInv, Call
<1>5. Attended'
  <2> SUFFICES ASSUME NEW p \in Range(PlayerOf)
               PROVE  \E t \in Tabs : PlayerOf[t] = p /\ Informed(t)'
    BY DEF Attended
  <2>1. CASE phase # "lobby"
    <3>1. PICK t \in Tabs : PlayerOf[t] = p /\ Informed(t)
      BY <2>1 DEF ViewInv, Attended
    <3>2. Informed(t)'
      BY <1>1, <1>3, <3>1, ToldInformed DEF ViewInv
    <3> QED BY <3>1, <3>2
  <2>2. CASE phase = "lobby"
    <3>1. PICK t \in Tabs : PlayerOf[t] = p
      BY TabsAssumption DEF Range
    <3>2. phase' # phase /\ PlayerOf[t] \in who /\ answer = MyInfo
      BY <2>2, <3>1, TabsAssumption DEF Greets
    <3>3. Informed(t)'
      BY <1>1, <1>3, <3>2, ToldInformed DEF ViewInv
    <3> QED BY <3>1, <3>3
  <2> QED BY <2>1, <2>2
<1>6. Dealt'
  BY DEF ViewInv, Dealt, Call
<1> QED
  BY <1>1, <1>2, <1>4, <1>5, <1>6 DEF ViewInv, Delivered, Screened, InLine

LEMMA NothingPublished ==
  ASSUME phase' = phase => phase # "lobby" /\ SamePage(state, state')
  PROVE  Covers(<<>>)
BY NoMessage DEF Covers

\* In the witch's phase only she acts, and that ends it.
LEMMA WitchActsOnce ==
  ASSUME IInv, NEW p \in Players, NEW m \in Moves, Act(p, m), phase = "night_witch"
  PROVE  phase' # "night_witch"
<1>1. m.type = "witch_poison" => m.target \in Players
  BY MoveFields, InputsAssumption
<1>2. ASSUME NEW n, NEW b, WitchStep(n, b) PROVE phase' # "night_witch"
  BY <1>2 DEF WitchStep, Buried, state
<1>3. CASE WitchHeal(p)
  BY <1>2, <1>3, WitchHealStep
<1>4. CASE m.type = "witch_poison" /\ WitchPoison(p, m.target)
  BY <1>1, <1>2, <1>4, WitchPoisonStep
<1>5. CASE WitchPass(p)
  BY <1>2, <1>5, WitchPassStep
<1>6. /\ ~GuardProtect(p, m.target) /\ ~WolfKill(p, m.target) /\ ~WolfSkip(p)
      /\ ~SeerCheck(p, m.target) /\ ~submitVote(p, m.target)
  BY DEF GuardProtect, CanProtect, WolfKill, CanKill, WolfSkip, SeerCheck, CanCheck, submitVote,
         CanVote, MayAct
<1> QED
  BY <1>3, <1>4, <1>5, <1>6 DEF Act

LEMMA PerformStep ==
  ASSUME ViewInv, phase # "lobby", NEW p \in Players, NEW m \in Moves, Perform(p, m)
  PROVE  Delivered
<1>1. Act(p, m) /\ Call
  BY ActIsACall DEF Perform
<1>2. IInv' /\ night_state'.wolfKillTargetId \in PlayerOrNone
  <2>1. IInv'
    BY <1>1, StepInv DEF ViewInv, Call
  <2>2. TypeOK'
    BY <2>1 DEF IInv
  <2> QED BY <2>1, <2>2 DEF TypeOK, EngineState, NightState, state
<1>3. m.type # "vote" => Covers(<<>>)
  BY <1>1, NightActsAreSilent, NothingPublished DEF ViewInv
<1>4. \A own, who, answer : Spares(own, who) /\ Greets(who, answer)
  BY <1>1, WitchActsOnce DEF Spares, Greets, ViewInv
<1>5. \A type, target : (/\ type \in {"guard_ack", "wolf_ack", "seer_result", "no_op"}
                        /\ target \in PlayerOrNone) => Personal(NightResult(type, target, {}))
  BY ResultMessage
<1>6. ASSUME m.type # "vote", NEW who, NEW type \in {"guard_ack", "wolf_ack", "seer_result", "no_op"},
             NEW target \in PlayerOrNone, Tell(<<>>, who, NightResult(type, target, {}))
      PROVE  Delivered
  BY <1>1, <1>3, <1>4, <1>5, <1>6, CallEnds
<1>7. CASE m.type = "guard_protect" /\ Tell(<<>>, {p}, NightResult("guard_ack", None, {}))
  BY <1>6, <1>7 DEF PlayerOrNone
<1>8. CASE /\ m.type \in {"wolf_kill", "wolf_skip"}
           /\ Tell(<<>>, AliveAs(state, "werewolf"),
                   NightResult("wolf_ack", night_state'.wolfKillTargetId, {}))
  BY <1>2, <1>6, <1>8
<1>9. CASE m.type = "seer_check" /\ Tell(<<>>, {p}, NightResult("seer_result", m.target, {}))
  BY <1>6, <1>9, MoveFields
<1>10. CASE /\ m.type \in {"witch_heal", "witch_poison", "witch_pass"}
           /\ Tell(<<>>, {p}, NightResult("no_op", None, {}))
  BY <1>6, <1>10 DEF PlayerOrNone
<1>11. CASE m.type = "vote" /\ Tell(<<GameState([state EXCEPT !.votes[p] = m.target])>>, {}, NoResult)
  <2> DEFINE s == [state EXCEPT !.votes[p] = m.target]
  <2>1. submitVote(p, m.target) /\ m.target \in PlayerOrNone
    BY <1>1, <1>11, MoveFields DEF Act
  <2>2. phase' = phase => SamePage(s, state')
    BY <2>1, VoteIsShown DEF ViewInv
  <2>3. GameState(s) \in Messages
    <3>1. state \in EngineState
      BY DEF ViewInv, IInv, TypeOK
    <3>2. s.phase \in Phases /\ s.alive \in SUBSET Players /\ s.votes \in Ballots
      BY <2>1, <3>1 DEF EngineState, Ballots, PlayerOrNone
    <3> HIDE DEF s
    <3> QED BY <3>2, StateMessage
  <2> HIDE DEF s
  <2>4. Covers(<<GameState(s)>>)
    BY <2>2, <2>3, OneMessage DEF Covers
  <2>5. Tell(<<GameState(s)>>, {}, NoResult)
    BY <1>11 DEF s
  <2> QED BY <1>1, <1>4, <2>4, <2>5, CallEnds
<1> QED
  BY <1>7, <1>8, <1>9, <1>10, <1>11 DEF Perform

LEMMA GameBeginsStep ==
  ASSUME ViewInv, GameBegins
  PROVE  Delivered /\ Asked'
<1>1. Start /\ Call /\ Tell(<<>>, Players, MyInfo) /\ request' = request
  BY DEF GameBegins, Call, Next, Start, Become
<1>2. phase' # phase
  <2>1. StartStep
    BY <1>1, StartOutcome DEF ViewInv
  <2> QED BY <2>1 DEF StartStep, GoesOn, NightPhases, state
<1>3. Covers(<<>>)
  BY <1>2, NothingPublished
<1>4. phase = "lobby" /\ Spares(<<>>, Players) /\ Greets(Players, MyInfo)
  BY <1>1, <1>2 DEF Start, Spares, Greets
<1>5. Delivered
  BY <1>1, <1>3, <1>4, InfoMessage, CallEnds
<1> QED
  BY <1>1, <1>5 DEF ViewInv, Asked

LEMMA TimeRunsOutStep ==
  ASSUME ViewInv, TimeRunsOut
  PROVE  Delivered /\ Asked'
<1>1. PICK t \in TimedPhases : PhaseTimeout(t)
  BY DEF TimeRunsOut
<1>2. Call /\ Tell(<<>>, {}, NoResult) /\ request' = request
  BY <1>1 DEF TimeRunsOut, Call, Next, PhaseTimeout, Become
<1>3. phase # "lobby"
  BY <1>1 DEF ViewInv, IInv, PhaseTimeout, Timed, TimedPhases, NightPhases, state
<1>4. Covers(<<>>)
  BY <1>1, <1>3, TimeoutIsSilent, NothingPublished DEF ViewInv
<1>5. Spares(<<>>, {}) /\ Greets({}, NoResult)
  BY <1>1, <1>3, TimeoutEndsTheNight DEF ViewInv, Spares, Greets
<1>6. Delivered
  BY <1>2, <1>4, <1>5, CallEnds
<1> QED
  BY <1>2, <1>6 DEF ViewInv, Asked

LEMMA DepartStep ==
  ASSUME ViewInv, NEW p \in Quitters, Depart(p)
  PROVE  Delivered /\ Asked'
<1> DEFINE gone == [state EXCEPT !.alive = @ \ {p}, !.votes[p] = Undecided]
<1>1. /\ handlePlayerLeft(p) /\ Call /\ Tell(Departure(p), {}, NoResult) /\ request' = request
      /\ p \in Players
  BY InputsAssumption DEF Depart, Call, Next, handlePlayerLeft, Become
<1>2. GameState(gone) \in Messages
  <2>1. state \in EngineState
    BY DEF ViewInv, IInv, TypeOK
  <2>2. gone.phase \in Phases /\ gone.alive \in SUBSET Players /\ gone.votes \in Ballots
    BY <2>1 DEF EngineState, Ballots
  <2> HIDE DEF gone
  <2> QED BY <2>2, StateMessage
<1>3. phase' = phase => /\ checkWinner(gone) = "none" /\ SamePage(gone, state')
                        /\ phase = "night_witch" => SameBriefing
  BY <1>1, DepartureIsShown DEF ViewInv
<1>4. Departure(p) = IF checkWinner(gone) = "none" THEN <<GameState(gone)>> ELSE <<>>
  BY DEF Departure
<1>5. phase = "night_witch" => GameState(gone) \notin Tellings
  BY DEF GameState, buildPublicState, Tellings, States, state
<1> HIDE DEF gone
<1>6. Departure(p) \in Seq(Messages)
  BY <1>2, <1>4, OneMessage, NoMessage
<1>7. Covers(Departure(p))
  BY <1>2, <1>3, <1>4, <1>6 DEF Covers
<1>8. Spares(Departure(p), {}) /\ Greets({}, NoResult)
  BY <1>1, <1>2, <1>3, <1>4, <1>5, OneMessage, NoMessage DEF Spares, Greets, handlePlayerLeft
<1>9. Delivered
  BY <1>1, <1>7, <1>8, CallEnds
<1> QED
  BY <1>1, <1>9 DEF ViewInv, Asked

LEMMA NewGameStep ==
  ASSUME ViewInv, NewGame
  PROVE  Delivered /\ Asked'
<1>1. Init'
  BY DEF NewGame, Init, ViewInv, IInv, TypeOK
<1>2. IInv'
  BY <1>1, InitInv, PTL
<1>3. UNCHANGED viewVars /\ phase' = "lobby" /\ Dealt'
  BY DEF NewGame, Dealt
<1> QED
  BY <1>2, <1>3
  DEF Delivered, ViewInv, viewVars, Wired, Screened, Asked, InLine, OnTheWay, Attended, Briefed

-------------------------------------------------------------------------------
(***************************************************************************)
(* The pages.                                                              *)
(***************************************************************************)
LEMMA BlankPage == Blank \in Screens
BY NothingOfNote DEF Blank, Screens, Shown, NoBallots, Ballots, PlayerOrNone

LEMMA PageReceives ==
  ASSUME NEW p, NEW scr \in Screens, NEW m \in Messages
  PROVE  LET next == Received(p, scr, m)
         IN  /\ next \in Screens
             /\ next.state = IF m.kind = "game:state" THEN m.body ELSE scr.state
             /\ next.info = (scr.info \/ m.kind = "game:my_info")
             /\ next.result = IF m.kind = "game:night_result" THEN m.body
                              ELSE IF m \in Tellings THEN NoResult ELSE scr.result
<1> DEFINE next == CASE m.kind = "game:state" -> onGameState(scr, m.body)
                     [] m.kind = "game:my_info" -> [scr EXCEPT !.info = TRUE]
                     [] m.kind = "game:night_result" -> [scr EXCEPT !.result = m.body, !.seen = FALSE]
<1>1. /\ next \in Screens
      /\ next.state = IF m.kind = "game:state" THEN m.body ELSE scr.state
      /\ next.info = (scr.info \/ m.kind = "game:my_info")
      /\ next.result = IF m.kind = "game:night_result" THEN m.body
                       ELSE IF m \in Tellings THEN NoResult ELSE scr.result
  <2>1. CASE m.kind = "game:state"
    <3>1. m.body \in Shown /\ m \in States /\ next = onGameState(scr, m.body)
      BY <2>1 DEF Messages, States
    <3>2. m \in Tellings <=> m.body.phase \in {"day_reveal", "day_main", "lobby", "ended"}
      BY <2>1, <3>1 DEF Tellings
    <3> QED BY <2>1, <3>1, <3>2, NothingOfNote DEF onGameState, Screens
  <2>2. CASE m.kind = "game:my_info"
    <3>1. next = [scr EXCEPT !.info = TRUE] /\ m \notin Tellings
      BY <2>2 DEF Tellings, States
    <3> QED BY <2>2, <3>1 DEF Screens
  <2>3. CASE m.kind = "game:night_result"
    <3>1. m.body \in Results /\ next = [scr EXCEPT !.result = m.body, !.seen = FALSE]
      BY <2>3 DEF Messages
    <3> QED BY <2>3, <3>1 DEF Screens
  <2> QED BY <2>1, <2>2, <2>3 DEF Messages
<1>2. Received(p, scr, m) =
        [next EXCEPT !.seen = @ \/ Panel(p, next) = "seer_result",
                     !.chosen = IF Holder(p, next) = Holder(p, scr) THEN @ ELSE None]
  BY DEF Received
<1> HIDE DEF next
<1>3. (IF Holder(p, next) = Holder(p, scr) THEN next.chosen ELSE None) \in PlayerOrNone
  BY <1>1 DEF Screens, PlayerOrNone
<1> QED
  BY <1>1, <1>2, <1>3 DEF Screens

LEMMA DeliverStep ==
  ASSUME ViewInv, NEW t \in Tabs, Deliver(t)
  PROVE  Wired' /\ Screened' /\ OnTheWay' /\ Attended' /\ Briefed'
<1> DEFINE h == Head(wire[t])
           v == buildPublicState(state)
           scr == screen[t]
           next == Received(PlayerOf[t], scr, h)
<1>1. /\ wire[t] \in Seq(Messages) /\ wire[t] # <<>> /\ scr \in Screens
      /\ wire' = [wire EXCEPT ![t] = Tail(wire[t])] /\ screen' = [screen EXCEPT ![t] = next]
      /\ UNCHANGED vars /\ state' = state /\ phase' = phase
  BY DEF ViewInv, Wired, Screened, Deliver, vars, state
<1>2. /\ h \in Messages /\ Tail(wire[t]) \in Seq(Messages)
      /\ \A K : NoneOf(K, wire[t]) <=> h \notin K /\ NoneOf(K, Tail(wire[t]))
      /\ \A K, m : LastOf(K, wire[t], m) => \/ LastOf(K, Tail(wire[t]), m)
                                            \/ h = m /\ NoneOf(K, Tail(wire[t]))
  BY <1>1, FirstTaken
<1>3. /\ next \in Screens /\ next.state = IF h.kind = "game:state" THEN h.body ELSE scr.state
      /\ next.info = (scr.info \/ h.kind = "game:my_info")
      /\ next.result = IF h.kind = "game:night_result" THEN h.body
                       ELSE IF h \in Tellings THEN NoResult ELSE scr.result
  BY <1>1, <1>2, PageReceives
<1>4. phase # "lobby" => Leads(Tail(wire[t]), next.state, v)
  <2> SUFFICES ASSUME phase # "lobby" PROVE Leads(Tail(wire[t]), next.state, v)
    OBVIOUS
  <2>1. Leads(wire[t], scr.state, v)
    BY DEF ViewInv, OnTheWay
  <2> HIDE DEF v, next
  <2>2. Leads(Tail(wire[t]), IF h.kind = "game:state" THEN h.body ELSE scr.state, v)
    BY <1>1, <2>1, FirstReceived
  <2> QED BY <1>3, <2>2
<1> HIDE DEF next, h
<1>5. Wired' /\ Screened'
  BY <1>1, <1>2, <1>3 DEF ViewInv, Wired, Screened
<1>6. /\ wire'[t] = Tail(wire[t]) /\ screen'[t] = next
      /\ \A u \in Tabs \ {t} : wire'[u] = wire[u] /\ screen'[u] = screen[u]
  BY <1>1 DEF ViewInv, Wired, Screened
<1>7. OnTheWay'
  <2> SUFFICES ASSUME phase # "lobby", NEW u \in Tabs PROVE Leads(wire'[u], screen'[u].state, v)
    BY <1>1 DEF OnTheWay
  <2>1. CASE u = t
    BY <1>4, <1>6, <2>1
  <2>2. CASE u # t
    BY <1>6, <2>2 DEF ViewInv, OnTheWay
  <2> QED BY <2>1, <2>2
<1>8. ASSUME NEW u \in Tabs, Informed(u) PROVE Informed(u)'
  <2>1. CASE u = t
    <3>1. scr.info \/ h = MyInfo \/ ~NoneOf({MyInfo}, wire'[t])
      <4> DEFINE K == {MyInfo}
      <4>1. scr.info \/ ~NoneOf(K, wire[t])
        BY <1>8, <2>1 DEF Informed
      <4>2. h \in K => h = MyInfo
        OBVIOUS
      <4> HIDE DEF K
      <4>3. scr.info \/ h = MyInfo \/ ~NoneOf(K, wire'[t])
        BY <1>2, <1>6, <4>1, <4>2
      <4> QED BY <4>3 DEF K
    <3>2. screen'[t].info \/ ~NoneOf({MyInfo}, wire'[t])
      <4>1. h = MyInfo => h.kind = "game:my_info"
        BY DEF MyInfo
      <4>2. scr.info \/ h = MyInfo => screen'[t].info
        BY <1>3, <1>6, <4>1, Zenon
      <4> QED BY <3>1, <4>2
    <3>3. scr.state # Blank.state \/ h \in States \/ ~Silent(wire'[t])
      BY <1>2, <1>6, <1>8, <2>1 DEF Informed, Silent
    <3>4. screen'[t].state # Blank.state \/ ~Silent(wire'[t])
      <4>1. h.kind = "game:state" => h.body \in Shown
        BY <1>2 DEF Messages
      <4>2. Blank.state \notin Shown
        BY DEF Blank, Shown, Phases, TimedPhases, NightPhases
      <4>3. h \in States => h.kind = "game:state"
        BY DEF States
      <4> QED BY <1>3, <1>6, <3>3, <4>1, <4>2, <4>3
    <3> QED BY <2>1, <3>2, <3>4 DEF Informed
  <2>2. CASE u # t
    BY <1>6, <1>8, <2>2 DEF Informed
  <2> QED BY <2>1, <2>2
<1>9. Attended'
  BY <1>1, <1>8 DEF ViewInv, Attended
<1>10. Briefed'
  <2> SUFFICES ASSUME phase = "night_witch", NEW u \in Tabs, PlayerOf[u] \in AliveAs(state, "witch")
               PROVE  Remembers(u)'
    BY <1>1 DEF Briefed, AliveAs, vars
  <2>1. Remembers(u)
    BY DEF ViewInv, Briefed
  <2>2. Briefing' = Briefing /\ Briefing.kind = "game:night_result"
    BY <1>1 DEF Briefing, NightResult, Potions, vars
  <2>3. CASE u = t
    <3>1. LastOf(Tellings, wire[t], Briefing) =>
            \/ LastOf(Tellings, wire'[t], Briefing)
            \/ NoneOf(Tellings, wire'[t]) /\ screen'[t].result = Briefing.body
      BY <1>2, <1>3, <1>6, <2>2
    <3>2. NoneOf(Tellings, wire[t]) =>
            NoneOf(Tellings, wire'[t]) /\ screen'[t].result = screen[t].result
      <4>1. h.kind = "game:night_result" => h \in Tellings
        BY <1>2 DEF Messages, Tellings
      <4> QED BY <1>2, <1>3, <1>6, <4>1
    <3> QED BY <2>1, <2>2, <2>3, <3>1, <3>2 DEF Remembers
  <2>4. CASE u # t
    BY <1>6, <2>1, <2>2, <2>4 DEF Remembers
  <2> QED BY <2>3, <2>4
<1> QED
  BY <1>5, <1>7, <1>9, <1>10

\* Whatever the page shows, its buttons make moves.
LEMMA OffersAreMoves ==
  ASSUME NEW p, NEW scr \in Screens, NEW m \in Offers(p, scr), Tried(m)
  PROVE  m \in Moves
<1> DEFINE Targeted == [type : {"guard_protect", "wolf_kill", "seer_check", "witch_poison", "vote"},
                        target : Players]
           Bare == [type : {"wolf_skip", "witch_heal", "witch_pass", "vote"}, target : {None}]
<1>1. aliveOthers(p, scr) \subseteq Players
  BY DEF aliveOthers, Screens, Shown, Blank
<1>2. ASSUME NEW type \in {"guard_protect", "wolf_kill", "seer_check", "witch_poison"}
      PROVE  Confirm(type, scr) \subseteq Targeted
  <2>1. scr.chosen # None => scr.chosen \in Players
    BY DEF Screens, PlayerOrNone
  <2> QED BY <2>1 DEF Confirm
<1>3. ASSUME NEW type \in {"wolf_skip", "witch_heal", "witch_pass", "vote"}
      PROVE  Button(type) \subseteq Bare
  BY DEF Button
<1>4. VotePanel(p, scr) \subseteq Targeted \cup Bare
  <2>1. \A a \in [type : {"vote"}, target : (aliveOthers(p, scr) \cup {None}) \ {scr.state.votes[p]}] :
          a \in Targeted \cup Bare
    BY <1>1
  <2> QED BY <1>3, <2>1 DEF VotePanel
<1> HIDE DEF Targeted, Bare
<1>5. Offers(p, scr) \subseteq Targeted \cup Bare
  <2> DEFINE panel == Panel(p, scr)
  <2>1. CASE panel = "guard"
    BY <1>2, <2>1 DEF Offers
  <2>2. CASE panel = "werewolf"
    BY <1>2, <1>3, <2>2 DEF Offers
  <2>3. CASE panel = "seer"
    BY <1>2, <2>3 DEF Offers
  <2>4. CASE panel = "witch"
    <3>1. Offers(p, scr) \subseteq
            Button("witch_pass") \cup Confirm("witch_poison", scr) \cup Button("witch_heal")
      BY <2>4 DEF Offers
    <3> QED BY <1>2, <1>3, <3>1
  <2>5. CASE panel = "vote"
    BY <1>4, <2>5 DEF Offers
  <2>6. CASE panel \notin {"guard", "werewolf", "seer", "witch", "vote"}
    BY <2>6 DEF Offers
  <2> QED BY <2>1, <2>2, <2>3, <2>4, <2>5, <2>6
<1> QED
  BY <1>5 DEF Moves, Targeted, Bare

LEMMA ClickStep ==
  ASSUME ViewInv, NEW t \in Tabs, Click(t)
  PROVE  Asked'
<1>1. PICK m \in {m \in Offers(PlayerOf[t], screen[t]) : Tried(m)} :
        request' = [request EXCEPT ![t] = m]
  BY DEF Click
<1>2. screen[t] \in Screens
  BY DEF ViewInv, Screened
<1>3. m \in Moves
  BY <1>1, <1>2, OffersAreMoves
<1> QED
  BY <1>1, <1>3 DEF ViewInv, Asked

LEMMA SamePages ==
  ASSUME ViewInv, UNCHANGED <<vars, wire, screen>>
  PROVE  IInv' /\ Dealt' /\ Wired' /\ Screened' /\ OnTheWay' /\ Attended' /\ Briefed'
<1>1. IInv'
  BY StutterInv DEF ViewInv
<1>2. wire' = wire /\ screen' = screen /\ state' = state /\ phase' = phase
  BY DEF vars, state
<1>3. OnTheWay' /\ Dealt'
  BY <1>2 DEF ViewInv, OnTheWay, Dealt, vars
<1>4. Briefing' = Briefing /\ AliveAs(state, "witch")' = AliveAs(state, "witch")
  BY <1>2 DEF Briefing, NightResult, Potions, AliveAs, vars
<1>5. \A t \in Tabs : (Informed(t)' <=> Informed(t)) /\ (Remembers(t)' <=> Remembers(t))
  BY <1>2, <1>4 DEF Informed, Remembers
<1>6. Attended' /\ Briefed'
  BY <1>2, <1>4, <1>5 DEF ViewInv, Attended, Briefed
<1> QED
  BY <1>1, <1>2, <1>3, <1>6 DEF ViewInv, Wired, Screened

\* A click on a target leaves what the page shows as it was.
LEMMA ChooseStep ==
  ASSUME ViewInv, NEW t \in Tabs, Choose(t)
  PROVE  IInv' /\ Dealt' /\ Wired' /\ Screened' /\ OnTheWay' /\ Attended' /\ Briefed'
<1>1. PICK q \in NightTargets \cup {None} : screen' = [screen EXCEPT ![t].chosen = q]
  BY DEF Choose
<1>2. UNCHANGED <<vars, wire>>
  BY DEF Choose
<1>3. IInv' /\ state' = state /\ phase' = phase
  BY <1>2, StutterInv DEF ViewInv, vars, state
<1>4. \A u \in Tabs : /\ screen'[u] \in Screens
                      /\ screen'[u].state = screen[u].state /\ screen'[u].info = screen[u].info
                      /\ screen'[u].result = screen[u].result
  <2>1. q \in PlayerOrNone
    BY InputsAssumption DEF PlayerOrNone
  <2> QED BY <1>1, <2>1 DEF ViewInv, Screened, Screens
<1>5. Screened'
  BY <1>1, <1>4 DEF ViewInv, Screened
<1>6. Wired' /\ Dealt' /\ OnTheWay'
  BY <1>2, <1>3, <1>4 DEF ViewInv, Wired, Dealt, OnTheWay, vars
<1>7. Briefing' = Briefing /\ AliveAs(state, "witch")' = AliveAs(state, "witch")
  BY <1>2 DEF Briefing, NightResult, Potions, AliveAs, vars, state
<1>8. \A u \in Tabs : (Informed(u)' <=> Informed(u)) /\ (Remembers(u)' <=> Remembers(u))
  BY <1>2, <1>4, <1>7 DEF Informed, Remembers
<1>9. Attended' /\ Briefed'
  BY <1>2, <1>7, <1>8 DEF ViewInv, Attended, Briefed, vars
<1> QED
  BY <1>3, <1>5, <1>6, <1>9

LEMMA ServeStep ==
  ASSUME ViewInv, NEW t \in Tabs, Serve(t)
  PROVE  Delivered /\ Asked'
<1>1. /\ request[t] # NoMove /\ phase # "lobby" /\ request' = [request EXCEPT ![t] = NoMove]
      /\ Perform(PlayerOf[t], request[t]) \/ UNCHANGED <<vars, wire, screen, order>>
  BY DEF Serve
<1>2. PlayerOf[t] \in Players /\ request[t] \in Moves
  BY <1>1, TabsAssumption DEF ViewInv, Asked
<1>3. Asked'
  BY <1>1 DEF ViewInv, Asked
<1>4. CASE Perform(PlayerOf[t], request[t])
  BY <1>1, <1>2, <1>3, <1>4, PerformStep
<1>5. CASE UNCHANGED <<vars, wire, screen, order>>
  <2>1. InLine'
    BY <1>5 DEF ViewInv, InLine
  <2> QED BY <1>3, <1>5, <2>1, SamePages DEF Delivered
<1> QED
  BY <1>1, <1>4, <1>5

LEMMA RejoinedInLine ==
  ASSUME InLine, NEW t \in Tabs, order' = Rejoined(t)
  PROVE  InLine'
<1> DEFINE rest == RemoveFirst(order, t)
<1>1. rest \in Seq(Tabs) /\ IsInjective(rest) /\ ToSet(rest) = Tabs \ {t}
  BY TakenOff DEF InLine
<1> HIDE DEF rest
<1>2. /\ Append(rest, t) \in Seq(Tabs) /\ IsInjective(Append(rest, t))
      /\ ToSet(Append(rest, t)) = ToSet(rest) \cup {t}
  BY <1>1, Put
<1>3. order' = Append(rest, t)
  BY DEF Rejoined, rest
<1> QED
  BY <1>1, <1>2, <1>3 DEF InLine

\* The snapshot of the game, for a socket that asks for the room.
LEMMA Snapshot ==
  ASSUME ViewInv
  PROVE  LET news == <<GameState(state), MyInfo>>
         IN  /\ news \in Seq(Messages) /\ Speaks(news, buildPublicState(state))
             /\ ~Silent(news) /\ ~NoneOf({MyInfo}, news)
             /\ phase = "night_witch" => NoneOf(Tellings, news)
<1> DEFINE g == GameState(state)
           v == buildPublicState(state)
<1>1. g \in Messages /\ g \in States /\ g = [kind |-> "game:state", body |-> v]
  <2>1. state.phase \in Phases /\ state.alive \in SUBSET Players /\ state.votes \in Ballots
    BY DEF ViewInv, IInv, TypeOK, EngineState, state
  <2> QED BY <2>1, StateMessage
<1>2. MyInfo \in Messages /\ MyInfo \notin States /\ MyInfo \notin Tellings
  BY InfoMessage DEF Personal, MyInfo, Tellings
<1>3. phase = "night_witch" => g \notin Tellings
  BY DEF GameState, buildPublicState, Tellings, state
<1> HIDE DEF g, v
<1> DEFINE w == <<g, MyInfo>>
<1>4. w \in Seq(Messages) /\ Len(w) = 2 /\ w[1] = g /\ w[2] = MyInfo
  BY <1>1, <1>2
<1> HIDE DEF w
<1>5. 1 .. Len(w) = {1, 2}
  BY <1>4
<1>6. Speaks(w, v) /\ ~Silent(w) /\ ~NoneOf({MyInfo}, w)
  BY <1>1, <1>2, <1>4, <1>5 DEF Speaks, Silent, LastOf, NoneOf
<1>7. phase = "night_witch" => NoneOf(Tellings, w)
  BY <1>2, <1>3, <1>4, <1>5 DEF NoneOf
<1> QED
  BY <1>4, <1>6, <1>7 DEF w, g, v

\* It goes to a tab of the same player.
LEMMA Addressee ==
  ASSUME NEW l \in Seq(Tabs), ToSet(l) = Tabs, NEW t \in Tabs
  PROVE  LET target == l[SelectInSeq(l, LAMBDA u : PlayerOf[u] = PlayerOf[t])]
         IN  target \in Tabs /\ PlayerOf[target] = PlayerOf[t]
<1> DEFINE T == {i \in 1 .. Len(l) : PlayerOf[l[i]] = PlayerOf[t]}
<1>1. Len(l) \in Nat /\ T \subseteq Nat /\ T # {}
  BY LenProperties DEF ToSet
<1>2. Min(T) \in T
  BY <1>1, LeastOne
<1>3. SelectInSeq(l, LAMBDA u : PlayerOf[u] = PlayerOf[t]) = Min(T)
  BY <1>1 DEF SelectInSeq
<1> QED
  BY <1>2, <1>3, ElementOfSeq

LEMMA ReloadStep ==
  ASSUME ViewInv, NEW t \in Tabs, Reload(t)
  PROVE  Wired' /\ Screened' /\ Asked' /\ InLine' /\ OnTheWay' /\ Attended' /\ Briefed'
<1> DEFINE news == <<GameState(state), MyInfo>>
           v == buildPublicState(state)
           cut == [wire EXCEPT ![t] = <<>>]
           target == order'[SelectInSeq(order', LAMBDA u : PlayerOf[u] = PlayerOf[t])]
<1>1. /\ t \in Reloaders
      /\ order' = Rejoined(t) /\ screen' = [screen EXCEPT ![t] = Blank]
      /\ request' = [request EXCEPT ![t] = NoMove] /\ phase # "lobby"
      /\ UNCHANGED vars /\ state' = state /\ phase' = phase
      /\ wire' = [cut EXCEPT ![target] = @ \o news]
  BY DEF Reload, vars, state
<1>2. InLine'
  BY <1>1, RejoinedInLine DEF ViewInv
<1>3. target \in Tabs /\ PlayerOf[target] = PlayerOf[t]
  <2>1. order' \in Seq(Tabs) /\ ToSet(order') = Tabs
    BY <1>2 DEF InLine
  <2> QED BY <2>1, Addressee
<1> HIDE DEF target
<1>4. Screened' /\ Asked'
  BY <1>1, BlankPage DEF ViewInv, Screened, Asked
<1>5. /\ news \in Seq(Messages) /\ Speaks(news, v) /\ ~Silent(news) /\ ~NoneOf({MyInfo}, news)
      /\ phase = "night_witch" => NoneOf(Tellings, news)
  BY Snapshot
<1>6. cut \in [Tabs -> Seq(Messages)]
  BY NoMessage DEF ViewInv, Wired
<1>7. \A u \in Tabs : /\ cut[u] = IF u = t THEN <<>> ELSE wire[u]
                      /\ screen'[u] = IF u = t THEN Blank ELSE screen[u]
  BY <1>1 DEF ViewInv, Wired, Screened
<1>8. \A u \in Tabs : Leads(cut[u], screen'[u].state, v)
  BY <1>1, <1>7, NoMessage DEF ViewInv, OnTheWay, Leads, Silent
<1> HIDE DEF cut, news
<1>9. wire' = [u \in Tabs |-> IF u = target THEN cut[u] \o news ELSE cut[u]]
  BY <1>1, <1>6
<1> HIDE DEF v
<1>10. ASSUME NEW u \in Tabs
       PROVE  /\ cut[u] \o news \in Seq(Messages) /\ Leads(cut[u] \o news, screen'[u].state, v)
              /\ \A K : NoneOf(K, cut[u] \o news) <=> NoneOf(K, cut[u]) /\ NoneOf(K, news)
              /\ \A K, m : LastOf(K, cut[u], m) /\ NoneOf(K, news) => LastOf(K, cut[u] \o news, m)
  BY <1>5, <1>6, StateAdded, MoreMessages
<1>11. Wired'
  BY <1>6, <1>9, <1>10 DEF Wired
<1>12. OnTheWay'
  BY <1>1, <1>8, <1>9, <1>10 DEF OnTheWay, v
<1>13. ASSUME NEW u \in Tabs, u = target \/ (u # t /\ Informed(u)) PROVE Informed(u)'
  <2>1. CASE u = target
    <3>1. ~NoneOf({MyInfo}, wire'[u]) /\ ~Silent(wire'[u])
      BY <1>5, <1>9, <1>10, <2>1 DEF Silent
    <3> QED BY <3>1 DEF Informed
  <2>2. CASE u # target
    <3>1. wire'[u] = wire[u] /\ screen'[u] = screen[u]
      BY <1>7, <1>9, <1>13, <2>2
    <3> QED BY <1>13, <2>2, <3>1 DEF Informed
  <2> QED BY <2>1, <2>2
<1>14. Attended'
  <2> SUFFICES ASSUME NEW p \in Range(PlayerOf)
               PROVE  \E u \in Tabs : PlayerOf[u] = p /\ Informed(u)'
    BY DEF Attended
  <2>1. PICK u \in Tabs : PlayerOf[u] = p /\ Informed(u)
    BY <1>1 DEF ViewInv, Attended
  <2>2. CASE u = t
    BY <1>3, <1>13, <2>1, <2>2
  <2>3. CASE u # t
    BY <1>13, <2>1, <2>3
  <2> QED BY <2>2, <2>3
<1>15. Briefed'
  <2> SUFFICES ASSUME phase = "night_witch", NEW u \in Tabs, PlayerOf[u] \in AliveAs(state, "witch")
               PROVE  Remembers(u)'
    BY <1>1 DEF Briefed, AliveAs, vars
  <2>1. Remembers(u)
    BY DEF ViewInv, Briefed
  <2>2. Briefing' = Briefing
    BY <1>1 DEF Briefing, NightResult, Potions, vars
  <2>3. /\ NoneOf(Tellings, cut[u]) => NoneOf(Tellings, wire'[u])
        /\ \A m : LastOf(Tellings, cut[u], m) => LastOf(Tellings, wire'[u], m)
    BY <1>5, <1>9, <1>10
  <2>4. CASE u = t
    <3>1. NoneOf(Tellings, cut[u]) /\ screen'[u].result.type # "witch_view"
      BY <1>7, <2>4, NoMessage DEF Blank, NoResult
    <3> QED BY <1>1, <2>3, <2>4, <3>1 DEF Remembers
  <2>5. CASE u # t
    BY <1>7, <2>1, <2>2, <2>3, <2>5 DEF Remembers
  <2> QED BY <2>4, <2>5
<1> QED
  BY <1>2, <1>4, <1>11, <1>12, <1>14, <1>15
-------------------------------------------------------------------------------
\* The tabs line up in some order.
LEMMA FirstInLine ==
  ASSUME order \in SetToSeqs(Tabs)
  PROVE  InLine
<1> DEFINE n == Cardinality(Tabs)
<1>1. n \in Nat /\ IsFiniteSet(Tabs)
  BY TabsAssumption, FS_CardinalityType
<1>2. order \in [1 .. n -> Tabs] /\ \A i, j \in 1 .. n : i # j => order[i] # order[j]
  BY DEF SetToSeqs
<1> HIDE DEF n
<1>3. order \in Seq(Tabs) /\ IsInjective(order)
  BY <1>1, <1>2 DEF IsInjective
<1>4. order \in Injection(1 .. n, Tabs)
  BY <1>2, <1>3 DEF Injection
<1>5. Cardinality(1 .. n) = n
  BY <1>1, FS_Interval
<1>6. order \in Surjection(1 .. n, Tabs)
  BY <1>1, <1>4, <1>5, FS_Injection DEF n
<1>7. ToSet(order) = Tabs
  BY <1>2, <1>6 DEF Surjection, ToSet
<1> QED
  BY <1>3, <1>7 DEF InLine

LEMMA ViewInitInv == ViewInit => ViewInv
<1> SUFFICES ASSUME ViewInit PROVE ViewInv
  OBVIOUS
<1>1. IInv /\ phase = "lobby"
  BY InitInv DEF ViewInit, Init
<1>2. Wired
  BY NoMessage DEF ViewInit, Wired
<1>3. Screened /\ Asked
  BY BlankPage DEF ViewInit, Screened, Asked
<1>4. InLine
  BY FirstInLine DEF ViewInit
<1>5. Dealt
  BY DEF ViewInit, Init, Dealt
<1> QED
  BY <1>1, <1>2, <1>3, <1>4, <1>5 DEF ViewInv, OnTheWay, Attended, Briefed

LEMMA ViewStepInv == ViewInv /\ [ViewNext]_<<vars, viewVars>> => ViewInv'
<1> SUFFICES ASSUME ViewInv, [ViewNext]_<<vars, viewVars>> PROVE ViewInv'
  OBVIOUS
<1>1. ASSUME Delivered, Asked' PROVE ViewInv'
  BY <1>1 DEF Delivered, ViewInv
<1>2. CASE GameBegins
  BY <1>1, <1>2, GameBeginsStep
<1>3. CASE NewGame
  BY <1>1, <1>3, NewGameStep
<1>4. CASE TimeRunsOut
  BY <1>1, <1>4, TimeRunsOutStep
<1>5. ASSUME NEW p \in Quitters, Depart(p) PROVE ViewInv'
  BY <1>1, <1>5, DepartStep
<1>6. ASSUME NEW p \in Unseen, NEW m \in Moves, ActUnseen(p, m) PROVE ViewInv'
  <2>1. phase # "lobby" /\ Perform(p, m) /\ request' = request /\ p \in Players
    BY <1>6, TabsAssumption DEF ActUnseen
  <2>2. Delivered
    BY <2>1, PerformStep
  <2> QED BY <1>1, <2>1, <2>2 DEF ViewInv, Asked
<1>7. ASSUME NEW t \in Tabs, Deliver(t) PROVE ViewInv'
  <2>1. UNCHANGED vars /\ request' = request /\ order' = order
    BY <1>7 DEF Deliver
  <2>2. IInv'
    BY <2>1, StutterInv DEF ViewInv
  <2> QED BY <1>7, <2>1, <2>2, DeliverStep DEF ViewInv, Asked, InLine, Dealt, vars
<1>8. ASSUME NEW t \in Tabs, Click(t) PROVE ViewInv'
  <2>1. UNCHANGED <<vars, wire, screen>> /\ order' = order
    BY <1>8 DEF Click
  <2> QED BY <1>8, <2>1, ClickStep, SamePages DEF ViewInv, InLine
<1>9. ASSUME NEW t \in Tabs, Serve(t) PROVE ViewInv'
  BY <1>1, <1>9, ServeStep
<1>10. ASSUME NEW t \in Tabs, Reload(t) PROVE ViewInv'
  <2>1. UNCHANGED vars
    BY <1>10 DEF Reload
  <2>2. IInv'
    BY <2>1, StutterInv DEF ViewInv
  <2> QED BY <1>10, <2>1, <2>2, ReloadStep DEF ViewInv, Dealt, vars
<1>11. CASE UNCHANGED <<vars, viewVars>>
  <2>1. UNCHANGED <<vars, wire, screen>> /\ request' = request /\ order' = order
    BY <1>11 DEF viewVars
  <2> QED BY <2>1, SamePages DEF ViewInv, Asked, InLine
<1>12. ASSUME NEW t \in Tabs, Choose(t) PROVE ViewInv'
  <2>1. request' = request /\ order' = order
    BY <1>12 DEF Choose
  <2> QED BY <1>12, <2>1, ChooseStep DEF ViewInv, Asked, InLine
<1> QED
  BY <1>2, <1>3, <1>4, <1>5, <1>6, <1>7, <1>8, <1>9, <1>10, <1>11, <1>12 DEF ViewNext

LEMMA ViewInvariance == ViewSpec => []ViewInv
BY ViewInitInv, ViewStepInv, PTL DEF ViewSpec

\* What is on its way to a page, what the page keeps and what its buttons ask for have
\* the types the components read, and every tab stands once in the order in which the
\* sockets of the room joined, however often the pages are loaded anew.
THEOREM PagesTyped == ViewSpec => []ViewTypeOK
<1>1. ViewInv => ViewTypeOK
  <2> SUFFICES ASSUME ViewInv PROVE ViewTypeOK
    OBVIOUS
  <2>1. ASSUME NEW t \in Tabs, NEW i \in DOMAIN wire[t] PROVE wire[t][i] \in Messages
    <3>1. wire[t] \in Seq(Messages)
      BY DEF ViewInv, Wired
    <3> QED BY <2>1, <3>1, LenProperties, ElementOfSeq
  <2>2. IsInjective(order) /\ Range(order) = Tabs
    BY DEF ViewInv, InLine, Range, ToSet
  <2> QED BY <2>1, <2>2 DEF ViewTypeOK, ViewInv, Screened, Screens, Asked
<1> QED
  BY <1>1, ViewInvariance, PTL

\* A page that has received all that was sent to it shows the game as it is: each of
\* the engine's methods that changes the phase, the living or the votes in view
\* publishes the change, whatever the phases it goes through.
THEOREM ScreensKeepUp == ViewSpec => []ScreensFollowTheEngine
<1>1. ViewInv => ScreensFollowTheEngine
  <2> SUFFICES ASSUME ViewInv, phase # "lobby", NEW t \in Tabs, wire[t] = <<>>,
                      screen[t].state # Blank.state
               PROVE  screen[t].state = buildPublicState(state)
    BY DEF ScreensFollowTheEngine
  <2>1. Leads(wire[t], screen[t].state, buildPublicState(state))
    BY DEF ViewInv, OnTheWay
  <2>2. ~Speaks(wire[t], buildPublicState(state))
    BY NoMessage DEF Speaks
  <2> QED BY <2>1, <2>2 DEF Leads
<1> QED
  BY <1>1, ViewInvariance, PTL

-------------------------------------------------------------------------------
(***************************************************************************)
(* The moves on offer.                                                     *)
(***************************************************************************)
\* What the panels are when the page shows the game as it is.
LEMMA PanelOfTheGame ==
  ASSUME TypeOK, NEW p \in Players, NEW scr \in Screens, scr.state = buildPublicState(state)
  PROVE  /\ phase \in NightPhases /\ scr.info /\ p \in AliveAs(state, Actor[phase]) =>
              Panel(p, scr) = IF role[p] = "seer" /\ scr.result.type = "seer_result" THEN "seer_result"
                              ELSE IF role[p] = "witch" /\ scr.result.type # "witch_view" THEN "witch_wait"
                              ELSE role[p]
         /\ Panel(p, scr) \in {"guard", "werewolf", "seer", "witch"} =>
              /\ phase \in NightPhases /\ p \in alive /\ role[p] = Actor[phase]
              /\ Panel(p, scr) = role[p]
              /\ role[p] = "witch" => scr.result.type = "witch_view"
         /\ Panel(p, scr) = "vote" => phase = "day_main" /\ p \in alive
<1>1. /\ scr.state.phase = phase /\ scr.state.alive = alive
      /\ phase \in Phases /\ role[p] \in Roles /\ scr.info \in BOOLEAN
  BY DEF buildPublicState, TypeOK, EngineState, Screens, state
<1>2. phase \in NightPhases => inGame(scr)
  BY <1>1 DEF inGame, NightPhases
<1>3. p \in AliveAs(state, Actor[phase]) <=> p \in alive /\ role[p] = Actor[phase]
  BY DEF AliveAs, state
<1>4. NightActionPanel(p, scr) =
        IF p \notin alive THEN "dead"
        ELSE IF role[p] # Actor[phase] THEN "wait"
        ELSE IF role[p] = "seer" /\ scr.result.type = "seer_result" THEN "seer_result"
        ELSE IF role[p] = "witch" /\ scr.result.type # "witch_view" THEN "witch_wait"
        ELSE role[p]
  BY <1>1 DEF NightActionPanel
<1>5. Panel(p, scr) =
        IF inGame(scr) /\ scr.info /\ phase \in NightPhases THEN NightActionPanel(p, scr)
        ELSE IF inGame(scr) /\ scr.info /\ phase = "day_main" /\ p \in alive THEN "vote"
        ELSE "none"
  BY <1>1 DEF Panel, NightPhases
<1>6. role[p] # "vote"
  BY <1>1 DEF Roles
<1> QED
  BY <1>2, <1>3, <1>4, <1>5, <1>6

\* The moves each panel makes and the targets it lists, in a page that shows the game as
\* it is.
LEMMA OffersOfTheGame ==
  ASSUME NEW p, NEW scr, scr.state = buildPublicState(state)
  PROVE  LET others == alive \ {p}
         IN  /\ Panel(p, scr) = "guard" =>
                  Offers(p, scr) = Confirm("guard_protect", scr) /\ Listed(p, scr) = alive
             /\ Panel(p, scr) = "werewolf" =>
                  /\ Offers(p, scr) = Confirm("wolf_kill", scr) \cup Button("wolf_skip")
                  /\ Listed(p, scr) = others
             /\ Panel(p, scr) = "seer" =>
                  Offers(p, scr) = Confirm("seer_check", scr) /\ Listed(p, scr) = others
             /\ Panel(p, scr) = "witch" =>
                  /\ Offers(p, scr) =
                       Button("witch_pass")
                         \cup (IF "poison" \in scr.result.potions THEN Confirm("witch_poison", scr)
                               ELSE {})
                         \cup (IF scr.result.target # None /\ "heal" \in scr.result.potions
                               THEN Button("witch_heal") ELSE {})
                  /\ "poison" \in scr.result.potions => Listed(p, scr) = others
             /\ Panel(p, scr) = "vote" =>
                  Offers(p, scr) \subseteq [type : {"vote"}, target : others \cup {None}]
             /\ Panel(p, scr) \notin {"guard", "werewolf", "seer", "witch", "vote"} =>
                  Offers(p, scr) = {}
<1>1. scr.state.alive = alive /\ aliveOthers(p, scr) = alive \ {p}
  BY DEF buildPublicState, aliveOthers, state
<1>2. VotePanel(p, scr) \subseteq [type : {"vote"}, target : (alive \ {p}) \cup {None}]
  BY <1>1 DEF VotePanel, Button
<1>3. CASE Panel(p, scr) = "guard"
  <2>1. Offers(p, scr) = Confirm("guard_protect", scr)
    BY <1>3 DEF Offers
  <2>2. Listed(p, scr) = alive
    BY <1>1, <1>3 DEF Listed, Holder
  <2> QED BY <1>3, <2>1, <2>2
<1>4. CASE Panel(p, scr) = "werewolf"
  BY <1>1, <1>4 DEF Offers, Listed
<1>5. CASE Panel(p, scr) = "seer"
  BY <1>1, <1>5 DEF Offers, Listed
<1>6. CASE Panel(p, scr) = "witch"
  BY <1>1, <1>6 DEF Offers, Listed, Holder
<1>7. CASE Panel(p, scr) = "vote"
  BY <1>2, <1>7 DEF Offers
<1>8. CASE Panel(p, scr) \notin {"guard", "werewolf", "seer", "witch", "vote"}
  BY <1>8 DEF Offers
<1> QED
  BY <1>3, <1>4, <1>5, <1>6, <1>7, <1>8

\* A page of the witch that has received all remembers what she was told.
LEMMA WitchRemembers ==
  ASSUME ViewInv, phase = "night_witch", NEW t \in Tabs, wire[t] = <<>>,
         PlayerOf[t] \in AliveAs(state, "witch"),
         t \notin Reloaders \/ screen[t].result.type = "witch_view"
  PROVE  /\ screen[t].result.type = "witch_view" /\ screen[t].result.target = witchView
         /\ \A b : b \in screen[t].result.potions <=> b \in {"heal", "poison"} /\ witchPotions[b]
<1>1. Remembers(t)
  BY DEF ViewInv, Briefed
<1>2. screen[t].result = Briefing.body
  BY <1>1, NoMessage DEF Remembers
<1> QED
  BY <1>2 DEF Briefing, NightResult, Potions, state

\* What a page offers that has received all that was sent to it, the engine accepts,
\* whatever was clicked, lost and loaded anew before: a refusal is one of the guard's
\* last protection, of another wolf, of an antidote for a victim the pack's departures
\* have changed since the witch was told of it, or of a target that was chosen in the
\* form while he was on its list and has left the list since.
THEOREM OffersAreAccepted == ViewSpec => []EveryOfferIsAccepted
<1>1. ViewInv => EveryOfferIsAccepted
  <2> SUFFICES ASSUME ViewInv, phase # "lobby", NEW t \in Tabs, wire[t] = <<>>,
                      NEW m \in Offers(PlayerOf[t], screen[t]), Tried(m),
                      m \notin [type : {"guard_protect"}, target : {night_state.guardLastNightProtectedId}],
                      m \notin [type : {"wolf_kill"}, target : {q \in Players : role[q] = "werewolf"}],
                      m \notin Reopened, m \notin Forgotten(PlayerOf[t], screen[t])
               PROVE  m \in Legal(PlayerOf[t])
    BY DEF EveryOfferIsAccepted
  <2> DEFINE p == PlayerOf[t]
             scr == screen[t]
             panel == Panel(p, scr)
  <2>1. /\ scr \in Screens /\ p \in Players /\ m \in Moves
        /\ TypeOK /\ live /\ alive \subseteq Players
    <3>1. scr \in Screens /\ p \in Players
      BY TabsAssumption DEF ViewInv, Screened
    <3>2. m \in Moves
      BY <3>1, OffersAreMoves
    <3> QED BY <3>1, <3>2 DEF ViewInv, Dealt, IInv, TypeOK, EngineState, state
  <2>2. scr.state = buildPublicState(state)
    <3>1. scr.state # Blank.state
      <4>1. scr.state = Blank.state => panel = "none"
        BY DEF Panel, inGame, Blank
      <4>2. panel = "none" => Offers(p, scr) = {}
        BY DEF Offers
      <4> QED BY <4>1, <4>2
    <3> QED BY <3>1, NoMessage DEF ViewInv, OnTheWay, Leads, Speaks
  <2>3. /\ panel \in {"guard", "werewolf", "seer", "witch"} =>
             /\ phase \in NightPhases /\ p \in alive /\ role[p] = Actor[phase] /\ panel = role[p]
             /\ role[p] = "witch" => scr.result.type = "witch_view"
        /\ panel = "vote" => phase = "day_main" /\ p \in alive
    BY <2>1, <2>2, PanelOfTheGame
  <2>4. \A ph \in NightPhases : phase = ph /\ p \in alive /\ role[p] = Actor[ph] => MayAct(p, ph)
    BY <2>1 DEF MayAct
  <2>5. ASSUME NEW type, m \in Confirm(type, scr)
        PROVE  m.type = type /\ m.target \in Listed(p, scr)
    <3>1. m.type = type /\ m.target = scr.chosen /\ m.target # None
      BY <2>5 DEF Confirm
    <3> QED BY <2>1, <3>1 DEF Forgotten
  <2>6. Accepts(p, m) => m \in Legal(p)
    BY <2>1 DEF Legal
  <2> HIDE DEF p, scr, panel
  <2>7. CASE panel = "guard"
    <3>1. phase = "night_guard" /\ MayAct(p, "night_guard")
      BY <2>3, <2>4, <2>7 DEF Actor, NightPhases
    <3>2. m \in Confirm("guard_protect", scr) /\ Listed(p, scr) = alive
      BY <2>2, <2>7, OffersOfTheGame DEF p, scr, panel
    <3>3. m.type = "guard_protect" /\ m.target \in alive
      BY <2>5, <3>2
    <3>4. m.target # night_state.guardLastNightProtectedId
      BY <2>1, <3>3 DEF Moves
    <3> QED BY <2>6, <3>1, <3>3, <3>4 DEF Accepts, CanProtect, p
  <2>8. CASE panel = "werewolf"
    <3>1. phase = "night_wolves" /\ MayAct(p, "night_wolves")
      BY <2>3, <2>4, <2>8 DEF Actor, NightPhases
    <3>2. m \in Confirm("wolf_kill", scr) \cup Button("wolf_skip") /\ Listed(p, scr) = alive \ {p}
      BY <2>2, <2>8, OffersOfTheGame DEF p, scr, panel
    <3>3. CASE m \in Confirm("wolf_kill", scr)
      <4>1. m.type = "wolf_kill" /\ m.target \in alive
        BY <2>5, <3>2, <3>3
      <4>2. role[m.target] # "werewolf"
        BY <2>1, <4>1 DEF Moves
      <4> QED BY <2>6, <3>1, <4>1, <4>2 DEF Accepts, CanKill, p
    <3>4. CASE m \in Button("wolf_skip")
      BY <2>6, <3>1, <3>4 DEF Accepts, Button, p
    <3> QED BY <3>2, <3>3, <3>4
  <2>9. CASE panel = "seer"
    <3>1. phase = "night_seer" /\ MayAct(p, "night_seer")
      BY <2>3, <2>4, <2>9 DEF Actor, NightPhases
    <3>2. m \in Confirm("seer_check", scr) /\ Listed(p, scr) = alive \ {p}
      BY <2>2, <2>9, OffersOfTheGame DEF p, scr, panel
    <3>3. m.type = "seer_check" /\ m.target \in alive \ {p}
      BY <2>5, <3>2
    <3> QED BY <2>6, <3>1, <3>3 DEF Accepts, CanCheck, p
  <2>10. CASE panel = "witch"
    <3>1. phase = "night_witch" /\ MayAct(p, "night_witch") /\ scr.result.type = "witch_view"
      BY <2>3, <2>4, <2>10 DEF Actor, NightPhases
    <3>2. /\ scr.result.target = witchView
          /\ \A b : b \in scr.result.potions <=> b \in {"heal", "poison"} /\ witchPotions[b]
      <4>1. PlayerOf[t] \in AliveAs(state, "witch")
        BY <2>3, <2>10 DEF AliveAs, state, p
      <4> QED BY <3>1, <4>1, WitchRemembers DEF scr
    <3>3. /\ m \in Button("witch_pass")
                     \cup (IF "poison" \in scr.result.potions THEN Confirm("witch_poison", scr) ELSE {})
                     \cup (IF scr.result.target # None /\ "heal" \in scr.result.potions
                           THEN Button("witch_heal") ELSE {})
          /\ "poison" \in scr.result.potions => Listed(p, scr) = alive \ {p}
      BY <2>2, <2>10, OffersOfTheGame DEF p, scr, panel
    <3>4. CASE m \in Button("witch_pass")
      BY <2>6, <3>1, <3>4 DEF Accepts, Button, p
    <3>5. CASE "poison" \in scr.result.potions /\ m \in Confirm("witch_poison", scr)
      <4>1. m.type = "witch_poison" /\ m.target \in alive \ {p} /\ witchPotions.poison
        BY <2>5, <3>2, <3>3, <3>5
      <4> QED BY <2>6, <3>1, <4>1 DEF Accepts, CanPoison, p
    <3>6. CASE scr.result.target # None /\ "heal" \in scr.result.potions /\ m \in Button("witch_heal")
      <4>1. m.type = "witch_heal" /\ witchPotions.heal
        BY <3>2, <3>6 DEF Button
      <4>2. witchView = night_state.wolfKillTargetId
        BY <3>6 DEF Reopened
      <4> QED BY <2>6, <3>1, <3>2, <3>6, <4>1, <4>2 DEF Accepts, CanHeal, p
    <3> QED BY <3>3, <3>4, <3>5, <3>6
  <2>11. CASE panel = "vote"
    <3>1. m \in [type : {"vote"}, target : (alive \ {p}) \cup {None}]
      BY <2>2, <2>11, OffersOfTheGame DEF p, scr, panel
    <3>2. m.type = "vote" /\ m.target \in alive \cup {None}
      BY <3>1
    <3> QED BY <2>1, <2>3, <2>6, <2>11, <3>2 DEF Accepts, CanVote, p
  <2>12. CASE panel \notin {"guard", "werewolf", "seer", "witch", "vote"}
    BY <2>2, <2>12, OffersOfTheGame DEF p, scr, panel
  <2> QED BY <2>7, <2>8, <2>9, <2>10, <2>11, <2>12
<1> QED
  BY <1>1, ViewInvariance, PTL

\* Another choice changes neither the game a page shows nor the panel, and a choice on the
\* list can be made.
Choosing(scr, q) == [scr EXCEPT !.chosen = q]

LEMMA OtherChoice ==
  ASSUME NEW p, NEW scr \in Screens, NEW q
  PROVE  /\ Choosing(scr, q).state = scr.state /\ Choosing(scr, q).result = scr.result
         /\ Choosing(scr, q).chosen = q /\ Panel(p, Choosing(scr, q)) = Panel(p, scr)
         /\ q \in Listed(p, scr) \cup {scr.chosen} => Offers(p, Choosing(scr, q)) \subseteq Makes(p, scr)
<1>1. /\ Choosing(scr, q).state = scr.state /\ Choosing(scr, q).result = scr.result
      /\ Choosing(scr, q).info = scr.info /\ Choosing(scr, q).chosen = q
  BY DEF Choosing, Screens
<1>2. q \in Listed(p, scr) \cup {scr.chosen} => Offers(p, Choosing(scr, q)) \subseteq Makes(p, scr)
  BY DEF Makes, Choosing
<1>3. Panel(p, Choosing(scr, q)) = Panel(p, scr)
  BY <1>1 DEF Panel, inGame, NightActionPanel
<1> QED
  BY <1>1, <1>2, <1>3

\* Whoever the night waits for can play: he can make on one of his pages that have received
\* all that was sent to them, with the choice it has or another one on its list, every move
\* the engine would accept from him, however often he reloaded and whichever of his tabs the
\* snapshots went to, unless that page still shows the result of an earlier check, or is one
\* a witch may have loaded anew and waits for what the snapshot does not repeat.
THEOREM MovesAreOffered == ViewSpec => []EveryMoveIsOffered
<1>1. ViewInv => EveryMoveIsOffered
  <2> SUFFICES ASSUME ViewInv, NEW p \in Range(PlayerOf), phase \in NightPhases,
                      p \in AliveAs(state, Actor[phase]), UpToDate(p)
               PROVE  \E t \in Tabs : /\ PlayerOf[t] = p
                                      /\ \/ Legal(p) \ Reopened \subseteq Makes(p, screen[t])
                                         \/ Panel(p, screen[t]) = "seer_result"
                                         \/ t \in Reloaders /\ Panel(p, screen[t]) = "witch_wait"
    BY DEF EveryMoveIsOffered
  <2>1. PICK t \in Tabs : PlayerOf[t] = p /\ Informed(t)
    BY DEF ViewInv, Attended, NightPhases
  <2> DEFINE scr == screen[t]
             panel == Panel(p, scr)
  <2>2. /\ wire[t] = <<>> /\ scr \in Screens /\ p \in Players /\ TypeOK
        /\ p \in alive /\ role[p] = Actor[phase] /\ role \in Deals
    BY <2>1, TabsAssumption DEF UpToDate, ViewInv, Screened, IInv, Dealt, AliveAs, state
  <2>3. scr.info /\ scr.state # Blank.state
    BY <2>1, <2>2, NoMessage DEF Informed, Silent
  <2>4. scr.state = buildPublicState(state)
    BY <2>2, <2>3, NoMessage DEF ViewInv, OnTheWay, Leads, Speaks, NightPhases
  <2>5. ASSUME role[p] = "witch", t \notin Reloaders \/ scr.result.type = "witch_view"
        PROVE  /\ scr.result.type = "witch_view" /\ scr.result.target = witchView
               /\ \A b : b \in scr.result.potions <=> b \in {"heal", "poison"} /\ witchPotions[b]
    <3>1. phase = "night_witch" /\ p \in AliveAs(state, "witch")
      BY <2>2, <2>5 DEF Actor, NightPhases, AliveAs, state
    <3> QED BY <2>1, <2>2, <2>5, <3>1, WitchRemembers
  <2>6. \/ panel = "seer_result"
        \/ panel = "witch_wait" /\ t \in Reloaders
        \/ panel = role[p] /\ (role[p] = "witch" => scr.result.type = "witch_view")
    BY <2>2, <2>3, <2>4, <2>5, PanelOfTheGame
  <2> SUFFICES ASSUME panel = role[p], role[p] = "witch" => scr.result.type = "witch_view",
                      NEW m \in Legal(p), m \notin Reopened
               PROVE  m \in Makes(p, scr)
    BY <2>1, <2>6
  <2>7. m \in Moves /\ Accepts(p, m)
    BY DEF Legal
  <2>8. /\ m = [type |-> m.type, target |-> m.target]
        /\ m.type \in {"guard_protect", "wolf_kill", "seer_check", "witch_poison"} =>
             m.target \in Players
        /\ m.type \in {"wolf_skip", "witch_heal", "witch_pass"} => m.target = None
    BY <2>7 DEF Moves
  <2>9. \A q : /\ Choosing(scr, q).state = buildPublicState(state) /\ Choosing(scr, q).result = scr.result
               /\ Choosing(scr, q).chosen = q /\ Panel(p, Choosing(scr, q)) = panel
               /\ q \in Listed(p, scr) \cup {scr.chosen} =>
                    Offers(p, Choosing(scr, q)) \subseteq Makes(p, scr)
    BY <2>2, <2>4, OtherChoice DEF panel
  <2>10. /\ panel = "guard" => Listed(p, scr) = alive
         /\ panel \in {"werewolf", "seer"} => Listed(p, scr) = alive \ {p}
         /\ panel = "witch" /\ "poison" \in scr.result.potions => Listed(p, scr) = alive \ {p}
    BY <2>4, OffersOfTheGame
  <2> HIDE DEF scr, panel
  <2>11. ASSUME NEW type, m.type = type, m.target \in Players
         PROVE  m \in Confirm(type, Choosing(scr, m.target))
    BY <2>8, <2>9, <2>11, PlayersAssumption DEF Confirm
  <2>12. ASSUME NEW type, m.type = type, m.target = None
         PROVE  m \in Button(type)
    BY <2>8, <2>12 DEF Button
  <2>13. CASE m.type = "guard_protect" /\ CanProtect(p, m.target)
    <3>1. panel = "guard" /\ m.target \in Listed(p, scr)
      BY <2>10, <2>13 DEF CanProtect, MayAct, Actor
    <3>2. Offers(p, Choosing(scr, m.target)) = Confirm("guard_protect", Choosing(scr, m.target))
      BY <2>9, <3>1, OffersOfTheGame
    <3> QED BY <2>8, <2>9, <2>11, <2>13, <3>1, <3>2
  <2>14. CASE m.type = "wolf_kill" /\ CanKill(p, m.target)
    <3>1. panel = "werewolf" /\ m.target \in Listed(p, scr)
      BY <2>10, <2>14 DEF CanKill, MayAct, Actor
    <3>2. Confirm("wolf_kill", Choosing(scr, m.target)) \subseteq Offers(p, Choosing(scr, m.target))
      BY <2>9, <3>1, OffersOfTheGame
    <3> QED BY <2>8, <2>9, <2>11, <2>14, <3>1, <3>2
  <2>15. CASE m.type = "wolf_skip" /\ MayAct(p, "night_wolves")
    <3>1. panel = "werewolf"
      BY <2>15 DEF MayAct, Actor
    <3>2. Button("wolf_skip") \subseteq Offers(p, Choosing(scr, scr.chosen))
      BY <2>9, <3>1, OffersOfTheGame
    <3> QED BY <2>8, <2>9, <2>12, <2>15, <3>2
  <2>16. CASE m.type = "seer_check" /\ CanCheck(p, m.target)
    <3>1. panel = "seer" /\ m.target \in Listed(p, scr)
      BY <2>10, <2>16 DEF CanCheck, MayAct, Actor
    <3>2. Offers(p, Choosing(scr, m.target)) = Confirm("seer_check", Choosing(scr, m.target))
      BY <2>9, <3>1, OffersOfTheGame
    <3> QED BY <2>8, <2>9, <2>11, <2>16, <3>1, <3>2
  <2>17. ASSUME panel = "witch", NEW q
         PROVE  Offers(p, Choosing(scr, q)) =
                  Button("witch_pass")
                    \cup (IF "poison" \in scr.result.potions THEN Confirm("witch_poison", Choosing(scr, q))
                          ELSE {})
                    \cup (IF scr.result.target # None /\ "heal" \in scr.result.potions
                          THEN Button("witch_heal") ELSE {})
    BY <2>9, <2>17, OffersOfTheGame
  <2>18. CASE m.type = "witch_heal" /\ CanHeal(p)
    <3>1. panel = "witch" /\ role[p] = "witch" /\ witchPotions.heal
          /\ night_state.wolfKillTargetId # None
      BY <2>18 DEF CanHeal, MayAct, Actor
    <3>2. m \in Button("witch_heal")
      BY <2>8, <2>12, <2>18
    <3>3. witchView = night_state.wolfKillTargetId
      BY <3>2 DEF Reopened
    <3>4. m \in Offers(p, Choosing(scr, scr.chosen))
      BY <2>5, <2>17, <3>1, <3>2, <3>3
    <3> QED BY <2>9, <3>4
  <2>19. CASE m.type = "witch_poison" /\ CanPoison(p, m.target)
    <3>1. /\ panel = "witch" /\ role[p] = "witch" /\ "poison" \in scr.result.potions
          /\ m.target \in Listed(p, scr)
      BY <2>5, <2>10, <2>19 DEF CanPoison, MayAct, Actor
    <3>2. m \in Offers(p, Choosing(scr, m.target))
      BY <2>8, <2>11, <2>17, <2>19, <3>1
    <3> QED BY <2>9, <3>1, <3>2
  <2>20. CASE m.type = "witch_pass" /\ MayAct(p, "night_witch")
    <3>1. panel = "witch"
      BY <2>20 DEF MayAct, Actor
    <3>2. m \in Offers(p, Choosing(scr, scr.chosen))
      BY <2>8, <2>12, <2>17, <2>20, <3>1
    <3> QED BY <2>9, <3>2
  <2>21. ~CanVote(p, m.target)
    BY DEF CanVote, NightPhases
  <2> QED BY <2>7, <2>13, <2>14, <2>15, <2>16, <2>18, <2>19, <2>20, <2>21 DEF Accepts
<1> QED
  BY <1>1, ViewInvariance, PTL
===============================================================================
