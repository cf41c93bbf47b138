---------------------------- MODULE Leaderboards ----------------------------
(* The four leaderboards.  Every request refreshes all of them, one           *)
(* transaction each - TRUNCATE, whose exclusive lock lasts until the commit,  *)
(* then INSERT .. SELECT of the ranked, visible rows - and then reads one.    *)
EXTENDS Naturals, Sequences, FiniteSets, Functions

CONSTANTS
  Players,      \* players, numbered: ties are ranked by id
  Pools,        \* active mining pools, numbered too
  Requests,     \* request handlers
  Limit,        \* rows a refresh keeps (100 or 50 in the code)
  MaxMoves,     \* bound: changes of figures and memberships
  MaxToggles,   \* bound: visibility toggles
  None
LeaderboardsAssumption ==
  /\ Players \subseteq Nat /\ Pools \subseteq Nat /\ IsFiniteSet(Players) /\ IsFiniteSet(Pools)
  /\ None \notin Pools \cup Requests
  /\ Limit \in Nat /\ MaxMoves \in Nat /\ MaxToggles \in Nat

VARIABLES
  figure,       \* [board -> [player -> cached hashrate, earnings, credits]]
  member,       \* [player -> its pool or None]
  hidden,       \* players with leaderboard_visibility.is_hidden
  board,        \* [board -> its committed rows: sequence of ids, best first]
  lock,         \* [board -> the request whose transaction truncated it]
  call,         \* [request -> its progress]
  moves, toggles

vars == <<figure, member, hidden, board, lock, call, moves, toggles>>

Order == <<"hashrate", "pools", "weekly", "wealth">>
PlayerBoards == {"hashrate", "weekly", "wealth"}
Boards == PlayerBoards \cup {"pools"}
\* "answer" holds the rows read; "since" the players hidden ever since the call.
Idle == [step |-> "idle", wants |-> "", at |-> 0, rows |-> <<>>, answer |-> <<>>,
         since |-> {}]

TypeOK ==
  /\ hidden \subseteq Players
  /\ figure \in [PlayerBoards -> [Players -> 0..MaxMoves]]
  /\ member \in [Players -> Pools \cup {None}]
  /\ \A b \in Boards : /\ Len(board[b]) <= Limit
                       /\ \A i \in 1..Len(board[b]) :
                            board[b][i] \in IF b = "pools" THEN Pools ELSE Players
  /\ lock \in [Boards -> Requests \cup {None}]
  /\ moves \in 0..MaxMoves /\ toggles \in 0..MaxToggles

Init ==
  /\ figure = [b \in PlayerBoards |-> [p \in Players |-> 0]]
  /\ member = [p \in Players |-> None] /\ hidden = {}
  /\ board = [b \in Boards |-> <<>>] /\ lock = [b \in Boards |-> None]
  /\ call = [r \in Requests |-> Idle]
  /\ moves = 0 /\ toggles = 0

\* ROW_NUMBER() OVER (ORDER BY figure DESC, id ASC) .. LIMIT Limit
RankedRows(S, score) ==
  LET Rank(x) == 1 + Cardinality({y \in S : \/ score[y] > score[x]
                                            \/ score[y] = score[x] /\ y < x})
      n == Cardinality(S)
  IN [i \in 1..(IF n < Limit THEN n ELSE Limit) |-> CHOOSE x \in S : Rank(x) = i]

\* refresh_hashrate_leaderboard: every player that is not hidden.
HashrateRows == RankedRows(Players \ hidden, figure["hashrate"])

\* refresh_pool_leaderboard: pools with members, by the sum of their hashrates.
PoolRows ==
  LET members(k) == {p \in Players : member[p] = k}
  IN RankedRows({k \in Pools : members(k) # {}},
                [k \in Pools |-> SumFunctionOnSet(figure["hashrate"], members(k))])

\* refresh_weekly_earnings_leaderboard: who has earned within the week.
WeeklyRows == RankedRows({p \in Players : figure["weekly"][p] > 0} \ hidden, figure["weekly"])

\* refresh_wealth_leaderboard: who has credit entries.
WealthRows == RankedRows({p \in Players : figure["wealth"][p] > 0} \ hidden, figure["wealth"])

Rows(b) == CASE b = "hashrate" -> HashrateRows [] b = "pools" -> PoolRows
             [] b = "weekly" -> WeeklyRows [] b = "wealth" -> WealthRows

Unmoved == UNCHANGED <<figure, member, hidden, moves, toggles>>

-----------------------------------------------------------------------------
(* What the boards are computed from. *)
FigureMoves(b, p) ==
  /\ moves < MaxMoves /\ moves' = moves + 1
  /\ figure' = [figure EXCEPT ![b][p] = @ + 1]
  /\ UNCHANGED <<member, hidden, board, lock, call, toggles>>

MemberMoves(p, k) ==
  /\ moves < MaxMoves /\ moves' = moves + 1 /\ member[p] # k
  /\ member' = [member EXCEPT ![p] = k]
  /\ UNCHANGED <<figure, hidden, board, lock, call, toggles>>

(* POST /players/leaderboard-visibility: one upsert, then a refresh. *)
Toggle(r, p) ==
  /\ call[r].step \in {"idle", "done"} /\ toggles < MaxToggles /\ toggles' = toggles + 1
  /\ hidden' = IF p \in hidden THEN hidden \ {p} ELSE hidden \cup {p}
  /\ call' = [s \in Requests |->
                IF s = r THEN [Idle EXCEPT !.step = "refresh", !.at = 1, !.wants = "visibility"]
                ELSE [call[s] EXCEPT !.since = @ \ {p}]]
  /\ UNCHANGED <<figure, member, board, lock, moves>>

(* A GET of board b, or of a player's position ("position"). *)
Asks(r, b) ==
  /\ call[r].step \in {"idle", "done"}
  /\ call' = [call EXCEPT ![r] = [Idle EXCEPT !.step = "refresh", !.at = 1, !.wants = b,
                                             !.since = hidden]]
  /\ UNCHANGED <<board, lock>> /\ Unmoved

\* Mutant: rows are deleted and inserted without the exclusive lock.
RefreshesUnlocked(r) ==
  /\ call[r].step = "refresh"
  /\ call' = [call EXCEPT ![r].step = "commit", ![r].rows = Rows(Order[call[r].at])]
  /\ UNCHANGED <<board, lock>> /\ Unmoved

\* TRUNCATE waits for the lock; the INSERT ranks what is committed by then.
Refreshes(r) ==
  /\ call[r].step = "refresh"
  /\ lock[Order[call[r].at]] = None
  /\ lock' = [lock EXCEPT ![Order[call[r].at]] = r]
  /\ call' = [call EXCEPT ![r].step = "commit", ![r].rows = Rows(Order[call[r].at])]
  /\ UNCHANGED board /\ Unmoved

Commits(r) ==
  LET b == Order[call[r].at]
  IN /\ call[r].step = "commit"
     /\ board' = [board EXCEPT ![b] = call[r].rows]
     /\ lock' = [lock EXCEPT ![b] = None]
     /\ call' = [call EXCEPT
          ![r].rows = <<>>, ![r].at = IF @ < 4 THEN @ + 1 ELSE 0,
          ![r].step = IF call[r].at < 4 THEN "refresh"
                      ELSE IF call[r].wants = "visibility" THEN "done" ELSE "read"]
     /\ Unmoved

Answers(r) ==
  /\ call[r].step = "read" /\ call[r].wants \in Boards /\ lock[call[r].wants] = None
  /\ call' = [call EXCEPT ![r].step = "done", ![r].answer = board[call[r].wants]]
  /\ UNCHANGED <<board, lock>> /\ Unmoved

(* The position of player p: its row, if it has one, on the hashrate board. *)
PositionRanks(r, p) ==
  /\ call[r].step = "read" /\ call[r].wants = "position"
  /\ \A b \in PlayerBoards : lock[b] = None
  /\ call' = [call EXCEPT ![r].step = "done",
       ![r].answer = IF p \in Range(board["hashrate"]) THEN <<p>> ELSE <<>>]
  /\ UNCHANGED <<board, lock>> /\ Unmoved

Next ==
  \/ \E p \in Players, b \in PlayerBoards : FigureMoves(b, p)
  \/ \E p \in Players, k \in Pools \cup {None} : MemberMoves(p, k)
  \/ \E r \in Requests :
       \/ \E p \in Players : Toggle(r, p) \/ PositionRanks(r, p)
       \/ \E b \in Boards \cup {"position"} : Asks(r, b)
       \/ Refreshes(r) \/ Commits(r) \/ Answers(r)

Spec == Init /\ [][Next]_vars

-----------------------------------------------------------------------------
\* No answer lists a player who was hidden when it was asked for and has been
\* since: whatever other requests refresh meanwhile, a board's committed rows
\* are never older than the last refresh that finished.
HiddenStayHidden ==
  \A r \in Requests : call[r].step = "done" /\ call[r].wants \in PlayerBoards \cup {"position"}
    => \A i \in 1..Len(call[r].answer) : call[r].answer[i] \notin call[r].since
=============================================================================
