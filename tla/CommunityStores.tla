--------------------------- MODULE CommunityStores --------------------------
(* Votes on services and comments with votes on them, as the relay API keeps them *)
(* (cmd/relay-server/policy/reputation.go, comments.go).  Each store changes a     *)
(* copy under its lock, writes its whole file, and takes the copy only when the    *)
(* write succeeds.  A request looks up which identity its hostname has now and     *)
(* calls the store later.  A write may fail before or after the rename, and the    *)
(* process may die between the write and the assignment.                           *)
EXTENDS Naturals, Sequences, FiniteSets, SequencesExt, FiniteSetsExt, Functions

CONSTANTS
  Identities, Sources, Authors, Requests,
  MaxVoters, MaxIdentities,                     \* reputationMaxVoters, reputationMaxIdentities
  PerApp, PerRelay, PerComment, VotesPerRelay,  \* caps of the comments store
  MaxPosts, MaxStarts                           \* bounds

VARIABLES
  up, starts,
  owner,         \* the identity behind the hostname in the public directory, or "none"
  request,       \* per request: the identity it was resolved to, "idle" before
  ledger,        \* votes of services: identity -> voter -> vote
  secret,        \* generation of the voter secret in memory
  ledgerFile,    \* reputation.json: the secret and the votes
  board,         \* the comments store: threads, votes, authors
  boardFile,     \* comments.json
  posted,        \* ids given so far
  ballots        \* history: sources that ever voted without a valid cookie

vars == <<up, starts, owner, request, ledger, secret, ledgerFile, board, boardFile, posted, ballots>>
reputation == <<ledger, secret, ledgerFile>>
comments == <<board, boardFile, posted>>
process == <<up, starts>>

Empty == <<>>     \* the function with no argument
Drop(f, k) == Restrict(f, DOMAIN f \ {k})
Put(f, k, v) == [x \in DOMAIN f \cup {k} |-> IF x = k THEN v ELSE f[x]]
Entry(f, k) == IF k \in DOMAIN f THEN f[k] ELSE Empty

NoBoard == [threads |-> Empty, votes |-> Empty, authors |-> Empty]
NoSecret == 0

Init ==
  /\ up = FALSE /\ starts = 0 /\ owner = "none" /\ request = [r \in Requests |-> "idle"]
  /\ ledger = Empty /\ secret = NoSecret /\ ledgerFile = [secret |-> NoSecret, votes |-> Empty]
  /\ board = NoBoard /\ boardFile = NoBoard /\ posted = 0 /\ ballots = {}

(* NewCommentsStore's checks of what it read                                       *)
Comments(b) == UNION {Range(b.threads[i]) : i \in DOMAIN b.threads}
Total(f) == FoldFunction(LAMBDA s, n : n + Len(s), 0, f)
Ballots(f) == FoldFunction(LAMBDA s, n : n + Cardinality(DOMAIN s), 0, f)
Loads(b) ==
  /\ \A i \in DOMAIN b.threads : Len(b.threads[i]) \in 1 .. PerApp
  /\ Cardinality(Comments(b)) = Total(b.threads) /\ Total(b.threads) <= PerRelay
  /\ \A c \in DOMAIN b.votes : c \in Comments(b) /\ Cardinality(DOMAIN b.votes[c]) <= PerComment
  /\ Ballots(b.votes) <= VotesPerRelay
  /\ DOMAIN b.authors \subseteq Comments(b)

(* Mutant: every start makes a new secret.                                         *)
NewSecret == starts + 1
Secret == IF ledgerFile.secret = NoSecret THEN starts + 1 ELSE ledgerFile.secret

(* NewReputationStore writes a new secret to the file; NewCommentsStore refuses a  *)
(* file it finds invalid, and the relay does not start.                            *)
Start ==
  /\ ~up /\ starts < MaxStarts /\ starts' = starts + 1
  /\ \/ /\ Loads(boardFile) /\ up' = TRUE
        /\ secret' = Secret /\ ledger' = ledgerFile.votes
        /\ ledgerFile' = [ledgerFile EXCEPT !.secret = Secret]
        /\ board' = boardFile
     \/ /\ ledgerFile.secret = NoSecret      \* the write of the secret fails
        /\ \E s \in {NoSecret, Secret} : ledgerFile' = [ledgerFile EXCEPT !.secret = s]
        /\ UNCHANGED <<up, secret, ledger, board>>
  /\ UNCHANGED <<owner, request, boardFile, posted, ballots>>

Crash ==
  /\ up /\ up' = FALSE /\ ledger' = Empty /\ secret' = NoSecret /\ board' = NoBoard
  /\ request' = [r \in Requests |-> "idle"]
  /\ UNCHANGED <<starts, owner, ledgerFile, boardFile, posted, ballots>>

(* The lease behind the hostname ends or another identity takes it.                *)
Directory ==
  /\ \E i \in Identities \cup {"none"} : i # owner /\ owner' = i
  /\ UNCHANGED <<process, request, reputation, comments, ballots>>

PublicIdentity == owner

(* Every handler first looks up the identity of its hostname.                      *)
Resolve(r) ==
  /\ up /\ request[r] = "idle" /\ PublicIdentity # "none"
  /\ request' = [request EXCEPT ![r] = PublicIdentity]
  /\ UNCHANGED <<process, owner, reputation, comments, ballots>>

Answered(r) == request' = [request EXCEPT ![r] = "idle"]

(* resolveVoterLocked: a valid cookie names its voter, otherwise the source does.  *)
(* Cookies that verify were made with this secret.                                 *)
NoCookie == <<>>
Cookies == {<<secret, s>> : s \in ballots}
Voter(cookie, source) == IF cookie \in Cookies THEN cookie ELSE <<secret, source>>
Seen(cookie, source) == IF cookie \in Cookies THEN ballots ELSE ballots \cup {source}

(* The three ways a write ends; new is what the store would become.                *)
Writes(r, state, file, new, newFile) ==
  \/ state' = new /\ file' = newFile /\ Answered(r)
  \/ UNCHANGED <<state, file>> /\ Answered(r)
  \/ state' = state /\ file' = newFile /\ Answered(r)

(* CastVote                                                                        *)
Votes(i, v, vote) ==
  IF vote # "clear" THEN Put(ledger, i, Put(Entry(ledger, i), v, vote))
  ELSE IF DOMAIN ledger[i] = {v} THEN Drop(ledger, i) ELSE [ledger EXCEPT ![i] = Drop(@, v)]
LedgerFull(i, v, vote) ==
  /\ vote # "clear"
  /\ \/ i \notin DOMAIN ledger /\ Cardinality(DOMAIN ledger) >= MaxIdentities
     \/ v \notin DOMAIN Entry(ledger, i) /\ Cardinality(DOMAIN Entry(ledger, i)) >= MaxVoters

CastVote(r, cookie, source, vote) ==
  LET i == request[r]
      v == Voter(cookie, source)
      old == IF v \in DOMAIN Entry(ledger, i) THEN ledger[i][v] ELSE "clear"
  IN /\ i \in Identities
     /\ IF old = vote \/ LedgerFull(i, v, vote) THEN Answered(r) /\ UNCHANGED <<ledger, ledgerFile>>
        ELSE Writes(r, ledger, ledgerFile, Votes(i, v, vote), [secret |-> secret, votes |-> Votes(i, v, vote)])
     /\ ballots' = Seen(cookie, source)
     /\ UNCHANGED <<process, owner, secret, comments>>

(* CommentsStore.Add                                                               *)
Add(r, author) ==
  LET i == request[r]
      thread == Entry(board.threads, i)
      new == [board EXCEPT !.threads = Put(@, i, Append(thread, posted + 1)),
                           !.authors = Put(@, posted + 1, author)]
  IN /\ i \in Identities /\ posted < MaxPosts /\ posted' = posted + 1
     /\ IF Total(board.threads) >= PerRelay \/ Len(thread) >= PerApp
        THEN Answered(r) /\ UNCHANGED <<board, boardFile>>
        ELSE Writes(r, board, boardFile, new, new)
     /\ UNCHANGED <<process, owner, reputation, ballots>>

(* Mutant: the thread stays, empty.                                                *)
KeepThread(threads, i, rest) == [threads EXCEPT ![i] = rest]
Remaining(threads, i, rest) == IF rest = <<>> THEN Drop(threads, i) ELSE [threads EXCEPT ![i] = rest]

(* Mutant: the votes of a deleted comment stay.                                    *)
KeepVotes(c) == board.votes
Unvoted(c) == Drop(board.votes, c)

MayDelete(i, c, author) ==
  c \in DOMAIN board.authors /\ board.authors[c] = author /\ c \in Range(Entry(board.threads, i))

Delete(r, c, author) ==
  LET i == request[r]
      new == [threads |-> Remaining(board.threads, i, SelectSeq(board.threads[i], LAMBDA x : x # c)),
              votes |-> Unvoted(c), authors |-> Drop(board.authors, c)]
  IN /\ i \in Identities
     /\ IF MayDelete(i, c, author)
        THEN Writes(r, board, boardFile, new, new)
        ELSE Answered(r) /\ UNCHANGED <<board, boardFile>>
     /\ UNCHANGED <<process, owner, reputation, posted, ballots>>

(* CommentsStore.Vote, with the voter of the reputation store                      *)
CommentVotes(c, v, vote) ==
  IF vote # "clear" THEN Put(board.votes, c, Put(Entry(board.votes, c), v, vote))
  ELSE IF DOMAIN board.votes[c] = {v} THEN Drop(board.votes, c) ELSE [board.votes EXCEPT ![c] = Drop(@, v)]
BoardFull(c, v, vote) ==
  /\ vote # "clear" /\ v \notin DOMAIN Entry(board.votes, c)
  /\ Cardinality(DOMAIN Entry(board.votes, c)) >= PerComment \/ Ballots(board.votes) >= VotesPerRelay

VoteComment(r, c, cookie, source, vote) ==
  LET i == request[r]
      v == Voter(cookie, source)
      old == IF v \in DOMAIN Entry(board.votes, c) THEN board.votes[c][v] ELSE "clear"
      new == [board EXCEPT !.votes = CommentVotes(c, v, vote)]
  IN /\ i \in Identities
     /\ IF c \notin Range(Entry(board.threads, i)) \/ old = vote \/ BoardFull(c, v, vote)
        THEN Answered(r) /\ UNCHANGED <<board, boardFile>>
        ELSE Writes(r, board, boardFile, new, new)
     /\ ballots' = Seen(cookie, source)
     /\ UNCHANGED <<process, owner, reputation, posted>>

Next ==
  \/ Start \/ Crash \/ Directory
  \/ \E r \in Requests :
       \/ Resolve(r)
       \/ \E a \in Authors : Add(r, a) \/ \E c \in 1 .. posted : Delete(r, c, a)
       \/ \E cookie \in Cookies \cup {NoCookie}, source \in Sources, vote \in {"up", "clear"} :
            \/ CastVote(r, cookie, source, vote)
            \/ \E c \in 1 .. posted : VoteComment(r, c, cookie, source, vote)

Spec == Init /\ [][Next]_vars

TypeOK ==
  /\ owner \in Identities \cup {"none"} /\ posted \in 0 .. MaxPosts
  /\ DOMAIN ledger \subseteq Identities /\ DOMAIN board.threads \subseteq Identities

(* What the stores write, they accept when the relay starts again: no sequence of  *)
(* posts, votes, deletions and failed writes leaves an empty thread, a vote or an   *)
(* author of a comment that is gone, or more than the caps in comments.json.        *)
FileLoads == Loads(boardFile) /\ (up => Loads(board))

(* A source that drops its cookies stays one voter: no service and no comment has   *)
(* more votes than there are sources that voted without a valid cookie, also over   *)
(* restarts (resolveVoterLocked).                                                   *)
OneVoterPerSource ==
  /\ \A i \in DOMAIN ledger : Cardinality(DOMAIN ledger[i]) <= Cardinality(ballots)
  /\ \A c \in DOMAIN board.votes : Cardinality(DOMAIN board.votes[c]) <= Cardinality(ballots)
=============================================================================
