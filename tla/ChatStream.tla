------------------------------ MODULE ChatStream -------------------------------
(***************************************************************************)
(* ChatOrchestrator.stream_chat over the TokenLedger: a question that the   *)
(* governor has admitted is answered chunk by chunk over Server-Sent        *)
(* Events; each chunk is appended to a Redis list from which a client that  *)
(* reconnects is served; however the stream ends, its text is saved as a    *)
(* message and charged.  The client chooses the correlation id, and may use *)
(* it again.                                                                *)
(***************************************************************************)
EXTENDS TokenLedger, SequencesExt

CONSTANT Chunks    \* chunks of an answer, the last of them final

ASSUME ChunksAssumption == Chunks \in Nat \ {0}

VARIABLES
    turn,      \* per request: its stream
    buffer,    \* per correlation id: the replay list, as the chunks pushed to it
    asked,     \* query_analytics: correlation ids, under a UNIQUE index
    saved      \* assistant messages

chatVars == <<turn, buffer, asked, saved>>
vars == <<ledgerVars, chatVars>>

\* got: chunks received; buffering: they are still pushed; cut: is_interrupted;
\* wrong: terminal_error; fault: a step after the stream was lost.
Turn == [at : {"none", "stream", "yield", "save", "account", "over"}, got : 0 .. Chunks,
         buffering : BOOLEAN, cut : BOOLEAN, wrong : BOOLEAN, fault : BOOLEAN]

Unasked == [at |-> "none", got |-> 0, buffering |-> TRUE, cut |-> FALSE, wrong |-> FALSE,
            fault |-> FALSE]

Entry == [by : Requests, index : 0 .. Chunks - 1]

Message == [by : Requests, got : 1 .. Chunks, partial : BOOLEAN]

Init ==
    /\ LedgerInit
    /\ turn = [r \in Requests |-> Unasked]
    /\ buffer = [k \in Ids |-> <<>>]
    /\ asked = {} /\ saved = {}

Goes(r, new) == turn' = [turn EXCEPT ![r] = new]
Leaves(r, lost) == Goes(r, [Unasked EXCEPT !.at = "over", !.got = turn[r].got, !.fault = lost])
Streams(r) == turn[r].at \in {"stream", "yield"}

\* Membership, history and the user's message; the question goes to the wrapper.
Begin(r) ==
    /\ Is(r, "admitted") /\ call[r].kind = "chat" /\ turn[r].at = "none"
    /\ Goes(r, [Unasked EXCEPT !.at = "stream"])
    /\ UNCHANGED <<ledgerVars, buffer, asked, saved>>

\* The caller is no member, or no document is READY: an error or a guidance message.
Decline(r) ==
    /\ Is(r, "admitted") /\ call[r].kind = "chat" /\ turn[r].at = "none"
    /\ Leaves(r, FALSE)
    /\ UNCHANGED <<ledgerVars, buffer, asked, saved>>

\* A chunk is pushed before it is sent.  A push that raises, whether or not Redis
\* has executed it, is the last.
Receive(r) ==
    /\ turn[r].at = "stream" /\ turn[r].got < Chunks
    /\ LET k == call[r].id
           entry == [by |-> r, index |-> turn[r].got]
           pushed == [buffer EXCEPT ![k] = Append(@, entry)]
           next == [turn[r] EXCEPT !.at = "yield", !.got = @ + 1]
       IN  \/ /\ turn[r].buffering
              /\ buffer' = pushed
              /\ Goes(r, next)
           \/ /\ buffer' \in IF turn[r].buffering THEN {buffer, pushed} ELSE {buffer}
              /\ Goes(r, [next EXCEPT !.buffering = FALSE])
    /\ UNCHANGED <<ledgerVars, asked, saved>>

\* The chunk is sent, after the last the iteration ends.
Send(r) ==
    /\ turn[r].at = "yield"
    /\ Goes(r, [turn[r] EXCEPT !.at = IF turn[r].got < Chunks THEN "stream" ELSE "save"])
    /\ UNCHANGED <<ledgerVars, buffer, asked, saved>>

\* The client goes while a chunk is awaited or pushed: CancelledError.
Cancel(r) ==
    /\ Streams(r)
    /\ Goes(r, [turn[r] EXCEPT !.at = "save", !.cut = TRUE])
    /\ UNCHANGED <<ledgerVars, buffer, asked, saved>>

\* The client goes while a chunk is sent: GeneratorExit, which no handler notes.
Close(r) ==
    /\ turn[r].at = "yield"
    /\ Goes(r, [turn[r] EXCEPT !.at = "save"])
    /\ UNCHANGED <<ledgerVars, buffer, asked, saved>>

\* The wrapper raises; with some text the answer counts as interrupted. Without the
\* timeout events, and for a workspace without documents, no terminal error is noted.
Fail(r) ==
    /\ turn[r].at = "stream"
    /\ \E wrong \in BOOLEAN :
          Goes(r, [turn[r] EXCEPT !.at = "save", !.cut = turn[r].got > 0, !.wrong = wrong])
    /\ UNCHANGED <<ledgerVars, buffer, asked, saved>>

\* Bug seeded for DeliveredIsCharged: what was interrupted is not charged.
BillsWhole(r) == ~turn[r].cut /\ ~turn[r].wrong

\* should_record_quota
Bills(r) == turn[r].got > 0 \/ (~turn[r].cut /\ ~turn[r].wrong)

MessageOf(r) == [by |-> r, got |-> turn[r].got, partial |-> turn[r].cut]

\* The text, if any, is saved, unless five seconds pass or the database refuses.
Save(r) ==
    /\ turn[r].at = "save"
    /\ saved' \in IF turn[r].got = 0 THEN {saved}
                  ELSE {saved, saved \cup {MessageOf(r)}}
    /\ IF Bills(r) THEN Goes(r, [Unasked EXCEPT !.at = "account", !.got = turn[r].got])
       ELSE Leaves(r, FALSE)
    /\ UNCHANGED <<ledgerVars, buffer, asked>>

\* Bug seeded for ChargedOnce: the analytics row is written whatever rows there are.
FreshAlways(r) == TRUE

Fresh(r) == call[r].id \notin asked

\* The analytics row is committed, then the tokens are recorded.
Account(r, c) ==
    /\ turn[r].at = "account" /\ Fresh(r)
    /\ asked' = asked \cup {call[r].id}
    /\ Leaves(r, FALSE)
    /\ Moves(r, [call[r] EXCEPT !.phase = "select", !.cost = c])
    /\ UNCHANGED <<rows, used, cached, audit, audits, month, buffer, saved>>

\* The UNIQUE index refuses the row: nothing is charged.
AccountTwice(r) ==
    /\ turn[r].at = "account" /\ ~Fresh(r)
    /\ Leaves(r, FALSE)
    /\ Enters(r, "unpaid")
    /\ UNCHANGED <<rows, used, cached, audit, audits, month, buffer, asked, saved>>

\* The process dies, the five seconds pass before the analytics row, or the cancellation
\* of a client that is gone strikes again while the finally block awaits.
Crash(r) ==
    /\ turn[r].at \in {"stream", "yield", "save", "account"}
    /\ Leaves(r, TRUE)
    /\ UNCHANGED <<ledgerVars, buffer, asked, saved>>

\* 300 seconds after the last push; a stream waits less for its next chunk.
Forget(k) ==
    /\ buffer[k] # <<>>
    /\ \A r \in Requests : ~(Streams(r) /\ call[r].id = k)
    /\ buffer' = [buffer EXCEPT ![k] = <<>>]
    /\ UNCHANGED <<ledgerVars, turn, asked, saved>>

--------------------------------------------------------------------------------
Answer(r) ==
    \/ Begin(r) \/ Decline(r) \/ Receive(r) \/ Send(r) \/ Cancel(r) \/ Close(r) \/ Fail(r)
    \/ Save(r) \/ AccountTwice(r) \/ Crash(r)

Next ==
    \/ LedgerNext /\ UNCHANGED chatVars
    \/ \E r \in Requests : Answer(r)
    \/ \E r \in Requests, c \in Costs : Account(r, c)
    \/ \E k \in Ids : Forget(k)

Spec == Init /\ [][Next]_vars

\* Requests, counters, streams, replay lists and messages stay in their domains.
TypeOK ==
    /\ LedgerTypeOK
    /\ turn \in [Requests -> Turn] /\ asked \in SUBSET Ids /\ saved \in SUBSET Message
    /\ \A k \in Ids : buffer[k] \in Seq(Entry)

--------------------------------------------------------------------------------
(* Properties                                                              *)

\* Bug seeded for ReplayIsOneAnswer: any list that ends with a final chunk is replayed.
ReplayableAnyway(k) == buffer[k] # <<>> /\ Last(buffer[k]).index = Chunks - 1

\* What a client that reconnects may be served from: the indices 0, 1, ... in
\* order, the last of them final.
Replayable(k) ==
    /\ buffer[k] # <<>>
    /\ \A i \in DOMAIN buffer[k] : buffer[k][i].index = i - 1
    /\ Last(buffer[k]).index = Chunks - 1

\* What is replayed to a client that reconnects is the whole of one answer, even
\* when two streams have shared a correlation id or a push has failed.
ReplayIsOneAnswer ==
    \A k \in Ids : Replayable(k) =>
        \E r \in Requests : buffer[k] = [i \in 1 .. Chunks |-> [by |-> r, index |-> i - 1]]

\* A question is charged once, although the check for an earlier record and the
\* insertion are two steps and the column has no UNIQUE index.
ChargedOnce ==
    \A x, y \in rows : x.id = y.id /\ call[x.by].kind = "chat" /\ call[y.by].kind = "chat"
        => x = y

\* When the requests with a correlation id are over, the text any of them delivered
\* has been charged under it, unless one of them was lost on the way.
DeliveredIsCharged ==
    \A k \in Ids :
        LET mine == {r \in Requests : call[r].id = k /\ call[r].phase # "new"}
        IN  /\ \E r \in mine : turn[r].got > 0
            /\ \A r \in mine : /\ turn[r].at \in {"none", "over"} /\ ~turn[r].fault
                               /\ call[r].phase \notin {"select", "insert", "abandoned"}
            => Recorded(k) # {}
================================================================================
