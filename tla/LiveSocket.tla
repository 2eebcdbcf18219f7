----------------------------- MODULE LiveSocket -----------------------------
(***************************************************************************)
(* The live microphone: a browser (static/live.js) and the coroutine of    *)
(* live_socket that serves it, one message after the other.  Both          *)
(* directions of the connection keep their order, so the utterances of a   *)
(* socket are counters; the one in hand is number answered + 1.            *)
(***************************************************************************)
EXTENDS SessionState

Up(s) == client[s] \in {"talking", "finishing"}

SocketAt(s, where) == sock' = [sock EXCEPT ![s] = where]

\* What is sent to a browser that is gone may be taken for sent.
Reached(s) == {TRUE, Up(s)}

\* An answer; one that cannot be sent ends the loop.
Answer(s) ==
    /\ answered' = [answered EXCEPT ![s] = @ + 1]
    /\ \E reached \in Reached(s) : SocketAt(s, IF reached THEN "wait" ELSE "closed")

-----------------------------------------------------------------------------
\* The browser.

Connect(s) ==
    /\ sock[s] = "off" /\ access /\ session = "open"
    /\ SocketAt(s, "wait")
    /\ client' = [client EXCEPT ![s] = "talking"]
    /\ UNCHANGED <<clipVars, inflight, sent, answered, heard, access, excused>>

\* ship: what exceeds the cap is reported to the speaker and not sent.
Ship(s) ==
    /\ client[s] = "talking" /\ sent[s] < Utterances
    /\ sent[s] - heard[s] < ClientCap
    /\ sent' = [sent EXCEPT ![s] = @ + 1]
    /\ UNCHANGED <<clipVars, sock, client, inflight, answered, heard, access, excused>>

\* finish: after the last utterance, the request to be told that all is saved.
FinishTalking(s) ==
    /\ client[s] = "talking"
    /\ client' = [client EXCEPT ![s] = "finishing"]
    /\ UNCHANGED <<clipVars, sock, inflight, sent, answered, heard, access, excused>>

HearAnswer(s) ==
    /\ Up(s) /\ heard[s] < answered[s]
    /\ heard' = [heard EXCEPT ![s] = @ + 1]
    /\ UNCHANGED <<clipVars, sock, client, inflight, sent, answered, access, excused>>

\* "finished", or the end of the connection, behind the last answer.
HearEnd(s) ==
    /\ Up(s) /\ heard[s] = answered[s] /\ sock[s] \in {"finished", "closed"}
    /\ client' = [client EXCEPT ![s] = IF sock[s] = "finished" THEN "saved" ELSE "broken"]
    /\ UNCHANGED <<clipVars, sock, inflight, sent, answered, heard, access, excused>>

\* The page is closed, the network fails, or finish waits for too long.
LeaveSocket(s) ==
    /\ "leave" \in SessionFaults /\ Up(s)
    /\ client' = [client EXCEPT ![s] = "broken"]
    /\ UNCHANGED <<clipVars, sock, inflight, sent, answered, heard, access, excused>>

-----------------------------------------------------------------------------
\* The server.

\* The next utterance: the login and the session are looked up again.
TurnAway(s) ==
    /\ sock[s] = "wait" /\ answered[s] < sent[s]
    /\ ~(access /\ session = "open")
    /\ SocketAt(s, "closed")
    /\ UNCHANGED <<clipVars, client, inflight, sent, answered, heard, access, excused>>

\* It is answered at once when its length or format is wrong or no place is
\* free; else it takes a place, and the word that it is being worked on may
\* already fail.
Receive(s) ==
    /\ sock[s] = "wait" /\ answered[s] < sent[s]
    /\ access /\ session = "open"
    /\ \E wellFormed \in BOOLEAN :
        IF wellFormed /\ inflight[s] < MaxQueued
        THEN /\ inflight' = [inflight EXCEPT ![s] = @ + 1]
             /\ \E reached \in Reached(s) :
                    SocketAt(s, IF reached THEN "queued" ELSE "closed")
             /\ UNCHANGED answered
        ELSE Answer(s) /\ UNCHANGED inflight
    /\ UNCHANGED <<clipVars, client, sent, heard, access, excused>>

\* LiveEngine.semaphore
Acquire(s) ==
    /\ sock[s] = "queued"
    /\ Cardinality({t \in Sockets : sock[t] = "decode"}) < MaxConcurrent
    /\ SocketAt(s, "decode")
    /\ UNCHANGED <<clipVars, client, inflight, sent, answered, heard, access, excused>>

\* The finally clause behind the decode, whichever way it ends.
Release(s) == inflight' = [inflight EXCEPT ![s] = @ - 1]

DecodedText(s) ==
    /\ sock[s] = "decode"
    /\ Release(s) /\ SocketAt(s, "recheck")
    /\ UNCHANGED <<clipVars, client, sent, answered, heard, access, excused>>

\* Silence, or a decode that failed: answered, and nothing stored.
DecodedNothingAgain(s) ==                  \* mutant: decoded once more instead
    /\ sock[s] = "decode"
    /\ SocketAt(s, "queued")
    /\ UNCHANGED <<clipVars, client, inflight, sent, answered, heard, access, excused>>
DecodedNothingLeaks(s) ==                  \* mutant: no finally clause
    /\ sock[s] = "decode"
    /\ Answer(s)
    /\ UNCHANGED <<clipVars, client, inflight, sent, heard, access, excused>>
DecodedNothing(s) ==
    /\ sock[s] = "decode"
    /\ Release(s) /\ Answer(s)
    /\ UNCHANGED <<clipVars, client, sent, heard, access, excused>>

RecheckSkipped(s) ==                       \* mutant: no second look at the login
    /\ sock[s] = "recheck"
    /\ SocketAt(s, "store")
    /\ UNCHANGED <<clipVars, client, inflight, sent, answered, heard, access, excused>>
Recheck(s) ==
    /\ sock[s] = "recheck"
    /\ SocketAt(s, IF access THEN "store" ELSE "closed")
    /\ UNCHANGED <<clipVars, client, inflight, sent, answered, heard, access, excused>>

\* _append_block; a session that is not open any more gets no block.
StoreAnyway(s) ==                          \* mutant: the status is not read again
    /\ sock[s] = "store"
    /\ Put(<<s, answered[s] + 1>>, MicBlock)
    /\ Answer(s)
    /\ UNCHANGED <<session, position, files, dropped, entries, pc, clipOf, decoded, saw,
                   result, client, inflight, sent, heard, access, excused>>
Store(s) ==
    /\ sock[s] = "store"
    /\ IF session = "open" THEN Put(<<s, answered[s] + 1>>, MicBlock)
                           ELSE UNCHANGED blocks
    /\ Answer(s)
    /\ UNCHANGED <<session, position, files, dropped, entries, pc, clipOf, decoded, saw,
                   result, client, inflight, sent, heard, access, excused>>

\* The finish message waits behind the utterances.
ServerFinishOvertakes(s) ==                \* mutant: messages are handled side by side
    /\ sock[s] = "wait" /\ client[s] = "finishing"
    /\ SocketAt(s, "finished")
    /\ UNCHANGED <<clipVars, client, inflight, sent, answered, heard, access, excused>>
ServerFinish(s) ==
    /\ sock[s] = "wait" /\ client[s] = "finishing" /\ answered[s] = sent[s]
    /\ SocketAt(s, "finished")
    /\ UNCHANGED <<clipVars, client, inflight, sent, answered, heard, access, excused>>

ServerSeesEnd(s) ==
    /\ sock[s] = "wait" /\ client[s] = "broken" /\ answered[s] = sent[s]
    /\ SocketAt(s, "closed")
    /\ UNCHANGED <<clipVars, client, inflight, sent, answered, heard, access, excused>>

\* Logout, a new password or a suspension ends the login for good.
Revoke ==
    /\ "revoke" \in SessionFaults /\ access
    /\ access' = FALSE
    /\ excused' = {s \in Sockets : sock[s] = "store"}
    /\ UNCHANGED <<clipVars, sock, client, inflight, sent, answered, heard>>
=============================================================================
