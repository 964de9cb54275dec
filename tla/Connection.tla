----------------------------- MODULE Connection -----------------------------
(***************************************************************************)
(* The reads of a worker over its one connection to the provider           *)
(* (SdkMcpTransport of robinhood/transport.ts, readPages of                *)
(* robinhood/client.ts).  Reads that find no client share one attempt to   *)
(* make one; an attempt may fail.  A read goes from page to page by the    *)
(* cursors the provider hands out, and what those are is up to it.  A      *)
(* worker that stops closes the transport while a refresh may be reading   *)
(* (worker.ts).                                                            *)
(*                                                                         *)
(* An attempt that fails is under way until it has closed its client, and  *)
(* who calls before that shares its failure.  Between an attempt's end and *)
(* the moment a read that waited for it goes on, other reads may come      *)
(* first.  An attempt makes one client, and both go by one number.         *)
(***************************************************************************)
EXTENDS Integers, Sequences, FiniteSets

CONSTANTS
  Readers, Cursors,
  FirstPage,     \* what a read begins with instead of a cursor
  NoMore,        \* the provider's answer that there is no further page
  MaxAttempts, MaxFaults

ASSUME ConnectionAssumption == FirstPage \notin Cursors /\ NoMore \notin Cursors

VARIABLES
  attempts,      \* of each: connecting, open, failing, failed or closed
  client,        \* the transport's client, 0 for none
  connection,    \* the attempt its readers share, 0 for none
  reads,         \* one record for each reader
  closer,        \* what close() has come to
  lateFrom,      \* the first attempt made after close() was called
  nextOf,        \* the provider's cursors
  faults

connectionVars ==
  <<attempts, client, connection, reads, closer, lateFrom, nextOf, faults>>

Pages == {FirstPage} \cup Cursors

\* step: idle, waiting (for an attempt), calling, done, failed or drifted;
\* on: the attempt or client; past: the attempts that had ended when the
\* call under way was made.
Idle == [step |-> "idle", on |-> 0, past |-> {}, cursor |-> FirstPage,
         cursors |-> {}, pages |-> <<>>]

ConnectionInit ==
  /\ attempts = <<>> /\ client = 0 /\ connection = 0
  /\ reads = [r \in Readers |-> Idle]
  /\ closer = [step |-> "none", on |-> 0] /\ lateFrom = 0
  /\ nextOf \in [Pages -> Cursors \cup {NoMore}]
  /\ faults = 0

UnderWay == {"connecting", "failing"}

Ended == {n \in DOMAIN attempts : attempts[n] \notin UnderWay}

(***************************************************************************)
(* The transport.                                                          *)
(***************************************************************************)
\* connectedClient: the client, or the attempt under way, or a new one.
Call(r, read) ==
  LET called == [read EXCEPT !.past = Ended] IN
  \/ /\ client # 0
     /\ reads' = [reads EXCEPT ![r] =
                    [called EXCEPT !.step = "calling", !.on = client]]
     /\ UNCHANGED <<attempts, connection>>
  \/ /\ client = 0 /\ connection # 0
     /\ reads' = [reads EXCEPT ![r] =
                    [called EXCEPT !.step = "waiting", !.on = connection]]
     /\ UNCHANGED <<attempts, connection>>
  \/ /\ client = 0 /\ connection = 0 /\ Len(attempts) < MaxAttempts
     /\ attempts' = Append(attempts, "connecting")
     /\ connection' = Len(attempts) + 1
     /\ reads' = [reads EXCEPT ![r] =
                    [called EXCEPT !.step = "waiting", !.on = connection']]

StartRead(r) ==
  /\ reads[r].step \in {"idle", "done", "failed", "drifted"}
  /\ Call(r, Idle)
  /\ UNCHANGED <<client, closer, lateFrom, nextOf, faults>>

\* Connected, and all the tools are there.
AttemptSucceeds(n) ==
  /\ attempts[n] = "connecting"
  /\ attempts' = [attempts EXCEPT ![n] = "open"]
  /\ client' = n /\ connection' = 0
  /\ UNCHANGED <<reads, closer, lateFrom, nextOf, faults>>

\* The attempt closes the client it had.
AttemptFails(n) ==
  /\ attempts[n] = "connecting" /\ faults < MaxFaults
  /\ attempts' = [attempts EXCEPT ![n] = "failing"]
  /\ faults' = faults + 1
  /\ UNCHANGED <<client, connection, reads, closer, lateFrom, nextOf>>

\* Mutant: a failed attempt stays the one to share.
AttemptStays(n) ==
  /\ attempts[n] = "failing"
  /\ attempts' = [attempts EXCEPT ![n] = "failed"]
  /\ UNCHANGED <<client, connection, reads, closer, lateFrom, nextOf, faults>>

FailedAttemptEnds(n) ==
  /\ attempts[n] = "failing"
  /\ attempts' = [attempts EXCEPT ![n] = "failed"]
  /\ connection' = 0
  /\ UNCHANGED <<client, reads, closer, lateFrom, nextOf, faults>>

GoOn(r) ==
  /\ reads[r].step = "waiting" /\ reads[r].on \in Ended
  /\ reads' = [reads EXCEPT ![r].step =
       IF attempts[reads[r].on] = "failed" THEN "failed" ELSE "calling"]
  /\ UNCHANGED <<attempts, client, connection, closer, lateFrom, nextOf,
                 faults>>

\* A call that times out or is refused, or whose client was closed.
CallFails(r) ==
  LET broken == attempts[reads[r].on] # "open" IN
  /\ reads[r].step = "calling"
  /\ broken \/ faults < MaxFaults
  /\ reads' = [reads EXCEPT ![r].step = "failed"]
  /\ faults' = IF broken THEN faults ELSE faults + 1
  /\ UNCHANGED <<attempts, client, connection, closer, lateFrom, nextOf>>

\* A page is there, and the read ends, is refused for a cursor that comes
\* again, or calls for the next page.
PageAnswered(r) ==
  LET read == reads[r]
      next == nextOf[read.cursor]
      turned == [read EXCEPT !.pages = Append(@, read.cursor),
                             !.cursor = next, !.cursors = @ \cup {next}]
  IN /\ read.step = "calling" /\ attempts[read.on] = "open"
     /\ \/ /\ next = NoMore
           /\ reads' = [reads EXCEPT ![r] =
                [read EXCEPT !.step = "done",
                             !.pages = Append(@, read.cursor)]]
           /\ UNCHANGED <<attempts, connection>>
        \/ /\ next \in read.cursors
           /\ reads' = [reads EXCEPT ![r].step = "drifted"]
           /\ UNCHANGED <<attempts, connection>>
        \/ /\ next \notin read.cursors \cup {NoMore}
           /\ Call(r, turned)
     /\ UNCHANGED <<client, closer, lateFrom, nextOf, faults>>

\* close takes the client, or waits for the attempt under way.
Close ==
  /\ closer.step = "none"
  /\ closer' = IF client # 0 THEN [step |-> "closing", on |-> client]
               ELSE IF connection # 0
               THEN [step |-> "waiting", on |-> connection]
               ELSE [step |-> "closed", on |-> 0]
  /\ client' = 0
  /\ connection' = IF client # 0 THEN 0 ELSE connection
  /\ lateFrom' = Len(attempts) + 1
  /\ UNCHANGED <<attempts, reads, nextOf, faults>>

\* What it waited for is there; or it failed, and close fails with it.
CloseGoesOn ==
  /\ closer.step = "waiting" /\ closer.on \in Ended
  /\ IF attempts[closer.on] = "failed"
     THEN /\ closer' = [closer EXCEPT !.step = "closed"]
          /\ UNCHANGED <<client, connection>>
     ELSE /\ closer' = [closer EXCEPT !.step = "closing"]
          /\ client' = 0 /\ connection' = 0
  /\ UNCHANGED <<attempts, reads, lateFrom, nextOf, faults>>

ClientClosed ==
  /\ closer.step = "closing"
  /\ closer' = [closer EXCEPT !.step = "closed"]
  /\ attempts' = [attempts EXCEPT ![closer.on] = "closed"]
  /\ UNCHANGED <<client, connection, reads, lateFrom, nextOf, faults>>

ConnectionNext ==
  \/ \E r \in Readers :
       StartRead(r) \/ GoOn(r) \/ CallFails(r) \/ PageAnswered(r)
  \/ \E n \in DOMAIN attempts :
       AttemptSucceeds(n) \/ AttemptFails(n) \/ FailedAttemptEnds(n)
  \/ Close \/ CloseGoesOn \/ ClientClosed

(***************************************************************************)
(* Properties.                                                             *)
(***************************************************************************)
\* A client that is open is the transport's, or is being closed: none is
\* made and forgotten.  close leaves one open only to reads that called
\* after it.
NoClientLost ==
  \A n \in DOMAIN attempts : attempts[n] = "open" =>
    /\ n = client \/ (closer.step = "closing" /\ closer.on = n)
    /\ closer.step = "closed" => n >= lateFrom

\* No call fails with an attempt that had ended in failure before it was made.
FailuresAreOwn ==
  \A r \in Readers :
    reads[r].step \in {"waiting", "failed"} =>
      reads[r].on \notin reads[r].past \/ attempts[reads[r].on] # "failed"

\* A read that is done went through the provider's pages, each once, to the
\* last; one that meets a cursor again is refused.
ReadsWhole ==
  \A r \in Readers :
    LET pages == reads[r].pages IN
    /\ \A i, j \in DOMAIN pages : i # j => pages[i] # pages[j]
    /\ \A i \in 2..Len(pages) : pages[i] = nextOf[pages[i - 1]]
    /\ reads[r].step = "done" => nextOf[pages[Len(pages)]] = NoMore

ReadsSound == NoClientLost /\ FailuresAreOwn /\ ReadsWhole
=============================================================================
