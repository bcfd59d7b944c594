------------------------------- MODULE Upload -------------------------------
(***************************************************************************)
(* What a worker's uploads look like from outside: for every job one body,  *)
(* chunks 1, 2, 3... and then one done or error.  A body that is closed in   *)
(* good order has that end; one that is cut off may lack it.  The master's  *)
(* side of this contract is Receive, Eof and Abort of WorkerApi.            *)
(***************************************************************************)
EXTENDS Sequences, Envelope

CONSTANT Jobs

VARIABLES
    link,  \* "none", "open", "closed" or "cut"
    body   \* what has been sent for each job

uploadVars == <<link, body>>

UploadInit ==
    /\ link = [j \in Jobs |-> "none"]
    /\ body = [j \in Jobs |-> <<>>]

Ended(j) == \E i \in 1..Len(body[j]) : body[j][i] \in {Done, Error}

Begin(j) ==
    /\ link[j] = "none"
    /\ link' = [link EXCEPT ![j] = "open"]
    /\ UNCHANGED body

Send(j) ==
    /\ link[j] = "open"
    /\ ~Ended(j)
    /\ \E e \in {Chunk(Len(body[j]) + 1), Done, Error} :
           body' = [body EXCEPT ![j] = Append(@, e)]
    /\ UNCHANGED link

Finish(j) ==
    /\ link[j] = "open"
    /\ Ended(j)
    /\ link' = [link EXCEPT ![j] = "closed"]
    /\ UNCHANGED body

\* The worker stops or loses its connections: the uploads of C are cut, and
\* those of E, which live on, get an error out first.
Cut(C, E) ==
    /\ \A j \in C : link[j] # "closed"
    /\ \A j \in E : link[j] = "open" /\ ~Ended(j)
    /\ link' = [j \in Jobs |-> IF j \in C THEN "cut" ELSE link[j]]
    /\ body' = [j \in Jobs |-> IF j \in E THEN Append(body[j], Error) ELSE body[j]]

UploadNext ==
    \/ \E j \in Jobs : Begin(j) \/ Send(j) \/ Finish(j)
    \/ \E C, E \in SUBSET Jobs : Cut(C, E)

UploadSpec == UploadInit /\ [][UploadNext]_uploadVars
=============================================================================
