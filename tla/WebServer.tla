----------------------------- MODULE WebServer -----------------------------
(***************************************************************************)
(* The web server of server.cpp: descriptions published under an alias     *)
(* (urlconfig.cpp) and files below the root directory, sent by the mini    *)
(* server's threads while the application publishes, withdraws and moves   *)
(* the root.                                                               *)
(*                                                                         *)
(* An aliased entity is shared: the list holds one reference for the       *)
(* publisher and one for each thread that sends it.  It is found by its    *)
(* alias, each time under the list's mutex.                                *)
(***************************************************************************)
EXTENDS Integers, FiniteSets, Sequences, SequencesExt

CONSTANTS HttpEntities,    \* entities that can be published, in this order
          Names,       \* aliases asked for
          Servers,     \* threads that serve requests
          MaxRequests  \* requests served

NoAlias == <<>>
NoEntity == "none"

WebAssumption ==
    /\ MaxRequests \in Nat
    /\ IsFiniteSet(Servers)
    /\ NoEntity \notin HttpEntities

VARIABLES aliasList,     \* the entities in the list, in its order
          ae,            \* AliasedEntity objects, by their entity
          freed,         \* entities that were deleted
          withdrawn,     \* entities the application has withdrawn
          gServerActive,
          job,           \* what each thread is doing
          accepted       \* served so far

webVars == <<aliasList, ae, freed, withdrawn, gServerActive, job, accepted>>

Idle == [pc |-> "idle", request |-> [method |-> "GET", version |-> "1.1"],
         alias |-> NoAlias, entity |-> NoEntity]

(* What the miniserver hands over; version 0.5 stands for those not known. *)
Requests == [method : {"GET", "HEAD", "POST"}, version : {"0.5", "1.1"}]

WebInit ==
    /\ aliasList = <<>>
    /\ ae = [e \in HttpEntities |-> [alias |-> NoAlias, count |-> 0, stopServing |-> FALSE]]
    /\ freed = {} /\ withdrawn = {}
    /\ gServerActive = FALSE
    /\ job = [t \in Servers |-> Idle]
    /\ accepted = 0

-----------------------------------------------------------------------------
(* AliasedEntityList *)
Published(e) == ae[e].alias # NoAlias
Nodes(alias) == {i \in DOMAIN aliasList : ae[aliasList[i]].alias = alias}
Present(alias) == Nodes(alias) # {}
(* The first node with this alias. *)
Find(alias) == Min(Nodes(alias))

(* A name in use gets the address of the new object, which is in no other. *)
ActualAlias(e, name) == IF Present(<<name>>) THEN <<name, e>> ELSE <<name>>

AddEntity(e, name) ==
    /\ aliasList' = Append(aliasList, e)
    /\ ae' = [ae EXCEPT ![e] = [alias |-> ActualAlias(e, name), count |-> 1,
                                stopServing |-> FALSE]]

(* Mutant: a thread that is done resets stopServing but keeps its reference. *)
ReleaseEntityKept(alias, stop) ==
    IF Present(alias)
    THEN /\ ae' = [ae EXCEPT ![aliasList[Find(alias)]].stopServing = stop]
         /\ UNCHANGED <<aliasList, freed>>
    ELSE UNCHANGED <<aliasList, ae, freed>>

(* releaseEntity: stopServing takes the value of the last call, so that a  *)
(* thread that is done makes a withdrawn alias available again for as long *)
(* as another thread is sending it.                                        *)
ReleaseEntity(alias, stop) ==
    IF Present(alias)
    THEN LET e == aliasList[Find(alias)]
         IN  /\ ae' = [ae EXCEPT ![e].stopServing = stop, ![e].count = @ - 1]
             /\ IF ae[e].count <= 1
                THEN /\ aliasList' = RemoveAt(aliasList, Find(alias))
                     /\ freed' = freed \cup {e}
                ELSE UNCHANGED <<aliasList, freed>>
    ELSE UNCHANGED <<aliasList, ae, freed>>

-----------------------------------------------------------------------------
(* Configure_Urlbase: the URL base is put into the document, which is      *)
(* printed into a new entity and published.  What fails before that leaves *)
(* nothing behind.                                                         *)
Configure_Urlbase(e, name) ==
    /\ ~Published(e)
    /\ AddEntity(e, name)
    /\ UNCHANGED <<freed, withdrawn, gServerActive, job, accepted>>

(* UpnpUnRegisterRootDevice withdraws the alias the handle has kept. *)
http_RemoveAlias(e) ==
    /\ Published(e) /\ e \notin withdrawn
    /\ ReleaseEntity(ae[e].alias, TRUE)
    /\ withdrawn' = withdrawn \cup {e}
    /\ UNCHANGED <<gServerActive, job, accepted>>

(* UpnpSetWebServerRootDir with a directory or with NULL, no lock held. *)
http_SetRootDir(given) ==
    /\ gServerActive' = given
    /\ UNCHANGED <<aliasList, ae, freed, withdrawn, job, accepted>>

-----------------------------------------------------------------------------
(* http_ServerCallback: a server that is not active answers with an error. *)
Accept(t, request) ==
    /\ job[t].pc = "idle" /\ accepted < MaxRequests
    /\ accepted' = accepted + 1
    /\ job' = [job EXCEPT ![t] = [Idle EXCEPT !.request = request,
                                     !.pc = IF gServerActive THEN "process" ELSE "error"]]
    /\ UNCHANGED <<aliasList, ae, freed, withdrawn, gServerActive>>

(* ProcessRequest looks at the method and the version first. *)
Served(request) == request.method \in {"GET", "HEAD"} /\ request.version = "1.1"

(* For a method and a version that are both not served HandleError throws  *)
(* in turn, out of the handler it runs in: nothing is answered, and the    *)
(* connection is closed by HandleRequest (miniserver.cpp:816).             *)
Refuse(t) ==
    LET request == job[t].request
        thrown == request.method = "POST" /\ request.version # "1.1"
    IN  /\ job[t].pc = "process" /\ ~Served(request)
        /\ job' = [job EXCEPT ![t].pc = IF thrown THEN "closed" ELSE "error"]
        /\ UNCHANGED <<aliasList, ae, freed, withdrawn, gServerActive, accepted>>

(* TryToGetAlias; the dots of the path are removed before, see Url. *)
GrabEntity(t, alias) ==
    LET e == aliasList[Find(alias)]
    IN  /\ job[t].pc = "process" /\ Served(job[t].request)
        /\ IF Present(alias) /\ ~ae[e].stopServing
           THEN /\ ae' = [ae EXCEPT ![e].count = @ + 1]
                /\ job' = [job EXCEPT ![t].pc = "send", ![t].alias = alias, ![t].entity = e]
           ELSE /\ job' = [job EXCEPT ![t].pc = "file"]
                /\ UNCHANGED ae
        /\ UNCHANGED <<aliasList, freed, withdrawn, gServerActive, accepted>>

(* GetFilename looks at the file, which may be missing, unreadable, or a   *)
(* directory without an index; http_SendMessage opens it again.            *)
GetFilename(t) ==
    /\ job[t].pc = "file"
    /\ \E next \in {"send", "error"} : job' = [job EXCEPT ![t].pc = next]
    /\ UNCHANGED <<aliasList, ae, freed, withdrawn, gServerActive, accepted>>

(* The entity is sent with no lock held; HandleError sends a page of its   *)
(* own.  Then the connection is closed.                                    *)
http_SendMessage(t) ==
    /\ job[t].pc \in {"send", "error"}
    /\ job' = [job EXCEPT ![t].pc = "closed"]
    /\ UNCHANGED <<aliasList, ae, freed, withdrawn, gServerActive, accepted>>

free_alias(t) ==
    /\ job[t].pc = "closed"
    /\ IF job[t].entity = NoEntity THEN UNCHANGED <<aliasList, ae, freed>>
       ELSE ReleaseEntity(job[t].alias, FALSE)
    /\ job' = [job EXCEPT ![t] = Idle]
    /\ UNCHANGED <<withdrawn, gServerActive, accepted>>

Aliases == {<<n>> : n \in Names} \cup {ae[e].alias : e \in {d \in HttpEntities : Published(d)}}

WebNext ==
    \/ \E e \in HttpEntities, n \in Names : Configure_Urlbase(e, n)
    \/ \E e \in HttpEntities : http_RemoveAlias(e)
    \/ \E given \in BOOLEAN : http_SetRootDir(given)
    \/ \E t \in Servers :
          \/ \E request \in Requests : Accept(t, request)
          \/ Refuse(t) \/ GetFilename(t) \/ http_SendMessage(t) \/ free_alias(t)
          \/ \E alias \in Aliases : GrabEntity(t, alias)

WebSpec == WebInit /\ [][WebNext]_webVars

-----------------------------------------------------------------------------
Users(e) == {t \in Servers : job[t].entity = e}

(* The references of aliased entities (grabEntity, releaseEntity): no      *)
(* thread holds an entity that was deleted, an entity is deleted as soon   *)
(* as it is withdrawn and no thread holds it any more and not before, the  *)
(* count is exact, and no two entities of the list share an alias, since   *)
(* references are given back by alias.                                     *)
AliasSound ==
    /\ \A e \in HttpEntities : Published(e) =>
          /\ e \in freed <=> e \in withdrawn /\ Users(e) = {}
          /\ e \in Range(aliasList) <=> e \notin freed
          /\ e \notin freed =>
                ae[e].count = Cardinality(Users(e)) + IF e \in withdrawn THEN 0 ELSE 1
    /\ \A i, j \in DOMAIN aliasList :
          ae[aliasList[i]].alias = ae[aliasList[j]].alias => i = j
=============================================================================
