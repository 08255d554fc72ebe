------------------------ MODULE ConversationsProofs -------------------------
(***************************************************************************)
(* For any number of users, clients and starts: createConversation answers *)
(* what was asked for, and makes a second 1:1 conversation of the same     *)
(* members only in a race, which CInv proves without the lists; and what a *)
(* client lists is its user's, each conversation once, and current but for *)
(* the news it missed, which IInv proves from what is still on its way.    *)
(***************************************************************************)
EXTENDS Conversations, FiniteSetTheorems, TLAPS

Document == [kind : Kinds, members : SUBSET Users]

Request ==
    [pc : {"find", "create"}, kind : Kinds, members : SUBSET Users, known : SUBSET Ids]
    \cup [pc : {"answer"}, kind : Kinds, members : SUBSET Users, conv : Ids]
    \cup {None}

(* What a request in progress has learnt: no conversation that was         *)
(* answered before it began has its members, once findOne said so.         *)
StartHolds(c) ==
    LET t == start[c] IN
    /\ t.pc # "none" => UserOf[c] \in t.members
    /\ t.pc \in {"find", "create"} => t.known \subseteq DOMAIN convs
    /\ t.pc = "find" => t.kind = "1:1"
    /\ t.pc = "create" /\ t.kind = "1:1" =>
          \A i \in t.known : ~(convs[i].kind = "1:1" /\ convs[i].members = t.members)
    /\ t.pc = "answer" =>
          /\ t.conv \in DOMAIN convs
          /\ convs[t.conv].kind = t.kind
          /\ convs[t.conv].members = t.members

DocumentHolds(j) ==
    \A i \in known[j] :
        /\ i \in DOMAIN convs
        /\ ~(convs[i].kind = "1:1" /\ convs[j] = convs[i])

CInv ==
    /\ convs \in Seq(Document) /\ Len(convs) <= MaxConvs
    /\ start \in [Clients -> Request]
    /\ known \in [Ids -> SUBSET Ids]
    /\ answered \subseteq DOMAIN convs
    /\ \A c \in Clients : StartHolds(c)
    /\ \A j \in DOMAIN convs : DocumentHolds(j)

(* Documents are numbered within the bound. *)
LEMMA DocumentIds ==
    ASSUME CInv
    PROVE  /\ Len(convs) \in Nat /\ DOMAIN convs = 1 .. Len(convs)
           /\ DOMAIN convs \subseteq Ids
BY ConversationsAssumption DEF CInv, Ids

(* A step that leaves documents alone keeps what is known of them. *)
LEMMA DocumentsStay ==
    ASSUME CInv, UNCHANGED <<convs, known>>, start' \in [Clients -> Request],
           answered' \subseteq DOMAIN convs, \A c \in Clients : StartHolds(c)'
    PROVE  CInv'
BY DEF CInv, DocumentHolds

(* One request moves on; the others hold what they held. *)
LEMMA RequestMoves ==
    ASSUME CInv, UNCHANGED <<convs, known>>, NEW c \in Clients, NEW t \in Request,
           start' = Set(start, c, t), answered' \subseteq DOMAIN convs, StartHolds(c)'
    PROVE  CInv'
<1>1. start' \in [Clients -> Request]
  BY DEF CInv, Set
<1>2. ASSUME NEW d \in Clients, d # c PROVE StartHolds(d)'
  <2>1. start'[d] = start[d]
    BY <1>2 DEF CInv, Set
  <2>2. QED BY <2>1 DEF CInv, StartHolds
<1>3. QED BY <1>1, <1>2, DocumentsStay

(* Initially nothing is asked for. *)
LEMMA InitHolds == Init => CInv
<1> SUFFICES ASSUME Init PROVE CInv
  OBVIOUS
<1>1. convs = <<>> /\ answered = {} /\ start = [c \in Clients |-> None]
      /\ known = [k \in Ids |-> {}]
  BY DEF Init
<1>2. \A c \in Clients : StartHolds(c)
  BY <1>1 DEF StartHolds, None
<1>3. DOMAIN convs = {} /\ Len(convs) <= MaxConvs
  BY <1>1, ConversationsAssumption
<1>4. start \in [Clients -> Request]
  BY <1>1 DEF Request
<1>5. QED BY <1>1, <1>2, <1>3, <1>4 DEF CInv

(* A start remembers what was answered before it. *)
LEMMA StartKeeps ==
    ASSUME CInv, NEW c \in Clients, NEW kind \in Kinds, NEW o \in Users, Start(c, kind, {o})
    PROVE  CInv'
<1> DEFINE t == [pc |-> IF kind = "1:1" THEN "find" ELSE "create", kind |-> kind,
                 members |-> {UserOf[c]} \cup {o}, known |-> answered]
<1>1. start' = Set(start, c, t) /\ UNCHANGED <<convs, known, answered>>
  BY DEF Start, serverVars, convVars
<1>2. answered \in SUBSET Ids
  BY DocumentIds DEF CInv
<1>3. t \in Request
  BY <1>2, ConversationsAssumption DEF Request
<1>4. start'[c] = t
  BY <1>1 DEF CInv, Set
<1>5. /\ t.known = answered /\ t.kind = kind /\ answered \subseteq DOMAIN convs
      /\ t.pc = IF kind = "1:1" THEN "find" ELSE "create"
  BY DEF CInv
<1>6. StartHolds(c)'
  BY <1>1, <1>4, <1>5 DEF StartHolds
<1>7. QED BY <1>1, <1>3, <1>6, RequestMoves DEF CInv

(* findOne: a match, or the certainty that there is none. *)
LEMMA FindKeeps ==
    ASSUME CInv, NEW c \in Clients, Find(c)
    PROVE  CInv'
<1> DEFINE found == {k \in DOMAIN convs : Matches(k, start[c].members)}
<1>1. start[c].pc = "find" /\ start[c] \in Request /\ StartHolds(c)
      /\ UNCHANGED <<convs, known, answered>>
  BY DEF Find, CInv, serverVars, convVars
<1>2. start[c] \in [pc : {"find", "create"}, kind : Kinds, members : SUBSET Users,
                    known : SUBSET Ids]
  BY <1>1 DEF Request, None
<1>3. CASE found = {}
  <2> DEFINE t == [start[c] EXCEPT !.pc = "create"]
  <2>1. start' = Set(start, c, t)
    BY <1>3 DEF Find
  <2>2. t \in Request /\ t.pc = "create" /\ t.kind = start[c].kind
        /\ t.members = start[c].members /\ t.known = start[c].known
    BY <1>2 DEF Request
  <2>3. start'[c] = t
    BY <2>1 DEF CInv, Set
  <2>4. t.known \subseteq DOMAIN convs
    BY <1>1, <2>2 DEF StartHolds
  <2>5. \A i \in DOMAIN convs : ~(convs[i].kind = "1:1" /\ convs[i].members = t.members)
    BY <1>3, <2>2 DEF Matches
  <2>6. StartHolds(c)'
    BY <1>1, <2>2, <2>3, <2>4, <2>5 DEF StartHolds
  <2>7. QED BY <1>1, <2>1, <2>2, <2>6, RequestMoves DEF CInv
<1>4. CASE found # {}
  <2>1. PICK k \in found :
            start' = Set(start, c, [pc |-> "answer", kind |-> "1:1",
                                    members |-> start[c].members, conv |-> k])
    BY <1>4 DEF Find
  <2> DEFINE t == [pc |-> "answer", kind |-> "1:1", members |-> start[c].members, conv |-> k]
  <2>2. k \in DOMAIN convs /\ k \in Ids /\ convs[k].kind = "1:1"
        /\ convs[k].members = start[c].members
    BY <2>1, DocumentIds DEF Matches
  <2>3. t \in Request
    BY <1>2, <2>2 DEF Request, Kinds
  <2>4. start'[c] = t
    BY <2>1 DEF CInv, Set
  <2>5. StartHolds(c)'
    BY <1>1, <2>2, <2>4 DEF StartHolds
  <2>6. QED BY <1>1, <2>1, <2>3, <2>5, RequestMoves DEF CInv
<1>5. QED BY <1>3, <1>4

(* The insert appends a document, whose number is new. *)
LEMMA CreateAppends ==
    ASSUME CInv, NEW c \in Clients, Create(c)
    PROVE  LET n == Len(convs) + 1
               doc == [kind |-> start[c].kind, members |-> start[c].members]
           IN  /\ convs' \in Seq(Document)
               /\ DOMAIN convs' = DOMAIN convs \cup {n}
               /\ \A i \in DOMAIN convs : convs'[i] = convs[i]
               /\ convs'[n] = doc
               /\ n \notin DOMAIN convs /\ n \in Ids /\ Len(convs') <= MaxConvs
<1> DEFINE n == Len(convs) + 1
           doc == [kind |-> start[c].kind, members |-> start[c].members]
<1>1. start[c].pc = "create" /\ Len(convs) < MaxConvs /\ convs' = Append(convs, doc)
  BY DEF Create
<1>2. start[c] \in [pc : {"find", "create"}, kind : Kinds, members : SUBSET Users,
                    known : SUBSET Ids]
  BY <1>1 DEF CInv, Request, None
<1>3. convs \in Seq(Document) /\ Len(convs) \in Nat /\ MaxConvs \in Nat /\ doc \in Document
  BY <1>2, ConversationsAssumption DEF CInv, Document
<1>4. QED BY <1>1, <1>3 DEF Ids

(* Its request has made sure that it is not a second one. *)
LEMMA CreateKeeps ==
    ASSUME CInv, NEW c \in Clients, Create(c)
    PROVE  CInv'
<1> DEFINE n == Len(convs) + 1
           doc == [kind |-> start[c].kind, members |-> start[c].members]
           t == [pc |-> "answer", kind |-> start[c].kind, members |-> start[c].members,
                 conv |-> n]
<1>1. /\ start[c].pc = "create"
      /\ Len(convs) < MaxConvs
      /\ convs' = Append(convs, doc)
      /\ known' = [known EXCEPT ![n] = start[c].known]
      /\ start' = Set(start, c, t)
      /\ answered' = answered
  BY DEF Create
<1>2. /\ start[c] \in [pc : {"find", "create"}, kind : Kinds, members : SUBSET Users,
                       known : SUBSET Ids]
      /\ StartHolds(c)
  BY <1>1 DEF CInv, Request, None
<1>4. /\ convs' \in Seq(Document)
      /\ DOMAIN convs' = DOMAIN convs \cup {n}
      /\ \A i \in DOMAIN convs : convs'[i] = convs[i]
      /\ convs'[n] = doc
      /\ n \notin DOMAIN convs /\ n \in Ids /\ Len(convs') <= MaxConvs
  BY CreateAppends
<1>5. /\ known' \in [Ids -> SUBSET Ids]
      /\ known'[n] = start[c].known
      /\ \A j \in DOMAIN convs : known'[j] = known[j]
  BY <1>1, <1>2, <1>4 DEF CInv
<1>6. start' \in [Clients -> Request] /\ start'[c] = t
      /\ \A d \in Clients : d # c => start'[d] = start[d]
  BY <1>1, <1>2, <1>4 DEF CInv, Set, Request
<1>7. ASSUME NEW d \in Clients PROVE StartHolds(d)'
  <2>1. CASE d = c
    BY <1>1, <1>2, <1>4, <1>6, <2>1 DEF StartHolds
  <2>2. CASE d # c
    <3>1. start'[d] = start[d] /\ StartHolds(d)
      BY <1>6, <2>2 DEF CInv
    <3>2. QED BY <1>4, <3>1 DEF StartHolds
  <2>3. QED BY <2>1, <2>2
<1>8. ASSUME NEW j \in DOMAIN convs' PROVE DocumentHolds(j)'
  <2>1. CASE j = n
    <3>1. ASSUME NEW i \in known'[n]
          PROVE  i \in DOMAIN convs' /\ ~(convs'[i].kind = "1:1" /\ convs'[n] = convs'[i])
      <4>1. i \in start[c].known /\ i \in DOMAIN convs /\ convs'[i] = convs[i]
        BY <1>1, <1>2, <1>4, <1>5, <3>1 DEF StartHolds
      <4>2. start[c].kind = "1:1" =>
                ~(convs[i].kind = "1:1" /\ convs[i].members = start[c].members)
        BY <1>1, <1>2, <4>1 DEF StartHolds
      <4>3. doc.kind = start[c].kind /\ doc.members = start[c].members
        OBVIOUS
      <4>4. QED BY <1>4, <4>1, <4>2, <4>3
    <3>2. QED BY <2>1, <3>1 DEF DocumentHolds
  <2>2. CASE j # n
    <3>1. j \in DOMAIN convs /\ DocumentHolds(j) /\ known'[j] = known[j]
          /\ convs'[j] = convs[j]
      BY <1>4, <1>5, <1>8, <2>2 DEF CInv
    <3>2. QED BY <1>4, <3>1 DEF DocumentHolds
  <2>3. QED BY <2>1, <2>2
<1>9. answered' \subseteq DOMAIN convs'
  BY <1>1, <1>4 DEF CInv
<1>10. QED BY <1>4, <1>5, <1>6, <1>7, <1>8, <1>9 DEF CInv

(* The answer arrives, or the request fails. *)
LEMMA EndKeeps ==
    ASSUME CInv, NEW c \in Clients, StartAnswered(c) \/ StartFails(c)
    PROVE  CInv'
<1>1. start' = Set(start, c, None) /\ UNCHANGED <<convs, known>>
  BY DEF StartAnswered, StartFails, serverVars, convVars
<1>2. answered' \subseteq DOMAIN convs
  <2>1. CASE StartAnswered(c)
    <3>1. start[c].conv \in DOMAIN convs
      BY <2>1 DEF StartAnswered, CInv, StartHolds
    <3>2. QED BY <2>1, <3>1 DEF StartAnswered, CInv
  <2>2. CASE StartFails(c)
    BY <2>2 DEF StartFails, CInv
  <2>3. QED BY <2>1, <2>2
<1>3. start'[c] = None
  BY <1>1 DEF CInv, Set
<1>4. StartHolds(c)'
  BY <1>3 DEF StartHolds, None
<1>5. None \in Request
  BY DEF Request
<1>6. QED BY <1>1, <1>2, <1>4, <1>5, RequestMoves

(* Lists, messages and statuses do not touch documents or requests. *)
LEMMA OthersKeep ==
    ASSUME CInv, UNCHANGED <<convs, start, known, answered>>
    PROVE  CInv'
BY DEF CInv, StartHolds, DocumentHolds

(* The invariant holds throughout. *)
LEMMA Inductive == Spec => []CInv
<1>1. ASSUME CInv, [Next]_vars PROVE CInv'
  <2>1. CASE \E c \in Clients, kind \in Kinds, o \in Users : Start(c, kind, {o})
    BY <1>1, <2>1, StartKeeps
  <2>2. CASE \E c \in Clients : Find(c) \/ Create(c) \/ StartAnswered(c) \/ StartFails(c)
    BY <1>1, <2>2, FindKeeps, CreateKeeps, EndKeeps
  <2>3. CASE \E c \in Clients : ListRead(c) \/ ListArrives(c) \/ ListFails(c)
    BY <1>1, <2>3, OthersKeep DEF ListRead, ListArrives, ListFails, serverVars, convVars
  <2>4. CASE \E k \in DOMAIN convs : Save(k)
    BY <1>1, <2>4, OthersKeep DEF Save
  <2>5. CASE \E u \in Movers, isOnline \in BOOLEAN : StatusSet(u, isOnline)
    BY <1>1, <2>5, OthersKeep DEF StatusSet, convVars
  <2>6. CASE \E e \in unsent, room \in SUBSET Mounted :
                Announce(e, room) \/ StatusAnnounced(e, room)
    BY <1>1, <2>6, OthersKeep DEF Announce, StatusAnnounced, convVars
  <2>7. CASE \E e \in unsent : Unannounced(e)
    BY <1>1, <2>7, OthersKeep DEF Unannounced, convVars
  <2>8. CASE \E c \in Clients : Receive(c) \/ ReceivePresence(c)
    BY <1>1, <2>8, OthersKeep DEF Receive, ReceivePresence, Took, serverVars, convVars
  <2>9. CASE UNCHANGED vars
    BY <1>1, <2>9, OthersKeep DEF vars, serverVars, convVars
  <2>10. QED BY <1>1, <2>1, <2>2, <2>3, <2>4, <2>5, <2>6, <2>7, <2>8, <2>9 DEF Next
<1>2. CInv /\ [Next]_vars => CInv'
  BY <1>1
<1>3. QED BY <1>2, InitHolds, PTL DEF Spec

(* Whatever starts race or fail, the conversation that is answered is of   *)
(* the kind and the members that were asked for.                           *)
THEOREM AnswerTheorem == Spec => []StartGivesTheAsked
<1>1. ASSUME CInv PROVE StartGivesTheAsked
  <2>1. ASSUME NEW c \in Clients, start[c].pc = "answer"
        PROVE  convs[start[c].conv] = [kind |-> start[c].kind, members |-> start[c].members]
    <3>1. /\ start[c].conv \in DOMAIN convs
          /\ convs[start[c].conv].kind = start[c].kind
          /\ convs[start[c].conv].members = start[c].members
      BY <1>1, <2>1 DEF CInv, StartHolds
    <3>2. convs[start[c].conv] \in Document
      BY <1>1, <3>1 DEF CInv
    <3>3. QED BY <3>1, <3>2 DEF Document
  <2>2. QED BY <2>1 DEF StartGivesTheAsked
<1>2. CInv => StartGivesTheAsked
  BY <1>1
<1>3. QED BY <1>2, Inductive, PTL

(* A second 1:1 conversation of the same members was begun before anyone   *)
(* was told of the first.                                                  *)
THEOREM ReuseTheorem == Spec => []OneToOneIsReused
<1>1. CInv => OneToOneIsReused
  BY DEF CInv, DocumentHolds, OneToOneIsReused
<1>2. QED BY <1>1, Inductive, PTL

-----------------------------------------------------------------------------
(* The lists *)

AnyEntry == [conv : Ids, last : 0 .. MaxNews, members : SUBSET Users, online : SUBSET Users]

AnyEvent ==
    [kind : {"message"}, conv : Ids, last : 0 .. MaxNews]
    \cup [kind : {"presence"}, user : Users, online : BOOLEAN, at : 0 .. MaxNews]

Fetch == [pc : {"asked"}] \cup [pc : {"read"}, page : Seq(AnyEntry)] \cup {None}

Types ==
    /\ updatedAt \in [Ids -> Nat]
    /\ last \in [Ids -> 0 .. MaxNews] /\ \A k \in Ids : last[k] <= news
    /\ announced \in [Ids -> 0 .. MaxNews]
    /\ online \subseteq Users /\ told \subseteq Users
    /\ unsent \subseteq AnyEvent
    /\ \A e \in unsent : e.kind = "message" => e.conv \in DOMAIN convs
    /\ news \in 0 .. MaxNews /\ starts \in 0 .. MaxStarts
    /\ listing \in [Clients -> Fetch]
    /\ events \in [Clients -> Seq(AnyEvent)]
    /\ list \in [Clients -> Seq(AnyEntry)]
    /\ missed \in [Clients -> SUBSET (Ids \cup Users)]

Pending(c, k) ==
    {i \in DOMAIN events[c] : events[c][i].kind = "message" /\ events[c][i].conv = k}

PendingStatus(c, u) ==
    {i \in DOMAIN events[c] : events[c][i].kind = "presence" /\ events[c][i].user = u}

Unsent(k) == {e \in unsent : e.kind = "message" /\ e.conv = k}

UnsentStatus(u) == {e \in unsent : e.kind = "presence" /\ e.user = u}

(* The last event on its way about a conversation or a user tells what was *)
(* announced last, unless a later announcement missed the client.          *)
EventHolds(c, i) ==
    LET e == events[c][i] IN
    /\ e.kind = "message" =>
          /\ e.conv \in DOMAIN convs
          /\ \/ e.last = announced[e.conv]
             \/ \E j \in Pending(c, e.conv) : j > i
             \/ e.conv \in missed[c]
    /\ e.kind = "presence" =>
          \/ e.online <=> e.user \in told
          \/ \E j \in PendingStatus(c, e.user) : j > i
          \/ e.user \in missed[c]

(* A status or a last message on a list is the present one, or the one     *)
(* last announced, or news that will correct it is on its way to the       *)
(* client or has yet to be announced, or the client has missed some.       *)
LastHolds(c, e) ==
    \/ e.last = announced[e.conv] \/ e.last = last[e.conv]
    \/ Pending(c, e.conv) # {} \/ Unsent(e.conv) # {}
    \/ e.conv \in missed[c]

StatusHolds(c, e, u) ==
    \/ u \in e.online <=> u \in online
    \/ u \in e.online <=> u \in told
    \/ PendingStatus(c, u) # {} \/ UnsentStatus(u) # {}
    \/ u \in missed[c]

EntryHolds(c, e) ==
    /\ e.conv \in Mine(c)
    /\ LastHolds(c, e)
    /\ \A u \in e.members : StatusHolds(c, e, u)

NoRepeats(page) == \A i, j \in DOMAIN page : page[i].conv = page[j].conv => i = j

PageHolds(c, page) == NoRepeats(page) /\ \A i \in DOMAIN page : EntryHolds(c, page[i])

ListHolds(c) ==
    /\ \A i \in DOMAIN events[c] : EventHolds(c, i)
    /\ PageHolds(c, list[c])
    /\ listing[c].pc = "read" => PageHolds(c, listing[c].page)

IInv == CInv /\ Types /\ \A c \in Clients : ListHolds(c)

(* Nothing on a list or on its way gets worse: what is not missed is still *)
(* on its way, or is compared to what it was compared to.                  *)
LastKept(c, k) ==
    \/ /\ Pending(c, k) # {} => Pending(c, k)' # {}
       /\ Unsent(k) # {} => Unsent(k)' # {}
       /\ k \in missed[c] => k \in missed'[c]
       /\ announced'[k] = announced[k] /\ last'[k] = last[k]
    \/ Pending(c, k)' # {} \/ Unsent(k)' # {}
    \/ k \in missed'[c]

StatusKept(c, u) ==
    \/ /\ PendingStatus(c, u) # {} => PendingStatus(c, u)' # {}
       /\ UnsentStatus(u) # {} => UnsentStatus(u)' # {}
       /\ u \in missed[c] => u \in missed'[c]
       /\ (u \in online' <=> u \in online) /\ (u \in told' <=> u \in told)
    \/ PendingStatus(c, u)' # {} \/ UnsentStatus(u)' # {}
    \/ u \in missed'[c]

Kept(c) ==
    /\ Mine(c) \subseteq Mine(c)'
    /\ \A k \in Ids : LastKept(c, k)
    /\ \A u \in Users : StatusKept(c, u)

(* What an entry promises outlives a step that keeps it. *)
LEMMA LastStays ==
    ASSUME NEW c \in Clients, NEW e \in AnyEntry, LastHolds(c, e), LastKept(c, e.conv)
    PROVE  LastHolds(c, e)'
BY DEF LastHolds, LastKept

LEMMA StatusStays ==
    ASSUME NEW c \in Clients, NEW e \in AnyEntry, NEW u, StatusHolds(c, e, u),
           StatusKept(c, u)
    PROVE  StatusHolds(c, e, u)'
BY DEF StatusHolds, StatusKept

LEMMA EntryStays ==
    ASSUME NEW c \in Clients, NEW e \in AnyEntry, EntryHolds(c, e),
           Mine(c) \subseteq Mine(c)',
           LastKept(c, e.conv), \A u \in Users : StatusKept(c, u)
    PROVE  EntryHolds(c, e)'
<1>1. e.conv \in Mine(c)' /\ LastHolds(c, e)'
  BY LastStays DEF EntryHolds
<1>2. \A u \in e.members : StatusHolds(c, e, u)'
  BY StatusStays DEF EntryHolds, AnyEntry
<1>3. QED BY <1>1, <1>2 DEF EntryHolds

(* So does what a whole list or page promises. *)
LEMMA PageStays ==
    ASSUME NEW c \in Clients, Kept(c), NEW page \in Seq(AnyEntry), PageHolds(c, page)
    PROVE  PageHolds(c, page)'
<1>1. ASSUME NEW i \in DOMAIN page PROVE EntryHolds(c, page[i])'
  <2>1. page[i] \in AnyEntry
    OBVIOUS
  <2>2. page[i].conv \in Ids
    BY <2>1 DEF AnyEntry
  <2>3. EntryHolds(c, page[i])
    BY DEF PageHolds
  <2>4. QED BY <2>1, <2>2, <2>3, EntryStays DEF Kept
<1>2. QED BY <1>1 DEF PageHolds, NoRepeats

(* The page of a response on its way is a typed list. *)
LEMMA FetchFacts ==
    ASSUME Types, NEW c \in Clients
    PROVE  /\ list[c] \in Seq(AnyEntry)
           /\ listing[c].pc = "read" => listing[c].page \in Seq(AnyEntry)
           /\ events[c] \in Seq(AnyEvent)
<1>1. listing[c] \in Fetch /\ list[c] \in Seq(AnyEntry) /\ events[c] \in Seq(AnyEvent)
  BY DEF Types
<1>2. QED BY <1>1 DEF Fetch, None

(* A step that touches no list, no page and no event of a client, and      *)
(* takes back nothing the client was told.                                 *)
LEMMA ListStays ==
    ASSUME IInv, NEW c \in Clients, list'[c] = list[c], listing'[c] = listing[c], Kept(c),
           \A i \in DOMAIN events'[c] : EventHolds(c, i)'
    PROVE  ListHolds(c)'
<1>1. ListHolds(c)
  BY DEF IInv
<1>2. PageHolds(c, list[c])'
  BY <1>1, FetchFacts, PageStays DEF IInv, ListHolds
<1>3. ASSUME listing[c].pc = "read" PROVE PageHolds(c, listing[c].page)'
  BY <1>1, <1>3, FetchFacts, PageStays DEF IInv, ListHolds
<1>4. QED BY <1>2, <1>3 DEF ListHolds, PageHolds

-----------------------------------------------------------------------------
(* Steps in which nothing is announced and nothing is received *)

Steady ==
    /\ UNCHANGED <<last, announced, online, told, unsent, events>>
    /\ \A k \in DOMAIN convs : k \in DOMAIN convs' /\ convs'[k] = convs[k]
    /\ \A c \in Clients : missed[c] \subseteq missed'[c]

LEMMA SteadyKept ==
    ASSUME IInv, Steady, NEW c \in Clients
    PROVE  /\ Kept(c)
           /\ \A i \in DOMAIN events'[c] : EventHolds(c, i)'
<1>1. Mine(c) \subseteq Mine(c)'
  BY DEF Steady, Mine
<1>2. missed[c] \subseteq missed'[c] /\ events'[c] = events[c]
  BY DEF Steady
<1>3. \A x : Pending(c, x)' = Pending(c, x) /\ PendingStatus(c, x)' = PendingStatus(c, x)
  BY <1>2 DEF Pending, PendingStatus
<1>4. \A k \in Ids : LastKept(c, k)
  BY <1>3 DEF LastKept, Steady, Unsent
<1>5. \A u \in Users : StatusKept(c, u)
  BY <1>3 DEF StatusKept, Steady, UnsentStatus
<1>6. ASSUME NEW i \in DOMAIN events'[c] PROVE EventHolds(c, i)'
  <2>1. EventHolds(c, i)
    BY <1>2 DEF IInv, ListHolds
  <2>2. QED BY <2>1, <1>2, <1>3 DEF EventHolds, Steady
<1>7. QED BY <1>1, <1>2, <1>4, <1>5, <1>6 DEF Kept

(* createConversation before its answer: the lists are not involved. *)
LEMMA RequestsKeepLists ==
    ASSUME IInv, CInv', NEW d \in Clients,
           \/ \E kind \in Kinds, o \in Users : Start(d, kind, {o})
           \/ Find(d) \/ Create(d) \/ StartFails(d)
    PROVE  IInv'
<1>1. /\ UNCHANGED <<last, announced, online, told, unsent, news, listing, events, list,
                     missed>>
      /\ starts' = starts \/ (starts < MaxStarts /\ starts' = starts + 1)
      /\ \/ convs' = convs /\ updatedAt' = updatedAt
         \/ /\ Create(d)
            /\ updatedAt' = [updatedAt EXCEPT ![Len(convs) + 1] = Now]
  BY DEF Start, Find, Create, StartFails, serverVars, convVars, statusVars, clientVars
<1>2. \A k \in DOMAIN convs : k \in DOMAIN convs' /\ convs'[k] = convs[k]
  <2>1. CASE convs' = convs
    BY <2>1
  <2>2. CASE convs' # convs
    BY <1>1, <2>2, CreateAppends DEF IInv
  <2>3. QED BY <2>1, <2>2
<1>3. Types'
  <2>1. Now \in Nat /\ MaxStarts \in Nat /\ starts \in 0 .. MaxStarts
    BY DocumentIds, ConversationsAssumption DEF IInv, Types, Now
  <2>2. starts' \in 0 .. MaxStarts
    BY <1>1, <2>1
  <2>3. updatedAt \in [Ids -> Nat]
    BY DEF IInv, Types
  <2>4. updatedAt' \in [Ids -> Nat]
    BY <1>1, <2>1, <2>3
  <2>5. QED BY <1>1, <1>2, <2>2, <2>4 DEF IInv, Types
<1>4. Steady
  BY <1>1, <1>2 DEF Steady
<1>5. ASSUME NEW c \in Clients PROVE ListHolds(c)'
  BY <1>1, <1>4, SteadyKept, ListStays
<1>6. QED BY <1>3, <1>5 DEF IInv

(* Only the client d has another list, or another request for it. *)
LEMMA OneListChanges ==
    ASSUME IInv, CInv', Types', Steady, NEW d \in Clients,
           \A c \in Clients : c # d => list'[c] = list[c] /\ listing'[c] = listing[c],
           PageHolds(d, list[d])',
           listing'[d].pc = "read" => PageHolds(d, listing[d].page)'
    PROVE  IInv'
<1>1. ASSUME NEW c \in Clients PROVE ListHolds(c)'
  <2>1. CASE c = d
    <3>1. \A i \in DOMAIN events'[c] : EventHolds(c, i)'
      BY SteadyKept
    <3>2. QED BY <2>1, <3>1 DEF ListHolds
  <2>2. CASE c # d
    BY <2>2, SteadyKept, ListStays
  <2>3. QED BY <2>1, <2>2
<1>2. QED BY <1>1 DEF IInv

(* An element put in front of a sequence. *)
LEMMA InFront ==
    ASSUME NEW S, NEW s \in Seq(S), NEW x \in S
    PROVE  /\ <<x>> \o s \in Seq(S)
           /\ DOMAIN (<<x>> \o s) = 1 .. Len(s) + 1
           /\ (<<x>> \o s)[1] = x
           /\ \A i \in 2 .. Len(s) + 1 : i - 1 \in DOMAIN s /\ (<<x>> \o s)[i] = s[i - 1]
OBVIOUS

(* A conversation that was started shows no last message and nobody's      *)
(* status; if it has a message, the client counts as having missed it.     *)
LEMMA StartAnsweredKeepsLists ==
    ASSUME IInv, CInv', NEW d \in Clients, StartAnswered(d)
    PROVE  IInv'
<1>1. PICK k : k = start[d].conv
  OBVIOUS
<1>2. PICK old : old = list[d]
  OBVIOUS
<1>3. PICK page : page = Started(d, k)
  OBVIOUS
<1>4. /\ start[d].pc = "answer"
      /\ list' = Set(list, d, page)
      /\ missed' = IF k \in Listed(d) \/ last[k] = 0 THEN missed
                   ELSE Set(missed, d, missed[d] \cup {k})
      /\ UNCHANGED <<convs, updatedAt, last, announced, online, told, unsent, news, starts,
                     listing, events>>
  BY <1>1, <1>3 DEF StartAnswered, serverVars, convVars, statusVars
<1>5. k \in Mine(d) /\ k \in Ids
  <2>1. k \in DOMAIN convs /\ convs[k].members = start[d].members
        /\ UserOf[d] \in start[d].members
    BY <1>1, <1>4 DEF IInv, CInv, StartHolds
  <2>2. QED BY <2>1, DocumentIds DEF Mine, IInv
<1>6. /\ missed' \in [Clients -> SUBSET (Ids \cup Users)]
      /\ \A c \in Clients : missed[c] \subseteq missed'[c]
      /\ k \in Listed(d) \/ last[k] = 0 \/ k \in missed'[d]
  BY <1>4, <1>5 DEF IInv, Types, Set
<1>7. old \in Seq(AnyEntry) /\ Bare(k) \in AnyEntry
  <2>1. old \in Seq(AnyEntry)
    BY <1>2, FetchFacts DEF IInv
  <2>2. 0 \in 0 .. MaxNews
    BY ConversationsAssumption
  <2>3. QED BY <1>5, <2>1, <2>2 DEF Bare, AnyEntry
<1>8. page \in Seq(AnyEntry) /\ page = IF k \in Listed(d) THEN old ELSE <<Bare(k)>> \o old
  BY <1>2, <1>3, <1>7, InFront DEF Started
<1>9. /\ list' \in [Clients -> Seq(AnyEntry)]
      /\ list'[d] = page
      /\ \A c \in Clients : c # d => list'[c] = list[c]
  BY <1>4, <1>8 DEF IInv, Types, Set
<1>10. Types'
  BY <1>4, <1>6, <1>9 DEF IInv, Types
<1>11. Steady
  BY <1>4, <1>6 DEF Steady
<1>12. PageHolds(d, old)'
  BY <1>2, <1>7, <1>11, SteadyKept, PageStays DEF IInv, ListHolds
<1>13. PageHolds(d, page)'
  <2>1. CASE k \in Listed(d)
    BY <1>8, <1>12, <2>1
  <2>2. CASE k \notin Listed(d)
    <3>1. page = <<Bare(k)>> \o old
      BY <1>8, <2>2
    <3>2. EntryHolds(d, Bare(k))'
      <4>1. k \in Mine(d)' /\ Bare(k).conv = k /\ Bare(k).last = 0 /\ Bare(k).members = {}
        BY <1>4, <1>5 DEF Mine, Bare
      <4>2. 0 = last'[k] \/ k \in missed'[d]
        BY <1>4, <1>6, <2>2
      <4>3. LastHolds(d, Bare(k))'
        BY <4>1, <4>2 DEF LastHolds, Bare
      <4>4. QED BY <4>1, <4>3 DEF EntryHolds, Bare
    <3>3. \A i \in DOMAIN old : old[i].conv # k
      BY <1>2, <2>2 DEF Listed, ToSet
    <3>4. NoRepeats(page) /\ Bare(k).conv = k
      BY <1>7, <1>12, <3>1, <3>3, InFront DEF NoRepeats, PageHolds, Bare
    <3>5. ASSUME NEW i \in DOMAIN page PROVE EntryHolds(d, page[i])'
      <4>1. i = 1 \/ i \in 2 .. Len(old) + 1
        BY <1>7, <3>1, InFront
      <4>2. page[i] = Bare(k) \/ \E j \in DOMAIN old : page[i] = old[j]
        BY <1>7, <3>1, <4>1, InFront
      <4>3. QED BY <1>12, <3>2, <4>2 DEF PageHolds
    <3>6. QED BY <3>4, <3>5 DEF PageHolds, NoRepeats
  <2>3. QED BY <2>1, <2>2
<1>14. listing'[d].pc = "read" => PageHolds(d, listing[d].page)'
  BY <1>4, <1>11, SteadyKept, FetchFacts, PageStays DEF IInv, ListHolds
<1>15. QED BY <1>4, <1>9, <1>10, <1>11, <1>13, <1>14, OneListChanges

(* What the database answers to the list query is right when it is read. *)
LEMMA PageIsRight ==
    ASSUME IInv, NEW c \in Clients, NEW page \in Pages(c)
    PROVE  page \in Seq(AnyEntry) /\ PageHolds(c, page)
<1>1. PICK order \in SetToSeqs(Mine(c)) : page = [i \in DOMAIN order |-> Populated(order[i])]
  BY DEF Pages, ByRecency
<1> DEFINE n == Cardinality(Mine(c))
<1>2. n \in Nat
  <2>1. IsFiniteSet(1 .. Len(convs)) /\ Mine(c) \subseteq 1 .. Len(convs)
    BY DocumentIds, FS_Interval DEF IInv, Mine
  <2>2. QED BY <2>1, FS_Subset, FS_CardinalityType
<1>3. /\ order \in [1 .. n -> Mine(c)]
      /\ \A i, j \in 1 .. n : i # j => order[i] # order[j]
  BY <1>1 DEF SetToSeqs
<1>4. ASSUME NEW k \in Mine(c)
      PROVE  /\ Populated(k) \in AnyEntry /\ Populated(k).conv = k
             /\ EntryHolds(c, Populated(k))
  <2>1. k \in Ids /\ convs[k] \in Document /\ last[k] \in 0 .. MaxNews
    BY DocumentIds DEF IInv, CInv, Types, Mine
  <2>2. Populated(k) \in AnyEntry
    BY <2>1 DEF Populated, AnyEntry, Document
  <2>3. EntryHolds(c, Populated(k))
    BY DEF EntryHolds, LastHolds, StatusHolds, Populated
  <2>4. QED BY <2>2, <2>3 DEF Populated
<1>5. page \in [1 .. n -> AnyEntry] /\ \A i \in 1 .. n : page[i] = Populated(order[i])
  BY <1>1, <1>3, <1>4
<1>6. page \in Seq(AnyEntry) /\ DOMAIN page = 1 .. n
  BY <1>2, <1>5
<1>7. QED BY <1>3, <1>4, <1>5, <1>6 DEF PageHolds, NoRepeats

(* listConversations and its response, or its failure. *)
LEMMA ListingKeepsLists ==
    ASSUME IInv, CInv', NEW d \in Clients, ListRead(d) \/ ListArrives(d) \/ ListFails(d)
    PROVE  IInv'
<1>1. /\ UNCHANGED <<convs, updatedAt, last, announced, online, told, unsent, news, starts,
                     events, missed>>
      /\ \A c \in Clients : c # d => list'[c] = list[c] /\ listing'[c] = listing[c]
  BY DEF ListRead, ListArrives, ListFails, serverVars, convVars, statusVars, IInv, Types, Set
<1>2. Steady
  BY <1>1 DEF Steady
<1>3. \A page \in Seq(AnyEntry) : PageHolds(d, page) => PageHolds(d, page)'
  BY <1>2, SteadyKept, PageStays
<1>4. PICK old \in Seq(AnyEntry) : old = list[d] /\ PageHolds(d, old)'
  BY <1>3, FetchFacts DEF IInv, ListHolds
<1>5. CASE ListRead(d)
  <2>1. PICK page \in Pages(d) : listing' = Set(listing, d, [pc |-> "read", page |-> page])
    BY <1>5 DEF ListRead
  <2>2. page \in Seq(AnyEntry) /\ PageHolds(d, page)'
    BY <1>3, PageIsRight
  <2>3. [pc |-> "read", page |-> page] \in Fetch
    BY <2>2 DEF Fetch
  <2>4. list' = list /\ listing' \in [Clients -> Fetch] /\ listing'[d].page = page
    BY <1>5, <2>1, <2>3 DEF ListRead, IInv, Types, Set
  <2>5. Types'
    BY <1>1, <2>4 DEF IInv, Types
  <2>6. QED BY <1>1, <1>2, <1>4, <2>2, <2>4, <2>5, OneListChanges
<1>6. CASE ListArrives(d) \/ ListFails(d)
  <2>1. PICK page \in Seq(AnyEntry) : /\ page = IF ListArrives(d) THEN listing[d].page ELSE old
                                      /\ PageHolds(d, page)'
    BY <1>3, <1>4, FetchFacts DEF IInv, ListHolds, ListArrives
  <2>2. listing' = Set(listing, d, None) /\ list' = Set(list, d, page)
    <3>1. CASE ListArrives(d)
      BY <2>1, <3>1 DEF ListArrives
    <3>2. CASE ~ListArrives(d)
      BY <1>4, <1>6, <2>1, <3>2 DEF ListFails, Set, IInv, Types
    <3>3. QED BY <3>1, <3>2
  <2>3. None \in Fetch /\ None.pc # "read"
    BY DEF Fetch, None
  <2>4. /\ listing' \in [Clients -> Fetch] /\ listing'[d] = None
        /\ list' \in [Clients -> Seq(AnyEntry)] /\ list'[d] = page
    BY <2>1, <2>2, <2>3 DEF IInv, Types, Set
  <2>5. Types'
    BY <1>1, <2>4 DEF IInv, Types
  <2>6. QED BY <1>1, <1>2, <2>1, <2>3, <2>4, <2>5, OneListChanges
<1>7. QED BY <1>5, <1>6

-----------------------------------------------------------------------------
(* News *)

(* A step that changes no list and no request for one. *)
LEMMA NoListChanges ==
    ASSUME IInv, CInv', Types', UNCHANGED <<list, listing>>,
           \A c \in Clients : /\ Kept(c)
                              /\ \A i \in DOMAIN events'[c] : EventHolds(c, i)'
    PROVE  IInv'
<1>1. ASSUME NEW c \in Clients PROVE ListHolds(c)'
  BY ListStays
<1>2. QED BY <1>1 DEF IInv

(* A message is saved: it is still to be announced. *)
LEMMA SaveKeepsLists ==
    ASSUME IInv, CInv', NEW k \in DOMAIN convs, Save(k)
    PROVE  IInv'
<1>1. PICK e \in AnyEvent :
          /\ e.kind = "message" /\ e.conv = k
          /\ unsent' = unsent \cup {e}
  <2>1. k \in Ids /\ news \in 0 .. MaxNews /\ last[k] \in 0 .. MaxNews /\ last[k] <= news
        /\ news < MaxNews /\ MaxNews \in Nat
    BY DocumentIds, ConversationsAssumption DEF Save, IInv, Types
  <2>2. last[k] + 1 \in 0 .. MaxNews
    BY <2>1
  <2>3. [kind |-> "message", conv |-> k, last |-> last[k] + 1] \in AnyEvent
    BY <2>1, <2>2 DEF AnyEvent
  <2>4. QED BY <2>3 DEF Save
<1>2. /\ UNCHANGED <<convs, announced, online, told, starts, listing, events, list, missed>>
      /\ news < MaxNews /\ news' = news + 1
      /\ last' = [last EXCEPT ![k] = last[k] + 1]
      /\ updatedAt' = [updatedAt EXCEPT ![k] = Now]
  BY DEF Save, statusVars, clientVars
<1>3. Types'
  <2>1. MaxNews \in Nat /\ Now \in Nat
    BY DocumentIds, ConversationsAssumption DEF IInv, Types, Now
  <2>2. updatedAt' \in [Ids -> Nat]
    BY <1>2, <2>1 DEF IInv, Types
  <2>3. k \in Ids /\ news \in 0 .. MaxNews /\ last \in [Ids -> 0 .. MaxNews]
        /\ \A j \in Ids : last[j] <= news
    BY DocumentIds DEF IInv, Types
  <2>4. \A j \in Ids : last'[j] \in 0 .. MaxNews /\ last'[j] <= news'
    BY <1>2, <2>1, <2>3
  <2>5. last' \in [Ids -> 0 .. MaxNews] /\ news' \in 0 .. MaxNews
    BY <1>2, <2>1, <2>3, <2>4
  <2>6. unsent' \subseteq AnyEvent
        /\ \A n \in unsent' : n.kind = "message" => n.conv \in DOMAIN convs'
    BY <1>1, <1>2 DEF IInv, Types
  <2>7. QED BY <1>2, <2>2, <2>4, <2>5, <2>6 DEF IInv, Types
<1>4. ASSUME NEW c \in Clients
      PROVE  Kept(c) /\ \A i \in DOMAIN events'[c] : EventHolds(c, i)'
  <2>1. /\ \A x : Pending(c, x)' = Pending(c, x) /\ PendingStatus(c, x)' = PendingStatus(c, x)
        /\ Mine(c)' = Mine(c)
    BY <1>2 DEF Pending, PendingStatus, Mine
  <2>2. /\ Unsent(k)' # {}
        /\ \A x : Unsent(x) \subseteq Unsent(x)' /\ UnsentStatus(x) \subseteq UnsentStatus(x)'
    BY <1>1 DEF Unsent, UnsentStatus
  <2>3. \A j \in Ids : LastKept(c, j)
    BY <1>2, <2>1, <2>2 DEF LastKept, IInv, Types
  <2>4. \A u \in Users : StatusKept(c, u)
    BY <1>2, <2>1, <2>2 DEF StatusKept
  <2>5. ASSUME NEW i \in DOMAIN events'[c] PROVE EventHolds(c, i)'
    <3>1. EventHolds(c, i)
      BY <1>2 DEF IInv, ListHolds
    <3>2. QED BY <1>2, <2>1, <3>1 DEF EventHolds
  <2>6. QED BY <2>1, <2>3, <2>4, <2>5 DEF Kept
<1>5. QED BY <1>2, <1>3, <1>4, NoListChanges

(* So is a status that is set. *)
LEMMA StatusSetKeepsLists ==
    ASSUME IInv, CInv', NEW u \in Movers, NEW isOnline \in BOOLEAN, StatusSet(u, isOnline)
    PROVE  IInv'
<1>1. PICK e \in AnyEvent :
          /\ e.kind = "presence" /\ e.user = u
          /\ unsent' = unsent \cup {e}
  <2>1. u \in Users /\ news \in 0 .. MaxNews /\ news < MaxNews /\ MaxNews \in Nat
    BY ConversationsAssumption DEF StatusSet, IInv, Types
  <2>2. news + 1 \in 0 .. MaxNews
    BY <2>1
  <2>3. [kind |-> "presence", user |-> u, online |-> isOnline, at |-> news + 1] \in AnyEvent
    BY <2>1, <2>2 DEF AnyEvent
  <2>4. QED BY <2>3 DEF StatusSet
<1>2. /\ UNCHANGED <<convs, updatedAt, last, announced, told, starts, listing, events, list,
                     missed>>
      /\ news < MaxNews /\ news' = news + 1
      /\ online' = IF isOnline THEN online \cup {u} ELSE online \ {u}
  BY DEF StatusSet, StatusIn, convVars, clientVars
<1>3. Types'
  <2>1. /\ u \in Users /\ MaxNews \in Nat /\ news \in 0 .. MaxNews
        /\ \A j \in Ids : last[j] \in 0 .. MaxNews /\ last[j] <= news
    BY ConversationsAssumption DEF IInv, Types
  <2>2. news' \in 0 .. MaxNews /\ \A j \in Ids : last'[j] <= news'
    BY <1>2, <2>1
  <2>3. online' \subseteq Users
    BY <1>2, <2>1 DEF IInv, Types
  <2>4. unsent' \subseteq AnyEvent
        /\ \A n \in unsent' : n.kind = "message" => n.conv \in DOMAIN convs'
    BY <1>1, <1>2 DEF IInv, Types
  <2>5. QED BY <1>2, <2>2, <2>3, <2>4 DEF IInv, Types
<1>4. ASSUME NEW c \in Clients
      PROVE  Kept(c) /\ \A i \in DOMAIN events'[c] : EventHolds(c, i)'
  <2>1. /\ \A x : Pending(c, x)' = Pending(c, x) /\ PendingStatus(c, x)' = PendingStatus(c, x)
        /\ Mine(c)' = Mine(c)
    BY <1>2 DEF Pending, PendingStatus, Mine
  <2>2. /\ UnsentStatus(u)' # {}
        /\ \A x : Unsent(x) \subseteq Unsent(x)' /\ UnsentStatus(x) \subseteq UnsentStatus(x)'
    BY <1>1 DEF Unsent, UnsentStatus
  <2>3. \A j \in Ids : LastKept(c, j)
    BY <1>2, <2>1, <2>2 DEF LastKept
  <2>4. \A v \in Users : v # u => (v \in online' <=> v \in online)
    BY <1>2
  <2>5. \A v \in Users : StatusKept(c, v)
    BY <1>2, <2>1, <2>2, <2>4 DEF StatusKept
  <2>6. ASSUME NEW i \in DOMAIN events'[c] PROVE EventHolds(c, i)'
    <3>1. EventHolds(c, i)
      BY <1>2 DEF IInv, ListHolds
    <3>2. QED BY <1>2, <2>1, <3>1 DEF EventHolds
  <2>7. QED BY <2>1, <2>3, <2>5, <2>6 DEF Kept
<1>5. QED BY <1>2, <1>3, <1>4, NoListChanges

(* Those in the room have the event last among theirs; those outside count *)
(* as having missed it.  What else a client missed it still has.           *)
Reaches(c, room, about, e) ==
    /\ missed[c] \ {about} \subseteq missed'[c]
    /\ \A i \in DOMAIN events[c] : i \in DOMAIN events'[c] /\ events'[c][i] = events[c][i]
    /\ c \in room =>
          /\ DOMAIN events'[c] = DOMAIN events[c] \cup {Len(events[c]) + 1}
          /\ Len(events[c]) + 1 \in DOMAIN events'[c]
          /\ events'[c][Len(events[c]) + 1] = e
          /\ \A i \in DOMAIN events[c] : Len(events[c]) + 1 > i
    /\ c \notin room => events'[c] = events[c] /\ about \in missed'[c]

LEMMA BroadcastFacts ==
    ASSUME Types, NEW room \in SUBSET Clients, NEW e \in AnyEvent, NEW about,
           about = About(e), about \in Ids \cup Users, Broadcast(room, e)
    PROVE  /\ events' \in [Clients -> Seq(AnyEvent)]
           /\ missed' \in [Clients -> SUBSET (Ids \cup Users)]
           /\ unsent' = unsent \ {e}
           /\ \A c \in Clients : Reaches(c, room, about, e)
<1>1. \A c \in Clients : events[c] \in Seq(AnyEvent) /\ missed[c] \in SUBSET (Ids \cup Users)
  BY DEF Types
<1>2. \A c \in Clients : events'[c] = IF c \in room THEN Append(events[c], e) ELSE events[c]
  BY DEF Broadcast
<1>3. \A c \in Clients : missed'[c] = IF c \in room THEN missed[c] \ {about}
                                      ELSE missed[c] \cup {about}
  BY DEF Broadcast
<1>4. missed' \in [Clients -> SUBSET (Ids \cup Users)]
  BY <1>1, <1>3 DEF Broadcast
<1>5. ASSUME NEW c \in Clients PROVE events'[c] \in Seq(AnyEvent)
  <2>1. \A s \in Seq(AnyEvent) : Append(s, e) \in Seq(AnyEvent)
    OBVIOUS
  <2>2. QED BY <1>1, <1>2, <2>1
<1>6. events' \in [Clients -> Seq(AnyEvent)]
  BY <1>5 DEF Broadcast
<1>7. unsent' = unsent \ {e}
  BY DEF Broadcast
<1>8. QED BY <1>1, <1>2, <1>3, <1>4, <1>6, <1>7 DEF Reaches

(* No event is taken from anybody. *)
LEMMA BroadcastPending ==
    ASSUME NEW c \in Clients,
           \A i \in DOMAIN events[c] : i \in DOMAIN events'[c] /\ events'[c][i] = events[c][i]
    PROVE  \A x : /\ Pending(c, x) \subseteq Pending(c, x)'
                  /\ PendingStatus(c, x) \subseteq PendingStatus(c, x)'
BY DEF Pending, PendingStatus

(* A message is announced: it is the last event about its conversation for *)
(* whoever was in the room.                                                *)
LEMMA AnnounceKeepsLists ==
    ASSUME IInv, CInv', NEW e \in unsent, NEW room \in SUBSET Clients, Announce(e, room)
    PROVE  IInv'
<1>1. PICK k \in Ids : k = e.conv /\ k \in DOMAIN convs
  BY DocumentIds DEF Announce, IInv, Types
<1>2. /\ e \in AnyEvent /\ e.kind = "message" /\ e.conv = k /\ e.last \in 0 .. MaxNews
      /\ About(e) = k /\ k \notin Users
  BY <1>1, ConversationsAssumption DEF Announce, IInv, Types, AnyEvent, About, Ids
<1>3. /\ announced' = [announced EXCEPT ![k] = e.last]
      /\ Broadcast(room, e)
      /\ UNCHANGED <<convs, updatedAt, last, online, told, news, starts, listing, list>>
  BY <1>2 DEF Announce, statusVars
<1>4. /\ events' \in [Clients -> Seq(AnyEvent)]
      /\ missed' \in [Clients -> SUBSET (Ids \cup Users)]
      /\ unsent' = unsent \ {e}
      /\ \A c \in Clients : Reaches(c, room, k, e)
  BY <1>2, <1>3, BroadcastFacts DEF IInv
<1>5. Types'
  <2>1. announced' \in [Ids -> 0 .. MaxNews]
    BY <1>2, <1>3 DEF IInv, Types
  <2>2. QED BY <1>3, <1>4, <2>1 DEF IInv, Types
<1>6. announced'[k] = e.last /\ \A j \in Ids : j # k => announced'[j] = announced[j]
  BY <1>2, <1>3 DEF IInv, Types
<1>7. /\ \A j \in Ids : j # k => Unsent(j)' = Unsent(j)
      /\ \A u : UnsentStatus(u)' = UnsentStatus(u)
  BY <1>2, <1>4 DEF Unsent, UnsentStatus
<1>8. ASSUME NEW c \in Clients
      PROVE  Kept(c) /\ \A i \in DOMAIN events'[c] : EventHolds(c, i)'
  <2> DEFINE n == Len(events[c]) + 1
  <2>1. Reaches(c, room, k, e)
    BY <1>4
  <2>2. \A x : /\ Pending(c, x) \subseteq Pending(c, x)'
               /\ PendingStatus(c, x) \subseteq PendingStatus(c, x)'
    BY <2>1, BroadcastPending DEF Reaches
  <2>3. (c \in room /\ n \in Pending(c, k)') \/ (c \notin room /\ k \in missed'[c])
    BY <1>2, <2>1 DEF Pending, Reaches
  <2>4. \A j \in Ids : LastKept(c, j)
    BY <1>3, <1>6, <1>7, <2>1, <2>2, <2>3 DEF LastKept, Reaches
  <2>5. \A u \in Users : StatusKept(c, u)
    BY <1>2, <1>3, <1>7, <2>1, <2>2 DEF StatusKept, Reaches
  <2>6. ASSUME NEW i \in DOMAIN events'[c] PROVE EventHolds(c, i)'
    <3>1. CASE i \in DOMAIN events[c]
      <4>1. EventHolds(c, i) /\ events'[c][i] = events[c][i] /\ events[c][i] \in AnyEvent
        BY <2>1, <3>1 DEF Reaches, IInv, ListHolds, Types
      <4>2. CASE events[c][i].kind = "message" /\ events[c][i].conv = k
        BY <1>2, <1>3, <2>1, <2>3, <3>1, <4>1, <4>2 DEF EventHolds, Reaches
      <4>3. CASE events[c][i].kind = "message" /\ events[c][i].conv # k
        <5>1. events[c][i].conv \in Ids
          BY <4>1, <4>3 DEF AnyEvent
        <5>2. QED BY <1>3, <1>6, <2>1, <2>2, <4>1, <4>3, <5>1 DEF EventHolds, Reaches
      <4>4. CASE events[c][i].kind = "presence"
        <5>1. events[c][i].user \in Users
          BY <4>1, <4>4 DEF AnyEvent
        <5>2. QED BY <1>2, <1>3, <2>1, <2>2, <4>1, <4>4, <5>1 DEF EventHolds, Reaches
      <4>5. QED BY <4>1, <4>2, <4>3, <4>4 DEF AnyEvent
    <3>2. CASE i \notin DOMAIN events[c]
      <4>1. events'[c][i] = e
        BY <2>1, <3>2 DEF Reaches
      <4>2. QED BY <1>1, <1>2, <1>3, <1>6, <4>1 DEF EventHolds
    <3>3. QED BY <3>1, <3>2
  <2>7. QED BY <1>3, <2>4, <2>5, <2>6 DEF Kept, Mine
<1>9. QED BY <1>3, <1>5, <1>8, NoListChanges

(* A status is announced likewise. *)
LEMMA StatusAnnouncedKeepsLists ==
    ASSUME IInv, CInv', NEW e \in unsent, NEW room \in SUBSET Clients,
           StatusAnnounced(e, room)
    PROVE  IInv'
<1>1. e.kind = "presence" /\ e \in AnyEvent
  BY DEF StatusAnnounced, IInv, Types
<1>2. PICK u \in Users : u = e.user
  BY <1>1 DEF AnyEvent
<1>3. About(e) = u /\ u \notin Ids
  BY <1>1, <1>2, ConversationsAssumption DEF About, Ids
<1>4. /\ told' = IF e.online THEN told \cup {u} ELSE told \ {u}
      /\ Broadcast(room, e)
      /\ UNCHANGED <<convs, updatedAt, last, announced, online, news, starts, listing, list>>
  BY <1>2 DEF StatusAnnounced, StatusIn, convVars
<1>5. /\ events' \in [Clients -> Seq(AnyEvent)]
      /\ missed' \in [Clients -> SUBSET (Ids \cup Users)]
      /\ unsent' = unsent \ {e}
      /\ \A c \in Clients : Reaches(c, room, u, e)
  BY <1>1, <1>3, <1>4, BroadcastFacts DEF IInv
<1>6. Types'
  <2>1. told' \subseteq Users
    BY <1>4 DEF IInv, Types
  <2>2. QED BY <1>4, <1>5, <2>1 DEF IInv, Types
<1>7. /\ u \in told' <=> e.online
      /\ \A v : v # u => (v \in told' <=> v \in told)
  BY <1>4
<1>8. /\ \A k : Unsent(k)' = Unsent(k)
      /\ \A v : v # u => UnsentStatus(v)' = UnsentStatus(v)
  BY <1>1, <1>2, <1>5 DEF Unsent, UnsentStatus
<1>9. ASSUME NEW c \in Clients
      PROVE  Kept(c) /\ \A i \in DOMAIN events'[c] : EventHolds(c, i)'
  <2> DEFINE n == Len(events[c]) + 1
  <2>1. Reaches(c, room, u, e)
    BY <1>5
  <2>2. \A x : /\ Pending(c, x) \subseteq Pending(c, x)'
               /\ PendingStatus(c, x) \subseteq PendingStatus(c, x)'
    BY <2>1, BroadcastPending DEF Reaches
  <2>3. (c \in room /\ n \in PendingStatus(c, u)') \/ (c \notin room /\ u \in missed'[c])
    BY <1>1, <1>2, <2>1 DEF PendingStatus, Reaches
  <2>4. \A j \in Ids : LastKept(c, j)
    BY <1>3, <1>4, <1>8, <2>1, <2>2 DEF LastKept, Reaches
  <2>5. \A v \in Users : StatusKept(c, v)
    BY <1>4, <1>7, <1>8, <2>1, <2>2, <2>3 DEF StatusKept, Reaches
  <2>6. ASSUME NEW i \in DOMAIN events'[c] PROVE EventHolds(c, i)'
    <3>1. CASE i \in DOMAIN events[c]
      <4>1. EventHolds(c, i) /\ events'[c][i] = events[c][i] /\ events[c][i] \in AnyEvent
        BY <2>1, <3>1 DEF Reaches, IInv, ListHolds, Types
      <4>2. CASE events[c][i].kind = "presence" /\ events[c][i].user = u
        BY <1>2, <2>1, <2>3, <3>1, <4>1, <4>2 DEF EventHolds, Reaches
      <4>3. CASE events[c][i].kind = "presence" /\ events[c][i].user # u
        BY <1>4, <1>7, <2>1, <2>2, <4>1, <4>3 DEF EventHolds, Reaches
      <4>4. CASE events[c][i].kind = "message"
        <5>1. events[c][i].conv \in Ids
          BY <4>1, <4>4 DEF AnyEvent
        <5>2. QED BY <1>3, <1>4, <2>1, <2>2, <4>1, <4>4, <5>1 DEF EventHolds, Reaches
      <4>5. QED BY <4>1, <4>2, <4>3, <4>4 DEF AnyEvent
    <3>2. CASE i \notin DOMAIN events[c]
      <4>1. events'[c][i] = e
        BY <2>1, <3>2 DEF Reaches
      <4>2. QED BY <1>1, <1>2, <1>4, <1>7, <4>1 DEF EventHolds
    <3>3. QED BY <3>1, <3>2
  <2>7. QED BY <1>4, <2>4, <2>5, <2>6 DEF Kept, Mine
<1>10. QED BY <1>4, <1>6, <1>9, NoListChanges

(* An announcement that fails is missed by everybody. *)
LEMMA UnannouncedKeepsLists ==
    ASSUME IInv, CInv', NEW e \in unsent, Unannounced(e)
    PROVE  IInv'
<1>1. /\ unsent' = unsent \ {e}
      /\ \A c \in Clients : missed'[c] = missed[c] \cup {About(e)}
      /\ UNCHANGED <<convs, updatedAt, last, announced, online, told, news, starts, listing,
                     events, list>>
  BY DEF Unannounced, convVars, statusVars, clientVars
<1>2. About(e) \in Ids \cup Users
  BY DEF About, IInv, Types, AnyEvent
<1>3. Types'
  <2>1. missed' \in [Clients -> SUBSET (Ids \cup Users)]
    BY <1>2 DEF Unannounced, IInv, Types
  <2>2. QED BY <1>1, <2>1 DEF IInv, Types
<1>4. /\ \A k : k # About(e) => Unsent(k) \subseteq Unsent(k)'
      /\ \A u : u # About(e) => UnsentStatus(u) \subseteq UnsentStatus(u)'
  <2>1. e.kind = "message" \/ e.kind = "presence"
    BY DEF IInv, Types, AnyEvent
  <2>2. QED BY <1>1, <2>1 DEF Unsent, UnsentStatus, About
<1>5. ASSUME NEW c \in Clients
      PROVE  Kept(c) /\ \A i \in DOMAIN events'[c] : EventHolds(c, i)'
  <2>1. /\ \A x : Pending(c, x)' = Pending(c, x) /\ PendingStatus(c, x)' = PendingStatus(c, x)
        /\ Mine(c)' = Mine(c)
    BY <1>1 DEF Pending, PendingStatus, Mine
  <2>2. \A k \in Ids : LastKept(c, k)
    BY <1>1, <1>4, <2>1 DEF LastKept
  <2>3. \A u \in Users : StatusKept(c, u)
    BY <1>1, <1>4, <2>1 DEF StatusKept
  <2>4. ASSUME NEW i \in DOMAIN events'[c] PROVE EventHolds(c, i)'
    <3>1. EventHolds(c, i)
      BY <1>1 DEF IInv, ListHolds
    <3>2. QED BY <1>1, <2>1, <3>1 DEF EventHolds
  <2>5. QED BY <2>1, <2>2, <2>3, <2>4 DEF Kept
<1>6. QED BY <1>1, <1>3, <1>5, NoListChanges

-----------------------------------------------------------------------------
(* Events that arrive *)

(* The events left, each one place further ahead. *)
LEMMA TailFacts ==
    ASSUME NEW S, NEW s \in Seq(S), s # <<>>
    PROVE  /\ Tail(s) \in Seq(S) /\ Head(s) = s[1] /\ 1 \in DOMAIN s /\ s[1] \in S
           /\ \A i \in DOMAIN Tail(s) : i + 1 \in DOMAIN s /\ Tail(s)[i] = s[i + 1]
           /\ \A i \in DOMAIN s : i # 1 => i - 1 \in DOMAIN Tail(s) /\ Tail(s)[i - 1] = s[i]
OBVIOUS

(* What a client takes from its events, and that nobody else is concerned. *)
LEMMA TookFacts ==
    ASSUME IInv, NEW d \in Clients, events[d] # <<>>, Took(d), NEW m, m = Head(events[d])
    PROVE  /\ m \in AnyEvent /\ m = events[d][1] /\ EventHolds(d, 1)
           /\ events' \in [Clients -> Seq(AnyEvent)]
           /\ \A c \in Clients : c # d => events'[c] = events[c]
           /\ \A i \in DOMAIN events'[d] :
                 i + 1 \in DOMAIN events[d] /\ events'[d][i] = events[d][i + 1]
           /\ \A i \in DOMAIN events[d] : i # 1 =>
                 i - 1 \in DOMAIN events'[d] /\ events'[d][i - 1] = events[d][i]
           /\ UNCHANGED <<convs, updatedAt, last, announced, online, told, unsent, news,
                          starts, listing>>
<1>1. events[d] \in Seq(AnyEvent) /\ ListHolds(d) /\ events \in [Clients -> Seq(AnyEvent)]
  BY DEF IInv, Types
<1>2. /\ Tail(events[d]) \in Seq(AnyEvent)
      /\ Head(events[d]) = events[d][1] /\ 1 \in DOMAIN events[d] /\ events[d][1] \in AnyEvent
  BY <1>1, TailFacts
<1>3. events' = [events EXCEPT ![d] = Tail(events[d])]
  BY DEF Took, Set
<1>4. events'[d] = Tail(events[d])
  BY <1>1, <1>3
<1>5. /\ \A i \in DOMAIN events'[d] :
            i + 1 \in DOMAIN events[d] /\ events'[d][i] = events[d][i + 1]
      /\ \A i \in DOMAIN events[d] : i # 1 =>
            i - 1 \in DOMAIN events'[d] /\ events'[d][i - 1] = events[d][i]
  BY <1>1, <1>4, TailFacts
<1>6. events' \in [Clients -> Seq(AnyEvent)] /\ \A c \in Clients : c # d => events'[c] = events[c]
  BY <1>1, <1>2, <1>3
<1>7. EventHolds(d, 1)
  BY <1>1, <1>2 DEF ListHolds
<1>8. QED BY <1>2, <1>5, <1>6, <1>7 DEF Took, serverVars, convVars, statusVars

(* Events behind the one taken are still on their way, in their order. *)
LEMMA TookPending ==
    ASSUME NEW d \in Clients, events[d] \in Seq(AnyEvent), events'[d] \in Seq(AnyEvent),
           \A i \in DOMAIN events[d] : i # 1 =>
                 i - 1 \in DOMAIN events'[d] /\ events'[d][i - 1] = events[d][i]
    PROVE  \A x : /\ \A j \in Pending(d, x) : j # 1 => j - 1 \in Pending(d, x)'
                  /\ \A j \in PendingStatus(d, x) : j # 1 => j - 1 \in PendingStatus(d, x)'
BY DEF Pending, PendingStatus

(* So what holds of them holds still. *)
LEMMA TookEvents ==
    ASSUME IInv, NEW d \in Clients, events[d] # <<>>, Took(d), missed[d] \subseteq missed'[d]
    PROVE  \A i \in DOMAIN events'[d] : EventHolds(d, i)'
<1>1. PICK m : m = Head(events[d])
  OBVIOUS
<1>2. events[d] \in Seq(AnyEvent) /\ events'[d] \in Seq(AnyEvent)
  BY <1>1, TookFacts DEF IInv, Types
<1>3. \A x : /\ \A j \in Pending(d, x) : j # 1 => j - 1 \in Pending(d, x)'
             /\ \A j \in PendingStatus(d, x) : j # 1 => j - 1 \in PendingStatus(d, x)'
  BY <1>1, <1>2, TookFacts, TookPending
<1>4. ASSUME NEW i \in DOMAIN events'[d] PROVE EventHolds(d, i)'
  <2>1. i + 1 \in DOMAIN events[d] /\ events'[d][i] = events[d][i + 1] /\ i \in Nat \ {0}
    BY <1>1, <1>2, TookFacts
  <2>2. EventHolds(d, i + 1)
    BY <2>1 DEF IInv, ListHolds
  <2>3. \A x : /\ (\E j \in Pending(d, x) : j > i + 1) => \E j \in Pending(d, x)' : j > i
               /\ (\E j \in PendingStatus(d, x) : j > i + 1) =>
                      \E j \in PendingStatus(d, x)' : j > i
    <3>1. \A x : Pending(d, x) \subseteq Nat /\ PendingStatus(d, x) \subseteq Nat
      BY <1>2 DEF Pending, PendingStatus
    <3>2. \A j \in Nat : j > i + 1 => j # 1 /\ j - 1 > i
      BY <2>1
    <3>3. QED BY <1>3, <3>1, <3>2
  <2>4. announced' = announced /\ told' = told /\ convs' = convs
    BY <1>1, TookFacts
  <2>5. QED BY <2>1, <2>2, <2>3, <2>4 DEF EventHolds
<1>5. QED BY <1>4

(* findIndex *)
LEMMA IndexFacts ==
    ASSUME NEW c \in Clients, NEW k, list[c] \in Seq(AnyEntry), NoRepeats(list[c])
    PROVE  /\ k \in Listed(c) =>
                  IndexOf(c, k) \in DOMAIN list[c] /\ list[c][IndexOf(c, k)].conv = k
           /\ k \notin Listed(c) => IndexOf(c, k) = 0
<1> DEFINE I == {i \in 1 .. Len(list[c]) : list[c][i].conv = k}
<1>1. IndexOf(c, k) = IF I # {} THEN Min(I) ELSE 0
  BY DEF IndexOf, SelectInSeq
<1>2. k \in Listed(c) <=> I # {}
  BY DEF Listed, ToSet
<1>3. ASSUME NEW i \in I PROVE Min(I) = i
  <2>1. I = {i} /\ i \in Nat
    BY <1>3 DEF NoRepeats
  <2>2. QED BY <2>1 DEF Min
<1>4. QED BY <1>1, <1>2, <1>3

(* Moving an element to the front. *)
LEMMA MovedFacts ==
    ASSUME NEW S, NEW s \in Seq(S), NEW i \in DOMAIN s, NEW x \in S
    PROVE  LET t == <<x>> \o RemoveAt(s, i) IN
           /\ t \in Seq(S) /\ DOMAIN t = DOMAIN s
           /\ \A j \in DOMAIN s :
                 t[j] = IF j = 1 THEN x ELSE IF j <= i THEN s[j - 1] ELSE s[j]
<1> DEFINE l == SubSeq(s, 1, i - 1)
           r == SubSeq(s, i + 1, Len(s))
<1>1. i \in 1 .. Len(s) /\ Len(s) \in Nat
  OBVIOUS
<1>2. l \in Seq(S) /\ Len(l) = i - 1 /\ \A j \in 1 .. i - 1 : l[j] = s[j]
  BY <1>1
<1>3. r \in Seq(S) /\ Len(r) = Len(s) - i /\ \A j \in 1 .. Len(s) - i : r[j] = s[i + j]
  BY <1>1
<1> HIDE DEF l, r
<1>4. /\ l \o r \in Seq(S) /\ Len(l \o r) = Len(s) - 1
      /\ \A j \in 1 .. Len(s) - 1 : (l \o r)[j] = IF j < i THEN s[j] ELSE s[j + 1]
  <2>1. /\ l \o r \in Seq(S) /\ Len(l \o r) = Len(l) + Len(r)
        /\ \A j \in 1 .. Len(l) + Len(r) :
              (l \o r)[j] = IF j <= Len(l) THEN l[j] ELSE r[j - Len(l)]
    BY <1>2, <1>3
  <2>2. Len(l) + Len(r) = Len(s) - 1
    BY <1>1, <1>2, <1>3
  <2>3. ASSUME NEW j \in 1 .. Len(s) - 1
        PROVE  (l \o r)[j] = IF j < i THEN s[j] ELSE s[j + 1]
    <3>1. CASE j < i
      BY <1>1, <1>2, <2>1, <2>2, <3>1
    <3>2. CASE ~(j < i)
      <4>1. j \in 1 .. Len(l) + Len(r) /\ ~(j <= i - 1)
        BY <1>1, <2>2, <3>2
      <4>2. (l \o r)[j] = r[j - (i - 1)]
        BY <1>2, <2>1, <4>1
      <4>3. j - (i - 1) \in 1 .. Len(s) - i /\ i + (j - (i - 1)) = j + 1
        BY <1>1, <3>2
      <4>4. QED BY <1>3, <3>2, <4>2, <4>3
    <3>3. QED BY <3>1, <3>2
  <2>4. QED BY <2>1, <2>2, <2>3
<1>5. RemoveAt(s, i) = l \o r
  BY DEF RemoveAt, l, r
<1>6. PICK u \in Seq(S) : u = l \o r
  BY <1>4
<1>7. /\ <<x>> \o u \in Seq(S) /\ DOMAIN (<<x>> \o u) = 1 .. Len(s)
      /\ (<<x>> \o u)[1] = x
      /\ \A j \in 2 .. Len(s) : (<<x>> \o u)[j] = u[j - 1]
  BY <1>1, <1>4, <1>6, InFront
<1>8. \A j \in 2 .. Len(s) : u[j - 1] = IF j <= i THEN s[j - 1] ELSE s[j]
  BY <1>1, <1>4, <1>6
<1>9. DOMAIN s = 1 .. Len(s)
  OBVIOUS
<1>10. \A j \in DOMAIN s :
          (<<x>> \o u)[j] = IF j = 1 THEN x ELSE IF j <= i THEN s[j - 1] ELSE s[j]
  <2>1. ASSUME NEW j \in DOMAIN s, j # 1
        PROVE  (<<x>> \o u)[j] = IF j <= i THEN s[j - 1] ELSE s[j]
    <3>1. j \in 2 .. Len(s)
      BY <1>1, <1>9, <2>1
    <3>2. QED BY <1>7, <1>8, <3>1
  <2>2. QED BY <1>7, <2>1
<1>11. <<x>> \o RemoveAt(s, i) = <<x>> \o u
  BY <1>5, <1>6
<1>12. QED BY <1>7, <1>9, <1>10, <1>11

(* Moving the entry of a conversation to the front repeats none. *)
LEMMA MovedEntries ==
    ASSUME NEW s \in Seq(AnyEntry), NoRepeats(s), NEW i \in DOMAIN s,
           NEW x \in AnyEntry, x.conv = s[i].conv
    PROVE  LET t == <<x>> \o RemoveAt(s, i) IN
           /\ t \in Seq(AnyEntry) /\ NoRepeats(t)
           /\ \A j \in DOMAIN t : t[j] = x \/ \E n \in DOMAIN s : n # i /\ t[j] = s[n]
<1> DEFINE p(j) == IF j = 1 THEN i ELSE IF j <= i THEN j - 1 ELSE j
           t == <<x>> \o RemoveAt(s, i)
<1>1. /\ t \in Seq(AnyEntry) /\ DOMAIN t = DOMAIN s
      /\ \A j \in DOMAIN s : t[j] = IF j = 1 THEN x ELSE s[p(j)]
  BY MovedFacts
<1>2. DOMAIN s = 1 .. Len(s) /\ Len(s) \in Nat
  OBVIOUS
<1>3. \A j \in DOMAIN s : p(j) \in DOMAIN s /\ (j # 1 => p(j) # i)
  BY <1>2
<1>4. \A j, n \in DOMAIN s : p(j) = p(n) => j = n
  BY <1>2
<1>5. \A j \in DOMAIN s : t[j].conv = s[p(j)].conv
  BY <1>1
<1> HIDE DEF p, t
<1>6. ASSUME NEW j \in DOMAIN t, NEW n \in DOMAIN t, t[j].conv = t[n].conv PROVE j = n
  <2>1. s[p(j)].conv = s[p(n)].conv /\ p(j) \in DOMAIN s /\ p(n) \in DOMAIN s
    BY <1>1, <1>3, <1>5, <1>6
  <2>2. p(j) = p(n)
    BY <2>1 DEF NoRepeats
  <2>3. QED BY <1>1, <1>4, <2>2
<1>7. QED BY <1>1, <1>3, <1>6 DEF NoRepeats, t

(* A client for which nothing happens. *)
LEMMA OtherListsStay ==
    ASSUME IInv, NEW c \in Clients, UNCHANGED <<convs, last, announced, online, told, unsent>>,
           events'[c] = events[c], missed'[c] = missed[c], list'[c] = list[c],
           listing'[c] = listing[c]
    PROVE  ListHolds(c)'
<1>1. /\ \A x : Pending(c, x)' = Pending(c, x) /\ PendingStatus(c, x)' = PendingStatus(c, x)
      /\ Mine(c)' = Mine(c)
  BY DEF Pending, PendingStatus, Mine
<1>2. Kept(c)
  BY <1>1 DEF Kept, LastKept, StatusKept, Unsent, UnsentStatus
<1>3. ASSUME NEW i \in DOMAIN events'[c] PROVE EventHolds(c, i)'
  <2>1. EventHolds(c, i)
    BY DEF IInv, ListHolds
  <2>2. QED BY <1>1, <2>1 DEF EventHolds
<1>4. QED BY <1>2, <1>3, ListStays

(* What a client makes of a message: the entry it moves to the front shows *)
(* it, and nothing else that the list shows is about that conversation.    *)
LEMMA BumpedFacts ==
    ASSUME IInv, NEW d \in Clients, NEW m, m.conv \in Ids, m.last \in 0 .. MaxNews
    PROVE  /\ Bumped(d, m) \in Seq(AnyEntry) /\ NoRepeats(Bumped(d, m))
           /\ \A j \in DOMAIN Bumped(d, m) :
                 \/ \E i \in DOMAIN list[d] :
                        /\ list[d][i].conv = m.conv
                        /\ Bumped(d, m)[j] = [list[d][i] EXCEPT !.last = m.last]
                 \/ \E n \in DOMAIN list[d] :
                        list[d][n].conv # m.conv /\ Bumped(d, m)[j] = list[d][n]
<1>1. list[d] \in Seq(AnyEntry) /\ NoRepeats(list[d])
  BY FetchFacts DEF IInv, ListHolds, PageHolds
<1>2. PICK i : i = IndexOf(d, m.conv)
  OBVIOUS
<1>3. CASE m.conv \in Listed(d)
  <2>1. i \in DOMAIN list[d] /\ list[d][i].conv = m.conv /\ i # 0
    BY <1>1, <1>2, <1>3, IndexFacts
  <2>2. list[d][i] \in AnyEntry
    BY <1>1, <2>1
  <2>3. PICK x \in AnyEntry : x = [list[d][i] EXCEPT !.last = m.last]
    BY <2>2 DEF AnyEntry
  <2>4. x.conv = list[d][i].conv
    BY <2>2, <2>3 DEF AnyEntry
  <2>5. PICK t : t = Bumped(d, m)
    OBVIOUS
  <2>6. t = <<x>> \o RemoveAt(list[d], i)
    BY <1>2, <2>1, <2>3, <2>5 DEF Bumped, ToFront
  <2>7. /\ t \in Seq(AnyEntry) /\ NoRepeats(t)
        /\ \A j \in DOMAIN t :
              t[j] = x \/ \E n \in DOMAIN list[d] : n # i /\ t[j] = list[d][n]
    <3>1. PICK s \in Seq(AnyEntry) : s = list[d]
      BY <1>1
    <3>2. NoRepeats(s) /\ i \in DOMAIN s /\ x.conv = s[i].conv /\ t = <<x>> \o RemoveAt(s, i)
      BY <1>1, <2>1, <2>4, <2>6, <3>1
    <3>3. /\ t \in Seq(AnyEntry) /\ NoRepeats(t)
          /\ \A j \in DOMAIN t : t[j] = x \/ \E n \in DOMAIN s : n # i /\ t[j] = s[n]
      BY <3>2, MovedEntries
    <3>4. QED BY <3>1, <3>3
  <2>8. \A n \in DOMAIN list[d] : n # i => list[d][n].conv # m.conv
    BY <1>1, <2>1 DEF NoRepeats
  <2>9. QED BY <2>1, <2>3, <2>5, <2>7, <2>8
<1>4. CASE m.conv \notin Listed(d)
  <2>1. Bumped(d, m) = list[d]
    BY <1>1, <1>4, IndexFacts DEF Bumped
  <2>2. \A n \in DOMAIN list[d] : list[d][n].conv # m.conv
    BY <1>4 DEF Listed, ToSet
  <2>3. QED BY <1>1, <2>1, <2>2
<1>5. QED BY <1>3, <1>4

(* A message arrives: a listed conversation shows it, and what is listed   *)
(* of others stays right.  Before a list that was read, it is missed.      *)
LEMMA ReceiveKeepsLists ==
    ASSUME IInv, CInv', NEW d \in Clients, Receive(d)
    PROVE  IInv'
<1>1. PICK m : m = Head(events[d])
  OBVIOUS
<1>2. PICK old : old = list[d]
  OBVIOUS
<1>3. PICK page : page = Bumped(d, m)
  OBVIOUS
<1>4. /\ events[d] # <<>> /\ m.kind = "message" /\ Took(d)
      /\ list' = Set(list, d, page)
      /\ missed' = IF listing[d].pc = "read" THEN Set(missed, d, missed[d] \cup {m.conv})
                   ELSE missed
  BY <1>1, <1>3 DEF Receive
<1>5. /\ m \in AnyEvent /\ m = events[d][1] /\ EventHolds(d, 1)
      /\ events' \in [Clients -> Seq(AnyEvent)]
      /\ \A c \in Clients : c # d => events'[c] = events[c]
      /\ \A i \in DOMAIN events[d] : i # 1 =>
            i - 1 \in DOMAIN events'[d] /\ events'[d][i - 1] = events[d][i]
      /\ UNCHANGED <<convs, updatedAt, last, announced, online, told, unsent, news, starts,
                     listing>>
  BY <1>1, <1>4, TookFacts
<1>6. m.conv \in Ids /\ m.last \in 0 .. MaxNews
  BY <1>4, <1>5 DEF AnyEvent
<1>7. /\ missed' \in [Clients -> SUBSET (Ids \cup Users)]
      /\ missed[d] \subseteq missed'[d]
      /\ \A c \in Clients : c # d => missed'[c] = missed[c]
      /\ listing[d].pc # "read" \/ m.conv \in missed'[d]
  BY <1>4, <1>6 DEF IInv, Types, Set
<1>8. old \in Seq(AnyEntry) /\ PageHolds(d, old) /\ events[d] \in Seq(AnyEvent)
      /\ events'[d] \in Seq(AnyEvent)
  BY <1>2, <1>5, FetchFacts DEF IInv, ListHolds
<1>9. /\ page \in Seq(AnyEntry) /\ NoRepeats(page)
      /\ \A j \in DOMAIN page :
            \/ \E i \in DOMAIN old :
                   old[i].conv = m.conv /\ page[j] = [old[i] EXCEPT !.last = m.last]
            \/ \E n \in DOMAIN old : old[n].conv # m.conv /\ page[j] = old[n]
  BY <1>2, <1>3, <1>6, BumpedFacts
<1>10. /\ list' \in [Clients -> Seq(AnyEntry)] /\ list'[d] = page
       /\ \A c \in Clients : c # d => list'[c] = list[c]
  BY <1>4, <1>9 DEF IInv, Types, Set
<1>11. Types'
  BY <1>5, <1>7, <1>10 DEF IInv, Types
<1>12. \A x : /\ \A j \in Pending(d, x) : j # 1 => j - 1 \in Pending(d, x)'
              /\ \A j \in PendingStatus(d, x) : j # 1 => j - 1 \in PendingStatus(d, x)'
  BY <1>5, <1>8, TookPending
<1>13. \A k \in Ids : k # m.conv => LastKept(d, k)
  <2>1. ASSUME NEW k \in Ids, k # m.conv PROVE 1 \notin Pending(d, k)
    BY <1>5, <2>1 DEF Pending
  <2>2. QED BY <1>5, <1>7, <1>12, <2>1 DEF LastKept, Unsent
<1>14. \A u \in Users : StatusKept(d, u)
  <2>1. ASSUME NEW u \in Users PROVE 1 \notin PendingStatus(d, u)
    BY <1>4, <1>5 DEF PendingStatus
  <2>2. QED BY <1>5, <1>7, <1>12, <2>1 DEF StatusKept, UnsentStatus
<1>15. Mine(d)' = Mine(d)
  BY <1>5 DEF Mine
<1>16. ASSUME NEW i \in DOMAIN old, old[i].conv # m.conv PROVE EntryHolds(d, old[i])'
  <2>1. old[i] \in AnyEntry /\ EntryHolds(d, old[i])
    BY <1>8 DEF PageHolds
  <2>2. LastKept(d, old[i].conv)
    BY <1>13, <1>16, <2>1 DEF AnyEntry
  <2>3. PICK e \in AnyEntry : e = old[i]
    BY <2>1
  <2>4. EntryHolds(d, e)'
    BY <1>7, <1>14, <1>15, <2>1, <2>2, <2>3, EntryStays
  <2>5. QED BY <2>3, <2>4
<1>17. ASSUME NEW i \in DOMAIN old, old[i].conv = m.conv
       PROVE  EntryHolds(d, [old[i] EXCEPT !.last = m.last])'
  <2>1. PICK e \in AnyEntry : e = old[i] /\ EntryHolds(d, e)
    BY <1>8 DEF PageHolds
  <2>2. PICK x \in AnyEntry : x = [e EXCEPT !.last = m.last]
    BY <1>6 DEF AnyEntry
  <2>3. x.conv = m.conv /\ x.last = m.last /\ x.members = e.members /\ x.online = e.online
    BY <1>17, <2>1, <2>2 DEF AnyEntry
  <2>4. x.conv \in Mine(d)'
    BY <1>15, <1>17, <2>1, <2>3 DEF EntryHolds
  <2>5. LastHolds(d, x)'
    <3>1. \/ m.last = announced[m.conv]
          \/ \E j \in Pending(d, m.conv) : j > 1
          \/ m.conv \in missed[d]
      BY <1>4, <1>5 DEF EventHolds
    <3>2. CASE \E j \in Pending(d, m.conv) : j > 1
      <4>1. PICK j \in Pending(d, m.conv) : j > 1
        BY <3>2
      <4>2. j - 1 \in Pending(d, m.conv)'
        BY <1>12, <4>1
      <4>3. QED BY <2>3, <4>2 DEF LastHolds
    <3>3. QED BY <1>5, <1>7, <2>3, <3>1, <3>2 DEF LastHolds
  <2>6. ASSUME NEW u \in x.members PROVE StatusHolds(d, x, u)'
    <3>1. u \in Users /\ StatusHolds(d, e, u)
      BY <2>1, <2>3, <2>6 DEF EntryHolds, AnyEntry
    <3>2. StatusHolds(d, e, u)'
      BY <1>7, <1>14, <3>1, StatusStays
    <3>3. QED BY <2>3, <3>2 DEF StatusHolds
  <2>7. EntryHolds(d, x)'
    BY <2>4, <2>5, <2>6 DEF EntryHolds
  <2>8. QED BY <2>1, <2>2, <2>7
<1>18. PageHolds(d, page)'
  BY <1>9, <1>16, <1>17 DEF PageHolds, NoRepeats
<1>19. ASSUME listing[d].pc = "read" PROVE PageHolds(d, listing[d].page)'
  <2>1. m.conv \in missed'[d]
    BY <1>7, <1>19
  <2>2. Kept(d)
    BY <1>7, <1>13, <1>14, <1>15, <2>1 DEF Kept, LastKept
  <2>3. PICK q \in Seq(AnyEntry) : q = listing[d].page /\ PageHolds(d, q)
    BY <1>19, FetchFacts DEF IInv, ListHolds
  <2>4. PageHolds(d, q)'
    BY <2>2, <2>3, PageStays
  <2>5. listing'[d].page = q
    BY <1>5, <2>3
  <2>6. QED BY <2>4, <2>5
<1>20. ASSUME NEW c \in Clients PROVE ListHolds(c)'
  <2>1. CASE c = d
    <3>1. \A i \in DOMAIN events'[d] : EventHolds(d, i)'
      BY <1>4, <1>7, TookEvents
    <3>2. listing'[d].pc = "read" => PageHolds(d, listing[d].page)'
      BY <1>5, <1>19
    <3>3. QED BY <1>10, <1>18, <2>1, <3>1, <3>2 DEF ListHolds
  <2>2. CASE c # d
    BY <1>5, <1>7, <1>10, <2>2, OtherListsStay
  <2>3. QED BY <2>1, <2>2
<1>21. QED BY <1>11, <1>20 DEF IInv

(* The status that an event brings, in an entry. *)
LEMMA StatusFacts ==
    ASSUME NEW e \in AnyEntry, NEW p \in AnyEvent, p.kind = "presence"
    PROVE  /\ WithStatus(e, p) \in AnyEntry
           /\ WithStatus(e, p).conv = e.conv /\ WithStatus(e, p).last = e.last
           /\ WithStatus(e, p).members = e.members
           /\ p.user \in e.members => (p.user \in WithStatus(e, p).online <=> p.online)
           /\ \A u : u # p.user => (u \in WithStatus(e, p).online <=> u \in e.online)
<1>1. p.user \in Users /\ p.online \in BOOLEAN
  BY DEF AnyEvent
<1>2. CASE p.user \in e.members
  <2>1. PICK on \in SUBSET Users :
            on = IF p.online THEN e.online \cup {p.user} ELSE e.online \ {p.user}
    BY <1>1 DEF AnyEntry
  <2>2. WithStatus(e, p) = [e EXCEPT !.online = on]
    BY <1>2, <2>1 DEF WithStatus
  <2>3. [e EXCEPT !.online = on] \in AnyEntry
    BY <2>1 DEF AnyEntry
  <2>4. /\ [e EXCEPT !.online = on].conv = e.conv /\ [e EXCEPT !.online = on].last = e.last
        /\ [e EXCEPT !.online = on].members = e.members
        /\ [e EXCEPT !.online = on].online = on
    BY DEF AnyEntry
  <2>5. QED BY <1>1, <2>1, <2>2, <2>3, <2>4
<1>3. CASE p.user \notin e.members
  BY <1>3 DEF WithStatus
<1>4. QED BY <1>2, <1>3

(* A change of status arrives: every entry with that member shows it.      *)
(* Before a list that was read, it is missed.                              *)
LEMMA ReceivePresenceKeepsLists ==
    ASSUME IInv, CInv', NEW d \in Clients, ReceivePresence(d)
    PROVE  IInv'
<1>1. PICK p : p = Head(events[d])
  OBVIOUS
<1>2. PICK old : old = list[d]
  OBVIOUS
<1>3. PICK page : page = Present(d, p)
  OBVIOUS
<1>4. /\ events[d] # <<>> /\ p.kind = "presence" /\ Took(d)
      /\ list' = Set(list, d, page)
      /\ missed' = IF listing[d].pc = "read" THEN Set(missed, d, missed[d] \cup {p.user})
                   ELSE missed
  BY <1>1, <1>3 DEF ReceivePresence
<1>5. /\ p \in AnyEvent /\ p = events[d][1] /\ EventHolds(d, 1)
      /\ events' \in [Clients -> Seq(AnyEvent)]
      /\ \A c \in Clients : c # d => events'[c] = events[c]
      /\ \A i \in DOMAIN events[d] : i # 1 =>
            i - 1 \in DOMAIN events'[d] /\ events'[d][i - 1] = events[d][i]
      /\ UNCHANGED <<convs, updatedAt, last, announced, online, told, unsent, news, starts,
                     listing>>
  BY <1>1, <1>4, TookFacts
<1>6. p.user \in Users
  BY <1>4, <1>5 DEF AnyEvent
<1>7. /\ missed' \in [Clients -> SUBSET (Ids \cup Users)]
      /\ missed[d] \subseteq missed'[d]
      /\ \A c \in Clients : c # d => missed'[c] = missed[c]
      /\ listing[d].pc # "read" \/ p.user \in missed'[d]
  BY <1>4, <1>6 DEF IInv, Types, Set
<1>8. old \in Seq(AnyEntry) /\ PageHolds(d, old) /\ events[d] \in Seq(AnyEvent)
      /\ events'[d] \in Seq(AnyEvent)
  BY <1>2, <1>5, FetchFacts DEF IInv, ListHolds
<1>9. /\ page \in Seq(AnyEntry) /\ DOMAIN page = DOMAIN old
      /\ \A i \in DOMAIN old : page[i] = WithStatus(old[i], p) /\ page[i].conv = old[i].conv
  <2>1. page = [i \in DOMAIN old |-> WithStatus(old[i], p)]
    BY <1>2, <1>3 DEF Present
  <2>2. \A i \in DOMAIN old : WithStatus(old[i], p) \in AnyEntry
                              /\ WithStatus(old[i], p).conv = old[i].conv
    BY <1>4, <1>5, <1>8, StatusFacts
  <2>3. DOMAIN old = 1 .. Len(old) /\ Len(old) \in Nat
    BY <1>8
  <2>4. page \in [1 .. Len(old) -> AnyEntry]
    BY <2>1, <2>2, <2>3
  <2>5. QED BY <2>1, <2>2, <2>3, <2>4
<1>10. /\ list' \in [Clients -> Seq(AnyEntry)] /\ list'[d] = page
       /\ \A c \in Clients : c # d => list'[c] = list[c]
  BY <1>4, <1>9 DEF IInv, Types, Set
<1>11. Types'
  BY <1>5, <1>7, <1>10 DEF IInv, Types
<1>12. \A x : /\ \A j \in Pending(d, x) : j # 1 => j - 1 \in Pending(d, x)'
              /\ \A j \in PendingStatus(d, x) : j # 1 => j - 1 \in PendingStatus(d, x)'
  BY <1>5, <1>8, TookPending
<1>13. \A k \in Ids : LastKept(d, k)
  <2>1. ASSUME NEW k \in Ids PROVE 1 \notin Pending(d, k)
    BY <1>4, <1>5 DEF Pending
  <2>2. QED BY <1>5, <1>7, <1>12, <2>1 DEF LastKept, Unsent
<1>14. \A u \in Users : u # p.user => StatusKept(d, u)
  <2>1. ASSUME NEW u \in Users, u # p.user PROVE 1 \notin PendingStatus(d, u)
    BY <1>5, <2>1 DEF PendingStatus
  <2>2. QED BY <1>5, <1>7, <1>12, <2>1 DEF StatusKept, UnsentStatus
<1>15. Mine(d)' = Mine(d)
  BY <1>5 DEF Mine
<1>16. ASSUME NEW i \in DOMAIN old PROVE EntryHolds(d, page[i])'
  <2>1. PICK e \in AnyEntry : e = old[i] /\ EntryHolds(d, e)
    BY <1>8 DEF PageHolds
  <2>2. PICK x \in AnyEntry : x = WithStatus(e, p) /\ x = page[i]
    BY <1>9, <2>1
  <2>3. /\ x.conv = e.conv /\ x.last = e.last /\ x.members = e.members
        /\ p.user \in e.members => (p.user \in x.online <=> p.online)
        /\ \A u : u # p.user => (u \in x.online <=> u \in e.online)
    <3>1. /\ WithStatus(e, p).conv = e.conv /\ WithStatus(e, p).last = e.last
          /\ WithStatus(e, p).members = e.members
          /\ p.user \in e.members => (p.user \in WithStatus(e, p).online <=> p.online)
          /\ \A u : u # p.user => (u \in WithStatus(e, p).online <=> u \in e.online)
      BY <1>4, <1>5, StatusFacts
    <3>2. QED BY <2>2, <3>1, Zenon
  <2>4. x.conv \in Mine(d)'
    BY <1>15, <2>1, <2>3 DEF EntryHolds
  <2>5. LastHolds(d, x)'
    <3>1. e.conv \in Ids /\ LastHolds(d, e)
      BY <2>1 DEF AnyEntry, EntryHolds
    <3>2. LastHolds(d, e)'
      BY <1>7, <1>13, <3>1, LastStays
    <3>3. QED BY <2>3, <3>2 DEF LastHolds
  <2>6. ASSUME NEW u \in x.members PROVE StatusHolds(d, x, u)'
    <3>1. u \in Users /\ StatusHolds(d, e, u)
      BY <2>1, <2>3, <2>6 DEF EntryHolds, AnyEntry
    <3>2. CASE u # p.user
      <4>1. StatusHolds(d, e, u)'
        BY <1>7, <1>14, <3>1, <3>2, StatusStays
      <4>2. QED BY <2>3, <3>2, <4>1 DEF StatusHolds
    <3>3. CASE u = p.user
      <4>1. \/ p.online <=> u \in told
            \/ \E j \in PendingStatus(d, u) : j > 1
            \/ u \in missed[d]
        BY <1>4, <1>5, <3>3 DEF EventHolds
      <4>2. CASE \E j \in PendingStatus(d, u) : j > 1
        <5>1. PICK j \in PendingStatus(d, u) : j > 1
          BY <4>2
        <5>2. j - 1 \in PendingStatus(d, u)'
          BY <1>12, <5>1
        <5>3. QED BY <5>2 DEF StatusHolds
      <4>3. u \in x.online <=> p.online
        BY <2>3, <2>6, <3>3
      <4>4. QED BY <1>5, <1>7, <4>1, <4>2, <4>3 DEF StatusHolds
    <3>4. QED BY <3>2, <3>3
  <2>7. EntryHolds(d, x)'
    BY <2>4, <2>5, <2>6 DEF EntryHolds
  <2>8. QED BY <2>2, <2>7
<1>17. NoRepeats(page)
  BY <1>8, <1>9 DEF PageHolds, NoRepeats
<1>18. PageHolds(d, page)'
  BY <1>9, <1>16, <1>17 DEF PageHolds, NoRepeats
<1>19. ASSUME listing[d].pc = "read" PROVE PageHolds(d, listing[d].page)'
  <2>1. p.user \in missed'[d]
    BY <1>7, <1>19
  <2>2. Kept(d)
    BY <1>7, <1>13, <1>14, <1>15, <2>1 DEF Kept, StatusKept
  <2>3. PICK q \in Seq(AnyEntry) : q = listing[d].page /\ PageHolds(d, q)
    BY <1>19, FetchFacts DEF IInv, ListHolds
  <2>4. PageHolds(d, q)'
    BY <2>2, <2>3, PageStays
  <2>5. listing'[d].page = q
    BY <1>5, <2>3
  <2>6. QED BY <2>4, <2>5
<1>20. ASSUME NEW c \in Clients PROVE ListHolds(c)'
  <2>1. CASE c = d
    <3>1. \A i \in DOMAIN events'[d] : EventHolds(d, i)'
      BY <1>4, <1>7, TookEvents
    <3>2. listing'[d].pc = "read" => PageHolds(d, listing[d].page)'
      BY <1>5, <1>19
    <3>3. QED BY <1>10, <1>18, <2>1, <3>1, <3>2 DEF ListHolds
  <2>2. CASE c # d
    BY <1>5, <1>7, <1>10, <2>2, OtherListsStay
  <2>3. QED BY <2>1, <2>2
<1>21. QED BY <1>11, <1>20 DEF IInv

-----------------------------------------------------------------------------

(* Initially nothing is listed and nothing on its way. *)
LEMMA InitListsHold == Init => IInv
<1> SUFFICES ASSUME Init PROVE IInv
  OBVIOUS
<1>1. /\ last = [k \in Ids |-> 0] /\ announced = [k \in Ids |-> 0]
      /\ updatedAt = [k \in Ids |-> 0]
      /\ unsent = {} /\ news = 0 /\ starts = 0 /\ online \subseteq Users /\ told \subseteq Users
      /\ listing = [c \in Clients |-> IF c \in Mounted THEN [pc |-> "asked"] ELSE None]
      /\ events = [c \in Clients |-> <<>>] /\ list = [c \in Clients |-> <<>>]
      /\ missed = [c \in Clients |-> {}]
  BY DEF Init
<1>2. 0 \in 0 .. MaxNews /\ 0 \in 0 .. MaxStarts
  BY ConversationsAssumption
<1>3. /\ [pc |-> "asked"] \in Fetch /\ None \in Fetch
      /\ \A c \in Clients : listing[c].pc # "read"
  BY <1>1 DEF Fetch, None
<1>4. \A k \in Ids : last[k] = 0
  BY <1>1
<1>5. Types
  BY <1>1, <1>2, <1>3, <1>4 DEF Types
<1>6. ASSUME NEW c \in Clients PROVE ListHolds(c)
  <2>1. DOMAIN events[c] = {} /\ DOMAIN list[c] = {}
    BY <1>1
  <2>2. QED BY <1>3, <2>1 DEF ListHolds, PageHolds, NoRepeats
<1>7. QED BY <1>5, <1>6, InitHolds DEF IInv

(* The invariant of the lists holds throughout. *)
LEMMA ListsInductive == Spec => []IInv
<1>1. ASSUME IInv, CInv', [Next]_vars PROVE IInv'
  <2>1. CASE \E c \in Clients, kind \in Kinds, o \in Users : Start(c, kind, {o})
    BY <1>1, <2>1, RequestsKeepLists
  <2>2. CASE \E c \in Clients : Find(c) \/ Create(c) \/ StartAnswered(c) \/ StartFails(c)
    BY <1>1, <2>2, RequestsKeepLists, StartAnsweredKeepsLists
  <2>3. CASE \E c \in Clients : ListRead(c) \/ ListArrives(c) \/ ListFails(c)
    BY <1>1, <2>3, ListingKeepsLists
  <2>4. CASE \E k \in DOMAIN convs : Save(k)
    BY <1>1, <2>4, SaveKeepsLists
  <2>5. CASE \E u \in Movers, isOnline \in BOOLEAN : StatusSet(u, isOnline)
    BY <1>1, <2>5, StatusSetKeepsLists
  <2>6. CASE \E e \in unsent, room \in SUBSET Mounted :
                Announce(e, room) \/ StatusAnnounced(e, room)
    <3>1. SUBSET Mounted \subseteq SUBSET Clients
      BY ConversationsAssumption
    <3>2. QED BY <1>1, <2>6, <3>1, AnnounceKeepsLists, StatusAnnouncedKeepsLists
  <2>7. CASE \E e \in unsent : Unannounced(e)
    BY <1>1, <2>7, UnannouncedKeepsLists
  <2>8. CASE \E c \in Clients : Receive(c) \/ ReceivePresence(c)
    BY <1>1, <2>8, ReceiveKeepsLists, ReceivePresenceKeepsLists
  <2>9. CASE UNCHANGED vars
    <3>1. /\ UNCHANGED <<convs, updatedAt, last, announced, online, told, unsent, news,
                         starts, listing, events, list, missed>>
      BY <2>9 DEF vars, serverVars, convVars, statusVars, clientVars
    <3>2. Types'
      BY <1>1, <3>1 DEF IInv, Types
    <3>3. \A c \in Clients : ListHolds(c)'
      BY <1>1, <3>1, OtherListsStay
    <3>4. QED BY <1>1, <3>2, <3>3 DEF IInv
  <2>10. QED BY <1>1, <2>1, <2>2, <2>3, <2>4, <2>5, <2>6, <2>7, <2>8, <2>9 DEF Next
<1>2. IInv /\ CInv' /\ [Next]_vars => IInv'
  BY <1>1
<1>3. QED BY <1>2, InitListsHold, Inductive, PTL DEF Spec

(* Elements that are all of another type. *)
LEMMA Retyped ==
    ASSUME NEW S, NEW T, NEW s \in Seq(S), \A i \in DOMAIN s : s[i] \in T
    PROVE  s \in Seq(T)
OBVIOUS

(* Types; whatever a client lists, or is sent, is a conversation that      *)
(* exists, whatever starts failed or raced.                                *)
THEOREM ListTypeTheorem == Spec => []TypeOK
<1>1. ASSUME IInv PROVE TypeOK
  <2>1. ASSUME NEW c \in Clients
        PROVE  /\ start[c].pc \in {"none", "find", "create", "answer"}
               /\ listing[c].pc \in {"none", "asked", "read"}
               /\ events[c] \in Seq(Event)
               /\ list[c] \in Seq(Entry)
    <3>1. ListHolds(c) /\ list[c] \in Seq(AnyEntry) /\ events[c] \in Seq(AnyEvent)
          /\ listing[c] \in Fetch /\ start[c] \in Request
      BY <1>1, FetchFacts DEF IInv, CInv, Types
    <3>2. ASSUME NEW i \in DOMAIN events[c] PROVE events[c][i] \in Event
      <4>1. events[c][i] \in AnyEvent /\ EventHolds(c, i)
        BY <3>1 DEF ListHolds
      <4>2. PICK e \in AnyEvent : e = events[c][i]
        BY <4>1
      <4>3. e.kind = "message" => e.conv \in DOMAIN convs
        BY <4>1, <4>2 DEF EventHolds
      <4>4. e \in Event
        BY <4>3 DEF AnyEvent, Event
      <4>5. QED BY <4>2, <4>4
    <3>3. ASSUME NEW i \in DOMAIN list[c] PROVE list[c][i] \in Entry
      <4>1. PICK e \in AnyEntry : e = list[c][i] /\ EntryHolds(c, e)
        BY <3>1 DEF ListHolds, PageHolds
      <4>2. e.conv \in DOMAIN convs
        BY <4>1 DEF EntryHolds, Mine
      <4>3. e \in Entry
        BY <4>2 DEF AnyEntry, Entry
      <4>4. QED BY <4>1, <4>3
    <3>4. events[c] \in Seq(Event) /\ list[c] \in Seq(Entry)
      BY <3>1, <3>2, <3>3, Retyped
    <3>5. QED BY <3>1, <3>4 DEF Fetch, Request, None
  <2>2. ASSUME NEW e \in unsent PROVE e \in Event
    <3>1. e \in AnyEvent /\ (e.kind = "message" => e.conv \in DOMAIN convs)
      BY <1>1 DEF IInv, Types
    <3>2. QED BY <3>1 DEF AnyEvent, Event
  <2>3. QED BY <1>1, <2>1, <2>2 DEF TypeOK, IInv, CInv, Types, Document
<1>2. IInv => TypeOK
  BY <1>1
<1>3. QED BY <1>2, ListsInductive, PTL

(* However starts, the list response and events interleave, a client lists *)
(* each conversation once, and only conversations of its user.             *)
THEOREM MineTheorem == Spec => []ListIsMine
<1>1. ASSUME IInv, NEW c \in Clients
      PROVE  Listed(c) \subseteq Mine(c) /\ Cardinality(Listed(c)) = Len(list[c])
  <2>1. list[c] \in Seq(AnyEntry) /\ PageHolds(c, list[c])
    BY <1>1, FetchFacts DEF IInv, ListHolds
  <2>2. Listed(c) = {list[c][i].conv : i \in DOMAIN list[c]}
    BY DEF Listed, ToSet
  <2>3. Listed(c) \subseteq Mine(c)
    BY <2>1, <2>2 DEF PageHolds, EntryHolds
  <2> DEFINE n == Len(list[c])
             at == [i \in 1 .. n |-> list[c][i].conv]
  <2>4. n \in Nat /\ DOMAIN list[c] = 1 .. n
    BY <2>1
  <2>5. at \in [1 .. n -> Listed(c)]
    BY <2>2, <2>4
  <2>6. \A i, j \in 1 .. n : at[i] = at[j] => i = j
    BY <2>1, <2>4 DEF PageHolds, NoRepeats
  <2>7. \A k \in Listed(c) : \E i \in 1 .. n : at[i] = k
    BY <2>2, <2>4
  <2>8. at \in Bijection(1 .. n, Listed(c))
    BY <2>5, <2>6, <2>7 DEF Bijection, Injection, Surjection, IsInjective
  <2>9. ExistsBijection(1 .. n, Listed(c))
    BY <2>8 DEF ExistsBijection
  <2>10. Cardinality(Listed(c)) = n
    BY <2>4, <2>9, FS_CountingElements
  <2>11. QED BY <2>3, <2>10
<1>2. IInv => ListIsMine
  BY <1>1 DEF ListIsMine
<1>3. QED BY <1>2, ListsInductive, PTL

(* However sends overlap and in whatever order they are announced, a list  *)
(* that has heard everything shows of each conversation the message        *)
(* announced last, or the last one, until the client misses one, and again *)
(* from the next one that reaches it.                                      *)
THEOREM CurrentTheorem == Spec => []ListIsCurrent
<1>1. ASSUME IInv, NEW c \in Clients, events[c] = <<>>, NEW e \in ToSet(list[c])
      PROVE  \/ e.last = announced[e.conv]
             \/ e.last = last[e.conv]
             \/ \E n \in unsent : n.kind = "message" /\ n.conv = e.conv
             \/ e.conv \in missed[c]
  <2>1. LastHolds(c, e)
    BY <1>1 DEF IInv, ListHolds, PageHolds, EntryHolds, ToSet
  <2>2. Pending(c, e.conv) = {}
    BY <1>1 DEF Pending
  <2>3. QED BY <2>1, <2>2 DEF LastHolds, Unsent
<1>2. IInv => ListIsCurrent
  BY <1>1 DEF ListIsCurrent
<1>3. QED BY <1>2, ListsInductive, PTL

(* Likewise the status of each member, however a user's updates overlap.   *)
THEOREM StatusTheorem == Spec => []StatusIsCurrent
<1>1. ASSUME IInv, NEW c \in Clients, events[c] = <<>>, NEW e \in ToSet(list[c]),
             NEW u \in e.members
      PROVE  \/ u \in e.online <=> u \in told
             \/ u \in e.online <=> u \in online
             \/ \E n \in unsent : n.kind = "presence" /\ n.user = u
             \/ u \in missed[c]
  <2>1. StatusHolds(c, e, u)
    BY <1>1 DEF IInv, ListHolds, PageHolds, EntryHolds, ToSet
  <2>2. PendingStatus(c, u) = {}
    BY <1>1 DEF PendingStatus
  <2>3. QED BY <2>1, <2>2 DEF StatusHolds, UnsentStatus
<1>2. IInv => StatusIsCurrent
  BY <1>1 DEF StatusIsCurrent
<1>3. QED BY <1>2, ListsInductive, PTL
=============================================================================
