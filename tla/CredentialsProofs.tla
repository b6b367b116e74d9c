-------------------------- MODULE CredentialsProofs --------------------------
(***************************************************************************)
(* Proofs about Credentials, for any callers, streams, links and bounds.   *)
(***************************************************************************)
EXTENDS Credentials, TLAPS

(* What every state satisfies about who has which credentials. Identities   *)
(* come from a counter, so credentials on their way into the cache are known *)
(* to nobody else; cached ones sit under one key, the key of every caller    *)
(* that was given them, which is why evicting the caller's key is enough.    *)

\* The number of whatever is held, cached or refused has been handed out.
IdsKnown ==
    /\ \A c \in Callers : Holds(c) => got[c].id <= fetched
    /\ \A k \in Keys : cache[k] /= None => cache[k].id <= fetched
    /\ \A i \in refused : i <= fetched

\* No credentials are cached under two keys.
CachedOnce ==
    \A j, k \in Keys :
        cache[j] /= None /\ cache[k] /= None /\ cache[j].id = cache[k].id => j = k

\* Credentials that are still to be inserted are in nobody else's hands.
NewIsPrivate ==
    \A c \in Callers : pc[c] = "insert" =>
        /\ got[c].id \notin refused
        /\ \A k \in Keys : cache[k] /= None => cache[k].id /= got[c].id
        /\ \A d \in Callers : d /= c /\ Holds(d) => got[d].id /= got[c].id

\* The part of the invariant that speaks of identities.
IdInv == IdsKnown /\ CachedOnce /\ NewIsPrivate /\ CachedUnderOwnKey /\ RefusedIsGone

\* Cached credentials have a url, like those in a caller's hands.
UrlInv == SomeUrl /\ \A k \in Keys : cache[k] /= None => cache[k].urls > 0

LEMMA KeyIsKey == ASSUME NEW c \in Callers PROVE Key(c) \in Keys
  BY DEF Keys

LEMMA CredsAreRecords ==
    ASSUME NEW x \in Creds
    PROVE  x /= None /\ x.id \in Nat /\ x.urls \in Nat
  BY NoneAssumption, CredentialsAssumption DEF Creds

\* Every caller that holds credentials holds them for the link it asked for.
THEOREM LinkIsOwn == Spec => [](TypeOK /\ OwnLink)
<1> USE CredentialsAssumption DEF TypeOK
<1>1. Init => TypeOK /\ OwnLink
  <2> SUFFICES ASSUME Init PROVE TypeOK /\ OwnLink
    OBVIOUS
  <2>1. fresh \in [Keys -> BOOLEAN]
    BY Zenon DEF Init
  <2> QED
    BY <2>1 DEF Init, OwnLink, Holds
<1>2. TypeOK /\ OwnLink /\ [Next]_vars => TypeOK'
  <2> SUFFICES ASSUME TypeOK, OwnLink, [Next]_vars PROVE TypeOK'
    OBVIOUS
  <2>1. ASSUME NEW c \in Callers, Hit(c) \/ Miss(c) \/ NextRequest(c) \/ FetchFails(c)
                                    \/ Release(c)
        PROVE  TypeOK'
    <3>1. /\ pc' \in [Callers -> {"idle", "fetch", "insert", "have"}]
          /\ step' \in [Callers -> 0 .. 5]
      BY <2>1 DEF Hit, Miss, NextRequest, FetchFails, Release
    <3>2. got' \in [Callers -> Creds \cup {None}]
      BY <2>1, KeyIsKey DEF Hit, Miss, NextRequest, FetchFails, Release
    <3>3. UNCHANGED <<cache, fresh, fetched, refused>>
      BY <2>1 DEF Hit, Miss, NextRequest, FetchFails, Release
    <3> QED
      BY <3>1, <3>2, <3>3
  <2>2. ASSUME NEW c \in Callers, LastAnswer(c)
        PROVE  TypeOK'
    <3>1. fetched + 1 \in 1 .. MaxFetches /\ LinkOf[c] \in Links
      BY <2>2 DEF LastAnswer, Links
    <3>2. got' \in [Callers -> Creds \cup {None}]
      BY <2>2, <3>1 DEF LastAnswer, Creds
    <3> QED
      BY <2>2, <3>1, <3>2 DEF LastAnswer
  <2>3. ASSUME NEW c \in Callers, Insert(c)
        PROVE  TypeOK'
    <3>1. fresh' \in [Keys -> BOOLEAN]
      BY <2>3, Zenon DEF Insert
    <3>2. cache' \in [Keys -> Creds \cup {None}]
      BY <2>3 DEF Insert
    <3> QED
      BY <2>3, <3>1, <3>2 DEF Insert
  <2>4. ASSUME NEW c \in Callers, handleAuthError(c)
        PROVE  TypeOK'
    <3>1. fresh' \in [Keys -> BOOLEAN]
      BY <2>4, Zenon DEF handleAuthError
    <3>2. got[c].id \in 1 .. MaxFetches
      <4>1. got[c] \in Creds
        BY <2>4 DEF handleAuthError, OwnLink, Holds
      <4> QED
        BY <4>1 DEF Creds
    <3> QED
      BY <2>4, <3>1, <3>2 DEF handleAuthError
  <2>5. ASSUME NEW k \in Keys, Expire(k)
        PROVE  TypeOK'
    <3>1. fresh' \in [Keys -> BOOLEAN]
      BY <2>5, Zenon DEF Expire
    <3> QED
      BY <2>5, <3>1 DEF Expire
  <2> QED
    BY <2>1, <2>2, <2>3, <2>4, <2>5 DEF Next, GetCredsStep, vars
<1>3. TypeOK /\ OwnLink /\ [Next]_vars => OwnLink'
  <2> SUFFICES ASSUME TypeOK, OwnLink, [Next]_vars,
                      NEW d \in Callers, Holds(d)'
               PROVE  got'[d] /= None /\ got'[d].link = LinkOf[d]
    BY DEF OwnLink
  <2>1. CASE UNCHANGED <<got, pc>>
    BY <2>1 DEF OwnLink, Holds
  <2>2. ASSUME NEW c \in Callers, LastAnswer(c)
        PROVE  got'[d] /= None /\ got'[d].link = LinkOf[d]
    <3>1. PICK urls \in 1 .. MaxUrls :
             got' = [got EXCEPT ![c] =
                       [id |-> fetched + 1, link |-> LinkOf[c], urls |-> urls]]
      BY <2>2 DEF LastAnswer
    <3>2. [id |-> fetched + 1, link |-> LinkOf[c], urls |-> urls] \in Creds
      BY <2>2 DEF LastAnswer, Creds, Links
    <3>3. CASE d = c
      BY <3>1, <3>2, <3>3, NoneAssumption
    <3>4. CASE d /= c
      BY <2>2, <3>1, <3>4 DEF LastAnswer, OwnLink, Holds
    <3> QED
      BY <3>3, <3>4
  <2>3. ASSUME NEW c \in Callers, Hit(c)
        PROVE  got'[d] /= None /\ got'[d].link = LinkOf[d]
    BY <2>3 DEF Hit, Usable, OwnLink, Holds
  <2>4. ASSUME NEW c \in Callers, Miss(c) \/ NextRequest(c) \/ FetchFails(c) \/ Insert(c)
        PROVE  got'[d] /= None /\ got'[d].link = LinkOf[d]
    BY <2>4 DEF Miss, NextRequest, FetchFails, Insert, OwnLink, Holds
  <2>5. ASSUME NEW c \in Callers, Release(c) \/ handleAuthError(c)
        PROVE  got'[d] /= None /\ got'[d].link = LinkOf[d]
    BY <2>5 DEF Release, handleAuthError, OwnLink, Holds
  <2> QED
    BY <2>1, <2>2, <2>3, <2>4, <2>5 DEF Next, GetCredsStep, vars, Expire
<1> QED
  BY <1>1, <1>2, <1>3, PTL DEF Spec

-----------------------------------------------------------------------------
\* No step brings refused credentials back into the cache.
LEMMA IdInvKept ==
    ASSUME TypeOK, OwnLink, IdInv, [Next]_vars
    PROVE  IdInv'
<1> USE DEF TypeOK, IdInv, IdsKnown, CachedOnce, NewIsPrivate, CachedUnderOwnKey,
            RefusedIsGone, Holds
<1>0. /\ fetched \in Nat
      /\ \A c \in Callers : Key(c) \in Keys
      /\ \A c \in Callers : Holds(c) => got[c] \in Creds /\ got[c] /= None
                                       /\ got[c].id \in Nat
      /\ \A k \in Keys : cache[k] /= None => cache[k] \in Creds /\ cache[k].id \in Nat
  BY KeyIsKey, CredsAreRecords, CredentialsAssumption DEF OwnLink
<1>1. ASSUME NEW c \in Callers, Miss(c) \/ NextRequest(c) \/ FetchFails(c) \/ Release(c)
      PROVE  IdInv'
  <2>1. /\ UNCHANGED <<cache, fetched, refused>>
        /\ \A d \in Callers : Holds(d)' => Holds(d) /\ pc'[d] = pc[d] /\ got'[d] = got[d]
    BY <1>1 DEF Miss, NextRequest, FetchFails, Release
  <2> QED
    BY <2>1
<1>2. ASSUME NEW c \in Callers, Hit(c)
      PROVE  IdInv'
  <2>1. /\ UNCHANGED <<cache, fetched, refused>>
        /\ cache[Key(c)] /= None /\ got'[c] = cache[Key(c)] /\ pc'[c] = "have"
        /\ \A d \in Callers : d /= c => pc'[d] = pc[d] /\ got'[d] = got[d]
    BY <1>2 DEF Hit, Usable
  <2> QED
    BY <1>0, <2>1
<1>3. ASSUME NEW c \in Callers, LastAnswer(c)
      PROVE  IdInv'
  <2>1. /\ UNCHANGED <<cache, refused>> /\ fetched' = fetched + 1
        /\ got'[c].id = fetched + 1 /\ pc'[c] = "insert"
        /\ \A d \in Callers : d /= c => pc'[d] = pc[d] /\ got'[d] = got[d]
    BY <1>3 DEF LastAnswer
  <2>2. refused \subseteq Nat
    BY CredentialsAssumption
  <2> QED
    BY <1>0, <2>1, <2>2
<1>4. ASSUME NEW c \in Callers, Insert(c)
      PROVE  IdInv'
  <2>1. /\ UNCHANGED <<fetched, refused, got>>
        /\ cache' = [cache EXCEPT ![Key(c)] = got[c]]
        /\ pc[c] = "insert" /\ pc'[c] = "have"
        /\ \A d \in Callers : d /= c => pc'[d] = pc[d]
    BY <1>4 DEF Insert
  <2> QED
    BY <1>0, <2>1
<1>5. ASSUME NEW c \in Callers, handleAuthError(c)
      PROVE  IdInv'
  <2>1. /\ fetched' = fetched /\ refused' = refused \cup {got[c].id}
        /\ cache' = [cache EXCEPT ![Key(c)] = None]
        /\ pc[c] = "have" /\ pc'[c] = "idle"
        /\ \A d \in Callers : d /= c => pc'[d] = pc[d] /\ got'[d] = got[d]
    BY <1>5 DEF handleAuthError
  <2> QED
    BY <1>0, <2>1
<1>6. ASSUME NEW k \in Keys, Expire(k)
      PROVE  IdInv'
  BY <1>6 DEF Expire
<1>7. CASE UNCHANGED vars
  BY <1>7 DEF vars
<1> QED
  BY <1>1, <1>2, <1>3, <1>4, <1>5, <1>6, <1>7 DEF Next, GetCredsStep

\* Credentials reported as refused are never handed out from the cache again.
THEOREM RefusedStaysGone == Spec => []RefusedIsGone
<1>1. Init => IdInv
  BY DEF Init, IdInv, IdsKnown, CachedOnce, NewIsPrivate, CachedUnderOwnKey,
         RefusedIsGone, Holds
<1>2. TypeOK /\ OwnLink /\ IdInv /\ [Next]_vars => IdInv'
  BY IdInvKept
<1>3. IdInv => RefusedIsGone
  BY DEF IdInv
<1> QED
  BY <1>1, <1>2, <1>3, LinkIsOwn, PTL DEF Spec

\* turn_address() never takes a remainder by zero.
THEOREM UrlsAreThere == Spec => []SomeUrl
<1> USE DEF UrlInv, SomeUrl, Holds
<1>1. Init => UrlInv
  BY DEF Init
<1>2. TypeOK /\ OwnLink /\ UrlInv /\ [Next]_vars => UrlInv'
  <2> SUFFICES ASSUME TypeOK, OwnLink, UrlInv, [Next]_vars PROVE UrlInv'
    OBVIOUS
  <2> USE DEF TypeOK
  <2>1. ASSUME NEW c \in Callers, LastAnswer(c)
        PROVE  UrlInv'
    BY <2>1, CredentialsAssumption DEF LastAnswer
  <2>2. ASSUME NEW c \in Callers, Hit(c)
        PROVE  UrlInv'
    BY <2>2, KeyIsKey DEF Hit, Usable
  <2>3. ASSUME NEW c \in Callers, Insert(c)
        PROVE  UrlInv'
    BY <2>3, KeyIsKey DEF Insert
  <2>4. ASSUME NEW c \in Callers, Miss(c) \/ NextRequest(c) \/ FetchFails(c)
                                    \/ Release(c) \/ handleAuthError(c)
        PROVE  UrlInv'
    BY <2>4, KeyIsKey DEF Miss, NextRequest, FetchFails, Release, handleAuthError
  <2> QED
    BY <2>1, <2>2, <2>3, <2>4 DEF Next, GetCredsStep, vars, Expire
<1> QED
  BY <1>1, <1>2, LinkIsOwn, PTL DEF Spec

-----------------------------------------------------------------------------
\* What is held and cached are credentials or nothing, and no caller passes the
\* last request of the chain.
THEOREM TypeCorrect == Spec => []TypeOK
  BY LinkIsOwn, PTL

=============================================================================
