---------------------------- MODULE Credentials ----------------------------
(***************************************************************************)
(* The cache of TURN credentials (vk_auth) and the chain of requests that  *)
(* fills it (creds_vkcalls), used by any number of concurrent callers. The *)
(* cache is locked for the lookup, for the insertion and for an eviction,  *)
(* never while credentials are being fetched.                              *)
(***************************************************************************)
EXTENDS Integers

CONSTANTS
    Callers,          \* tasks that call GetCreds and handleAuthError
    StreamOf,         \* StreamOf[c]: the stream id c passes
    LinkOf,           \* LinkOf[c]: the call link c passes
    StreamsPerCache,  \* STREAMS_PER_CACHE (10)
    None,             \* no credentials
    MaxFetches,       \* bound: credentials fetched in a behaviour
    MaxUrls           \* bound: TURN urls in an answer

ASSUME CredentialsAssumption ==
    /\ StreamOf \in [Callers -> Nat]
    /\ StreamsPerCache \in Nat \ {0}
    /\ MaxFetches \in Nat
    /\ MaxUrls \in Nat \ {0}

\* getCacheID
getCacheID(stream) == stream \div StreamsPerCache

Key(c) == getCacheID(StreamOf[c])
Keys   == {Key(c) : c \in Callers}
Links  == {LinkOf[c] : c \in Callers}

\* Credentials are known by a number; urls is how many TURN urls they name.
Creds == [id : 1 .. MaxFetches, link : Links, urls : 0 .. MaxUrls]

ASSUME NoneAssumption == None \notin Creds

VARIABLES
    pc,       \* pc[c]: "idle", "fetch", "insert" or "have"
    step,     \* step[c]: the request of the chain c waits for; 0 before the first
    got,      \* got[c]: the credentials c fetched or was given
    cache,    \* CACHES: by key, the credentials or None
    fresh,    \* fresh[k]: the entry's 540 s have not passed
    fetched,  \* how many credentials have been handed out
    refused   \* credentials for which some caller called handleAuthError

vars == <<pc, step, got, cache, fresh, fetched, refused>>

TypeOK ==
    /\ pc \in [Callers -> {"idle", "fetch", "insert", "have"}]
    /\ step \in [Callers -> 0 .. 5]
    /\ got \in [Callers -> Creds \cup {None}]
    /\ cache \in [Keys -> Creds \cup {None}]
    /\ fresh \in [Keys -> BOOLEAN]
    /\ fetched \in 0 .. MaxFetches
    /\ refused \subseteq 1 .. MaxFetches

Init ==
    /\ pc = [c \in Callers |-> "idle"]
    /\ step = [c \in Callers |-> 0]
    /\ got = [c \in Callers |-> None]
    /\ cache = [k \in Keys |-> None]
    /\ fresh = [k \in Keys |-> FALSE]
    /\ fetched = 0
    /\ refused = {}

-----------------------------------------------------------------------------
(* GetCreds *)

\* Fault: an entry is used whatever link it was fetched for.
Usable_AnyLink(c) == cache[Key(c)] /= None /\ fresh[Key(c)]

\* The entry under c's key is for c's link and has not expired.
Usable(c) ==
    /\ cache[Key(c)] /= None
    /\ cache[Key(c)].link = LinkOf[c]
    /\ fresh[Key(c)]

Hit(c) ==
    /\ pc[c] = "idle"
    /\ Usable(c)
    /\ got' = [got EXCEPT ![c] = cache[Key(c)]]
    /\ pc' = [pc EXCEPT ![c] = "have"]
    /\ UNCHANGED <<step, cache, fresh, fetched, refused>>

Miss(c) ==
    /\ pc[c] = "idle"
    /\ ~Usable(c)
    /\ pc' = [pc EXCEPT ![c] = "fetch"]
    /\ step' = [step EXCEPT ![c] = 0]
    /\ UNCHANGED <<got, cache, fresh, fetched, refused>>

\* Fault: there is one request too many.
NextRequest_OneMore(c) ==
    /\ pc[c] = "fetch"
    /\ step[c] <= 5
    /\ step' = [step EXCEPT ![c] = @ + 1]
    /\ UNCHANGED <<pc, got, cache, fresh, fetched, refused>>

\* The preflight passed, or an answer held what the next request needs.
NextRequest(c) ==
    /\ pc[c] = "fetch"
    /\ step[c] < 5
    /\ step' = [step EXCEPT ![c] = @ + 1]
    /\ UNCHANGED <<pc, got, cache, fresh, fetched, refused>>

\* Fault: the chain begins anew instead of reporting the error.
FetchFails_Restarts(c) ==
    /\ pc[c] = "fetch"
    /\ step' = [step EXCEPT ![c] = 0]
    /\ UNCHANGED <<pc, got, cache, fresh, fetched, refused>>

\* VK_SKIP_VKCALLS, a network error or timeout, an answer that is not JSON, one
\* that reports an error (captcha, call unavailable, API) or lacks a field.
FetchFails(c) ==
    /\ pc[c] = "fetch"
    /\ pc' = [pc EXCEPT ![c] = "idle"]
    /\ step' = [step EXCEPT ![c] = 0]
    /\ UNCHANGED <<got, cache, fresh, fetched, refused>>

\* Fault: the list of urls is not looked at.
LastAnswer_AnyUrls(c) ==
    /\ pc[c] = "fetch"
    /\ step[c] = 5
    /\ fetched < MaxFetches
    /\ \E urls \in 0 .. MaxUrls :
          got' = [got EXCEPT ![c] =
                    [id |-> fetched + 1, link |-> LinkOf[c], urls |-> urls]]
    /\ fetched' = fetched + 1
    /\ pc' = [pc EXCEPT ![c] = "insert"]
    /\ step' = [step EXCEPT ![c] = 0]
    /\ UNCHANGED <<cache, fresh, refused>>

\* The last answer names a user, a credential and at least one TURN url.
LastAnswer(c) ==
    /\ pc[c] = "fetch"
    /\ step[c] = 5
    /\ fetched < MaxFetches
    /\ \E urls \in 1 .. MaxUrls :
          got' = [got EXCEPT ![c] =
                    [id |-> fetched + 1, link |-> LinkOf[c], urls |-> urls]]
    /\ fetched' = fetched + 1
    /\ pc' = [pc EXCEPT ![c] = "insert"]
    /\ step' = [step EXCEPT ![c] = 0]
    /\ UNCHANGED <<cache, fresh, refused>>

\* CACHES.insert, whatever is there by now.
Insert(c) ==
    /\ pc[c] = "insert"
    /\ cache' = [cache EXCEPT ![Key(c)] = got[c]]
    /\ fresh' = [fresh EXCEPT ![Key(c)] = TRUE]
    /\ pc' = [pc EXCEPT ![c] = "have"]
    /\ UNCHANGED <<step, got, fetched, refused>>

-----------------------------------------------------------------------------
\* The caller is done with its credentials and may call GetCreds again.
Release(c) ==
    /\ pc[c] = "have"
    /\ pc' = [pc EXCEPT ![c] = "idle"]
    /\ got' = [got EXCEPT ![c] = None]
    /\ UNCHANGED <<step, cache, fresh, fetched, refused>>

\* Fault: the stream id itself is used as the key.
handleAuthError_RawStream(c) ==
    /\ pc[c] = "have"
    /\ cache' = [k \in Keys |-> IF k = StreamOf[c] THEN None ELSE cache[k]]
    /\ refused' = refused \cup {got[c].id}
    /\ pc' = [pc EXCEPT ![c] = "idle"]
    /\ got' = [got EXCEPT ![c] = None]
    /\ UNCHANGED <<step, fresh, fetched>>

\* The server refused the credentials the caller holds; whatever is cached under
\* the key of its stream is removed.
handleAuthError(c) ==
    /\ pc[c] = "have"
    /\ cache' = [cache EXCEPT ![Key(c)] = None]
    /\ fresh' = [fresh EXCEPT ![Key(c)] = FALSE]
    /\ refused' = refused \cup {got[c].id}
    /\ pc' = [pc EXCEPT ![c] = "idle"]
    /\ got' = [got EXCEPT ![c] = None]
    /\ UNCHANGED <<step, fetched>>

\* 540 s have passed since the insertion.
Expire(k) ==
    /\ fresh[k]
    /\ fresh' = [fresh EXCEPT ![k] = FALSE]
    /\ UNCHANGED <<pc, step, got, cache, fetched, refused>>

-----------------------------------------------------------------------------
GetCredsStep(c) ==
    \/ Hit(c) \/ Miss(c) \/ NextRequest(c) \/ FetchFails(c) \/ LastAnswer(c)
    \/ Insert(c)

Next ==
    \/ \E c \in Callers : GetCredsStep(c) \/ Release(c) \/ handleAuthError(c)
    \/ \E k \in Keys : Expire(k)

Spec == Init /\ [][Next]_vars

\* Every request of the chain ends within 20 s, with an answer or an error.
FairSpec ==
    Spec /\ \A c \in Callers : WF_vars(pc[c] \in {"fetch", "insert"} /\ GetCredsStep(c))

-----------------------------------------------------------------------------
(* Properties. *)

Holds(c) == pc[c] \in {"insert", "have"}

\* A caller is given credentials for the link it asked for, also when streams
\* that share a key are used with different links and replace each other's entry.
OwnLink ==
    \A c \in Callers : Holds(c) => got[c] /= None /\ got[c].link = LinkOf[c]

\* Nobody is given credentials without a TURN url: turn_address() takes the
\* session id modulo their number.
SomeUrl ==
    \A c \in Callers : Holds(c) => got[c].urls > 0

\* Credentials that some caller has reported as refused are not in the cache, in
\* whatever order fetches, insertions and reports of callers that share a key
\* come: no later call is given them.
RefusedIsGone ==
    \A k \in Keys : cache[k] /= None => cache[k].id \notin refused

\* Credentials in somebody's hands are in the cache under that caller's key only.
CachedUnderOwnKey ==
    \A c \in Callers, k \in Keys :
        Holds(c) /\ cache[k] /= None /\ cache[k].id = got[c].id => k = Key(c)

\* A call of GetCreds that has to fetch returns, with credentials or an error.
FetchesEnd ==
    \A c \in Callers : pc[c] = "fetch" ~> pc[c] \in {"idle", "have"}

=============================================================================
