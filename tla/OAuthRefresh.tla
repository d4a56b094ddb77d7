---------------------------- MODULE OAuthRefresh ----------------------------
(***************************************************************************)
(* The refresh of an OAuth repository key (internal/git/credential_store,  *)
(* internal/git/refresher, the callback of git_provider_routes).           *)
(*                                                                         *)
(* One repository_keys row holds an access token, a refresh token and an   *)
(* expiry.  Fetches, browse requests and the cron sweep load it; a load    *)
(* that finds it near its expiry redeems the refresh token, at most one at *)
(* a time (singleflight), and a rotating provider invalidates the refresh  *)
(* token it redeems.  A pair that was redeemed and could not be saved is   *)
(* kept in memory.  Meanwhile the user may reconnect the account, which    *)
(* replaces the pair.                                                      *)
(*                                                                         *)
(* A token is the number of the response that issued it, so it stands for  *)
(* its ciphertext as well (a token is encrypted and stored once).  An      *)
(* expiry is the number of the token it came with, 0 when there is none;   *)
(* the tokens of one application live equally long, so the older of two    *)
(* never outlives the newer.                                               *)
(***************************************************************************)
EXTENDS Naturals, FiniteSets

CONSTANTS Loaders,     \* the concurrent loads of the key
          MaxTokens,   \* bound: responses of the provider with a token
          MaxAttempts, \* saves of a refreshed pair: 1 + len(persistRetryDelays)
          MaxOAuthFaults  \* bound: failed saves, lost answers and crashes

ASSUME OAuthAssumption ==
    MaxTokens \in Nat \ {0} /\ MaxAttempts \in Nat \ {0} /\ MaxOAuthFaults \in Nat

VARIABLES row,       \* the stored key: token, refresh, expires, error
          soon,      \* the tokens up to this one are in the grace window or past it
          past,      \* the tokens up to this one have expired
          live,      \* the refresh tokens the provider still accepts
          rotates,   \* whether the provider rotates the refresh token on use
          issuedTokens,    \* tokens issued so far
          loads,     \* the loads, by loader
          flight,    \* the refresh in flight (refreshGroup)
          pending,   \* pendingRefreshes: the pair whose save failed
          faults,    \* faults so far
          lost       \* a response or the memory holding one was lost

oauthVars == <<row, soon, past, live, rotates, issuedTokens, loads, flight, pending, faults, lost>>

NoToken == 0
Tokens == 1..MaxTokens

Pair(token, refresh, expires) == [token |-> token, refresh |-> refresh, expires |-> expires]
NoPair == Pair(NoToken, NoToken, NoToken)

Identity(key) == <<key.expires, key.token>>
NoPending == [pair |-> NoPair, base |-> <<NoToken, NoToken>>]
NoFlight == [at |-> "none", base |-> <<NoToken, NoToken>>, refresh |-> NoToken, got |-> NoPair,
             held |-> NoPair, tries |-> 0, retry |-> FALSE, by |-> {}]

LoadStages == {"idle", "read", "joined", "reject"}
FlightStages == {"none", "start", "redeem", "find", "save", "done", "rejected", "failed"}

LoadAt(at, expires) == [at |-> at, expires |-> expires]
NoLoad == LoadAt("idle", NoToken)

\* Not zero and within refreshGraceWindow, or already past it.
Due(expires) == expires \in 1..soon
Past(expires) == expires \in 1..past

OAuthInit ==
    /\ rotates \in BOOLEAN
    /\ row = [token |-> 1, refresh |-> 1, expires |-> 1, error |-> FALSE]
    /\ soon = 0 /\ past = 0
    /\ live = {1}
    /\ issuedTokens = 1
    /\ loads = [l \in Loaders |-> NoLoad]
    /\ flight = NoFlight
    /\ pending = NoPending
    /\ faults = 0
    /\ lost = FALSE

\* Time passes: a token nears its expiry, or reaches it.
Time ==
    /\ \/ soon < issuedTokens /\ soon' = soon + 1 /\ UNCHANGED past
       \/ past < soon /\ past' = past + 1 /\ UNCHANGED soon
    /\ UNCHANGED <<row, live, rotates, issuedTokens, loads, flight, pending, faults, lost>>

-----------------------------------------------------------------------------
(* A load: LoadCredentialByID, LoadOAuthToken, and the sweep that calls it. *)

\* The row is read; a token that is not due is handed out as it is.
ReadKey(l) ==
    /\ loads[l].at = "idle" /\ Due(row.expires)
    /\ loads' = [loads EXCEPT ![l] = LoadAt("read", row.expires)]
    /\ UNCHANGED <<row, soon, past, live, rotates, issuedTokens, flight, pending, faults, lost>>

\* refreshGroup.Do: start the flight, or join the one under way.
Enter(l) ==
    /\ loads[l].at = "read"
    /\ loads' = [loads EXCEPT ![l].at = "joined"]
    /\ flight' = IF flight.at = "none" THEN [NoFlight EXCEPT !.at = "start", !.by = {l}]
                                       ELSE [flight EXCEPT !.by = @ \cup {l}]
    /\ UNCHANGED <<row, soon, past, live, rotates, issuedTokens, pending, faults, lost>>

\* Every load that joined the flight gets its outcome. On an error the
\* current token still serves until its own expiry; past it, a rejection
\* is recorded before the load fails.
Land ==
    /\ flight.at \in {"done", "failed", "rejected"}
    /\ loads' = [l \in Loaders |->
                   IF l \notin flight.by THEN loads[l]
                   ELSE IF flight.at = "rejected" /\ Past(loads[l].expires)
                   THEN LoadAt("reject", loads[l].expires)
                   ELSE NoLoad]
    /\ flight' = NoFlight
    /\ UNCHANGED <<row, soon, past, live, rotates, issuedTokens, pending, faults, lost>>

\* persistRefreshError: the rejection is recorded unless the expiry moved.
PersistRefreshError(l) ==
    /\ loads[l].at = "reject"
    /\ loads' = [loads EXCEPT ![l] = NoLoad]
    /\ row' = [row EXCEPT !.error = @ \/ row.expires = loads[l].expires]
    /\ UNCHANGED <<soon, past, live, rotates, issuedTokens, flight, pending, faults, lost>>

-----------------------------------------------------------------------------
(* The flight: doRefreshOAuthToken. *)

Ended(how) == [NoFlight EXCEPT !.at = how, !.by = flight.by]

HeldPair == IF pending # NoPending /\ pending.base = Identity(row) THEN pending.pair ELSE NoPair

\* The pending pair may be persisted and used as it is: not due itself.
PairUsable(pair) == pair # NoPair /\ ~Due(pair.expires)

\* The row is read again inside the flight and decides what it does.
Decide ==
    /\ flight.at = "start"
    /\ \/ /\ row.expires # NoToken /\ ~Due(row.expires)
          /\ flight' = Ended("done")
          /\ UNCHANGED pending
       \/ /\ row.expires = NoToken \/ Due(row.expires)
          /\ pending' = IF HeldPair = NoPair THEN NoPending ELSE pending
          /\ LET refresh == IF HeldPair # NoPair THEN HeldPair.refresh ELSE row.refresh
                 next == [flight EXCEPT !.base = Identity(row), !.refresh = refresh,
                                         !.held = HeldPair]
             IN  flight' = IF PairUsable(HeldPair)
                           THEN [next EXCEPT !.at = "find", !.got = HeldPair, !.retry = TRUE]
                           ELSE IF refresh = NoToken
                           THEN Ended("done")
                           ELSE [next EXCEPT !.at = "redeem"]
    /\ UNCHANGED <<row, soon, past, live, rotates, issuedTokens, loads, faults, lost>>

\* What a redeemed refresh token leaves valid: a rotating provider replaces it.
Redeemed(old, new) == IF rotates THEN (live \ {old}) \cup {new} ELSE live

\* The pair a successful refresh yields. A provider that does not rotate
\* sends no refresh token; the pending one, if any, is then carried over.
Yield(new) ==
    Pair(new,
         IF rotates THEN new ELSE flight.held.refresh,
         new)

\* provider.RefreshToken answers with a new token.
Redeem ==
    /\ flight.at = "redeem" /\ flight.refresh \in live /\ issuedTokens < MaxTokens
    /\ issuedTokens' = issuedTokens + 1
    /\ live' = Redeemed(flight.refresh, issuedTokens + 1)
    /\ flight' = [flight EXCEPT !.at = "find", !.tries = 0, !.retry = FALSE,
                                !.got = Yield(issuedTokens + 1)]
    /\ UNCHANGED <<row, soon, past, rotates, loads, pending, faults, lost>>

\* The provider redeemed the token and its answer never arrived.
RedeemLost ==
    /\ flight.at = "redeem" /\ flight.refresh \in live /\ issuedTokens < MaxTokens
    /\ faults < MaxOAuthFaults
    /\ faults' = faults + 1
    /\ issuedTokens' = issuedTokens + 1
    /\ live' = Redeemed(flight.refresh, issuedTokens + 1)
    /\ lost' = (lost \/ rotates)
    /\ flight' = Ended("failed")
    /\ UNCHANGED <<row, soon, past, rotates, loads, pending>>

\* The request never reached the provider (or it had an outage).
RedeemFails ==
    /\ flight.at = "redeem"
    /\ faults < MaxOAuthFaults
    /\ faults' = faults + 1
    /\ flight' = Ended("failed")
    /\ UNCHANGED <<row, soon, past, live, rotates, issuedTokens, loads, pending, lost>>

\* ErrRefreshRejected: the refresh token is not one the provider accepts.
RedeemRejected ==
    /\ flight.at = "redeem" /\ flight.refresh \notin live
    /\ flight' = Ended("rejected")
    /\ UNCHANGED <<row, soon, past, live, rotates, issuedTokens, loads, pending, faults, lost>>

\* persistRefreshedToken gave up, or finished: what the flight does next.
NotPersisted == [pair |-> flight.got, base |-> flight.base]

\* Mutant: a pair that could not be saved is dropped.
Persisted_Forgets(ok) ==
    /\ pending' = IF flight.retry THEN pending ELSE NoPending
    /\ flight' = Ended("done")

Persisted(ok) ==
    /\ pending' = IF ok THEN NoPending ELSE IF flight.retry THEN pending ELSE NotPersisted
    /\ flight' = Ended("done")

\* An attempt failed: wait and try again, or give up after the last.
Again ==
    IF flight.tries + 1 < MaxAttempts
    THEN /\ flight' = [flight EXCEPT !.at = "find", !.tries = @ + 1]
         /\ UNCHANGED pending
    ELSE Persisted(FALSE)

\* An attempt: the row is read, and nothing is written if it was replaced.
FindKeyRow ==
    /\ flight.at = "find"
    /\ IF Identity(row) = flight.base
       THEN flight' = [flight EXCEPT !.at = "save"] /\ UNCHANGED pending
       ELSE Persisted(TRUE)
    /\ UNCHANGED <<row, soon, past, live, rotates, issuedTokens, loads, faults, lost>>

\* applyRefreshedToken: the columns a refreshed pair changes.
Applied(pair) ==
    [token   |-> pair.token,
     refresh |-> IF pair.refresh # NoToken THEN pair.refresh ELSE row.refresh,
     expires |-> IF pair.expires # NoToken THEN pair.expires ELSE row.expires,
     error   |-> FALSE]

SaveRefreshed ==
    /\ flight.at = "save"
    /\ row' = Applied(flight.got)
    /\ Persisted(TRUE)
    /\ UNCHANGED <<soon, past, live, rotates, issuedTokens, loads, faults, lost>>

\* The row cannot be read, or the database refuses the save.
RefreshSaveFails ==
    /\ flight.at \in {"find", "save"}
    /\ faults < MaxOAuthFaults
    /\ faults' = faults + 1
    /\ Again
    /\ UNCHANGED <<row, soon, past, live, rotates, issuedTokens, loads, lost>>

-----------------------------------------------------------------------------
(* The user reconnects the account: upsertOAuthRepositoryKey, in one       *)
(* transaction. The answer may carry no expires_in.                        *)
Reconnect ==
    /\ issuedTokens < MaxTokens
    /\ issuedTokens' = issuedTokens + 1
    /\ live' = live \cup {issuedTokens + 1}
    /\ \E dated \in BOOLEAN :
          row' = [token |-> issuedTokens + 1, refresh |-> issuedTokens + 1, error |-> FALSE,
                  expires |-> IF dated THEN issuedTokens + 1 ELSE row.expires]
    /\ UNCHANGED <<soon, past, rotates, loads, flight, pending, faults, lost>>

\* The server restarts: the loads, the flight and the pending pair are gone.
OAuthRestart ==
    /\ faults < MaxOAuthFaults
    /\ faults' = faults + 1
    /\ lost' = (lost \/ pending # NoPending \/ flight.at \in {"find", "save"})
    /\ loads' = [l \in Loaders |-> NoLoad]
    /\ flight' = NoFlight
    /\ pending' = NoPending
    /\ UNCHANGED <<row, soon, past, live, rotates, issuedTokens>>

OAuthNext ==
    \/ Time
    \/ \E l \in Loaders : ReadKey(l) \/ Enter(l) \/ PersistRefreshError(l)
    \/ Decide \/ Redeem \/ RedeemLost \/ RedeemFails \/ RedeemRejected
    \/ FindKeyRow \/ SaveRefreshed \/ RefreshSaveFails \/ Land
    \/ Reconnect \/ OAuthRestart

OAuthSpec == OAuthInit /\ [][OAuthNext]_oauthVars

-----------------------------------------------------------------------------
PairType == [token : 0..MaxTokens, refresh : 0..MaxTokens, expires : 0..MaxTokens]
IdentityType == (0..MaxTokens) \X (0..MaxTokens)

\* Type: the values the key, the loads and the flight take.
OAuthTypeOK ==
    /\ row \in [token : Tokens, refresh : 0..MaxTokens, expires : 0..MaxTokens, error : BOOLEAN]
    /\ 0 <= past /\ past <= soon /\ soon <= issuedTokens
    /\ live \subseteq 1..issuedTokens /\ issuedTokens \in Tokens
    /\ rotates \in BOOLEAN /\ lost \in BOOLEAN
    /\ loads \in [Loaders -> [at : LoadStages, expires : 0..MaxTokens]]
    /\ flight \in [at : FlightStages, base : IdentityType, refresh : 0..MaxTokens,
                   got : PairType, held : PairType, tries : 0..(MaxAttempts - 1),
                   retry : BOOLEAN, by : SUBSET Loaders]
    /\ pending \in [pair : PairType, base : IdentityType]
    /\ faults \in 0..MaxOAuthFaults

\* The key can always be refreshed again (credential_store.go: redeeming "the
\* stored, already-consumed refresh token again would fail with invalid_grant
\* and brick the credential"): the refresh token that the flight redeems, or
\* the next one would, is one the provider accepts, whatever loads,
\* reconnections and failed saves came before, unless an answer of the
\* provider or the memory that held it was lost.
NextRefreshIsLive ==
    LET next == IF flight.at = "redeem" THEN flight.refresh
                ELSE IF HeldPair # NoPair THEN HeldPair.refresh ELSE row.refresh
    IN  \/ lost
        \/ flight.at \in {"find", "save"}
        \/ next \in live
        \/ ~rotates /\ next = NoToken

\* A repository key can be refreshed again in every state, and the state has
\* its types.
OAuthSafety == OAuthTypeOK /\ NextRefreshIsLive
=============================================================================
