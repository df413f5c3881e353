------------------------------ MODULE ApiTokens ------------------------------
(***************************************************************************)
(* The API tokens that a server accepts: a list in its memory, which it    *)
(* replaces every minute by the active tokens of the table api_tokens, and *)
(* to which it adds each token that it inserts itself.  Tokens that expire *)
(* or are deleted stay in the lists until a later fetch.                   *)
(***************************************************************************)
EXTENDS Naturals, FiniteSets

CONSTANTS
    Servers,
    Tokens,
    MaxFetches,   \* bound: fetches of one server with different answers
    MaxRestarts   \* bound

VARIABLES
    initApiTokens,  \* of the configuration
    row,       \* of each token: not made yet, active, expired or deleted
    active,    \* activeTokens of each server
    fetched,   \* answers to the queries of fetchActiveTokens, not yet assigned
    inserted,  \* inserts that are done, whose token is not yet in the list
    starting,  \* of each server: initial tokens to insert, and whether it counts
    restarts

tokenVars == <<initApiTokens, row, active, fetched, inserted, starting, restarts>>

\* Mutant: the expiry is not looked at.
GetAll == {t \in Tokens : row[t] \in {"active", "expired"}}

GetAllActive == {t \in Tokens : row[t] = "active"}

Exists(t) == row[t] \in {"active", "expired"}

-----------------------------------------------------------------------------
(* fetchActiveTokens, at the start and every minute.  The calls do not wait*)
(* for each other, so that a late answer may overwrite a newer one.        *)

FetchActiveTokens(s) ==
    /\ Cardinality(fetched[s] \cup {GetAllActive}) <= MaxFetches
    /\ fetched' = [fetched EXCEPT ![s] = @ \cup {GetAllActive}]
    /\ UNCHANGED <<initApiTokens, row, active, inserted, starting, restarts>>

SetActiveTokens(s) ==
    \E A \in fetched[s] :
        /\ active' = [active EXCEPT ![s] = A]
        /\ fetched' = [fetched EXCEPT ![s] = @ \ {A}]
        /\ UNCHANGED <<initApiTokens, row, inserted, starting, restarts>>

-----------------------------------------------------------------------------
(* insertNewApiToken.  The expiry of a new token may already be over.      *)

InsertRow(s, t) ==
    /\ \E state \in {"active", "expired"} : row' = [row EXCEPT ![t] = state]
    /\ inserted' = inserted \cup {<<s, t>>}

\* The secret of a new token is random: it has never been used.
CreateApiToken(s, t) ==
    /\ t \notin initApiTokens
    /\ row[t] = "new"
    /\ InsertRow(s, t)
    /\ UNCHANGED <<initApiTokens, active, fetched, starting, restarts>>

PushToken(s, t) ==
    /\ <<s, t>> \in inserted
    /\ active' = [active EXCEPT ![s] = @ \cup {t}]
    /\ inserted' = inserted \ {<<s, t>>}
    /\ UNCHANGED <<initApiTokens, row, fetched, starting, restarts>>

-----------------------------------------------------------------------------
(* updateExpiry, time, and delete change the row only.                     *)

Expire(t) ==
    /\ row[t] = "active"
    /\ row' = [row EXCEPT ![t] = "expired"]
    /\ UNCHANGED <<initApiTokens, active, fetched, inserted, starting, restarts>>

UpdateExpiry(t) ==
    /\ row[t] = "expired"
    /\ row' = [row EXCEPT ![t] = "active"]
    /\ UNCHANGED <<initApiTokens, active, fetched, inserted, starting, restarts>>

Delete(t) ==
    /\ Exists(t)
    /\ row' = [row EXCEPT ![t] = "deleted"]
    /\ UNCHANGED <<initApiTokens, active, fetched, inserted, starting, restarts>>

-----------------------------------------------------------------------------
(* A server starts with an empty list, and inserts the initial tokens if   *)
(* it counts no token.  Another one that starts next to it does the same:  *)
(* the inserts of one of them break the primary key.                       *)

NotStarting == [counts |-> FALSE, tokens |-> {}]

Restart(s) ==
    /\ restarts < MaxRestarts
    /\ restarts' = restarts + 1
    /\ active' = [active EXCEPT ![s] = {}]
    /\ fetched' = [fetched EXCEPT ![s] = {GetAllActive}]
    /\ inserted' = {i \in inserted : i[1] # s}
    /\ starting' = [starting EXCEPT ![s] = [counts |-> initApiTokens # {}, tokens |-> {}]]
    /\ UNCHANGED <<initApiTokens, row>>

CountTokens(s) ==
    /\ starting[s].counts
    /\ starting' = [starting EXCEPT ![s] =
           [counts |-> FALSE, tokens |-> IF \E t \in Tokens : Exists(t) THEN {} ELSE initApiTokens]]
    /\ UNCHANGED <<initApiTokens, row, active, fetched, inserted, restarts>>

InsertInitToken(s, t) ==
    /\ t \in starting[s].tokens
    /\ starting' = [starting EXCEPT ![s].tokens = @ \ {t}]
    /\ IF Exists(t) THEN UNCHANGED <<row, inserted>> ELSE InsertRow(s, t)
    /\ UNCHANGED <<initApiTokens, active, fetched, restarts>>

-----------------------------------------------------------------------------
Init ==
    /\ initApiTokens \in {{}, Tokens}
    /\ row = [t \in Tokens |-> "new"]
    /\ active = [s \in Servers |-> {}]
    /\ fetched = [s \in Servers |-> {{}}]
    /\ inserted = {}
    /\ starting = [s \in Servers |-> [counts |-> initApiTokens # {}, tokens |-> {}]]
    /\ restarts = 0

Next ==
    \/ \E s \in Servers : FetchActiveTokens(s) \/ SetActiveTokens(s) \/ Restart(s) \/ CountTokens(s)
    \/ \E s \in Servers, t \in Tokens :
          CreateApiToken(s, t) \/ PushToken(s, t) \/ InsertInitToken(s, t)
    \/ \E t \in Tokens : Expire(t) \/ UpdateExpiry(t) \/ Delete(t)

-----------------------------------------------------------------------------
(* Properties.                                                             *)

\* Whatever overlaps, every server eventually accepts exactly the tokens that
\* are active for good: answers of old fetches, tokens that are pushed after
\* they expired, restarts and the initial tokens of two servers that start at
\* once are all overwritten by a later fetch.
EventuallyExact ==
    \A s \in Servers, t \in Tokens :
        /\ <>[](row[t] = "active") => <>[](t \in active[s])
        /\ <>[](row[t] # "active") => <>[](t \notin active[s])
=============================================================================
