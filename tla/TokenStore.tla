----------------------------- MODULE TokenStore -----------------------------
(***************************************************************************)
(* The store of announce tokens of a DHT node.  Tokens are not stored: a   *)
(* token is a hash of the address it was given to and a secret, and the    *)
(* store keeps the current and the last secret.  Both are renewed lazily,  *)
(* by the first call after an interval has passed.                         *)
(*                                                                         *)
(* The hash is abstracted to the pair it is computed from.  A random secret *)
(* is a number never drawn before (a collision has probability 2^-32).     *)
(* `issued` remembers when each token was handed out; the code does not.   *)
(***************************************************************************)
EXTENDS Integers, FiniteSets

CONSTANTS
  Addr,              \* addresses of other nodes
  REFRESH_INTERVAL,  \* age at which a secret is renewed (10 minutes)
  MaxTime,           \* bound: the clock stops here
  MaxTokens          \* bound: tokens remembered in `issued`

ASSUME TokenAssumption ==
  /\ REFRESH_INTERVAL \in Nat \ {0}
  /\ MaxTime \in Nat
  /\ MaxTokens \in Nat

VARIABLES
  now,               \* the clock
  curr_secret,
  last_secret,
  last_refresh,
  drawn,             \* number of secrets drawn so far
  issued,            \* tokens handed out, with the time
  checked            \* the latest checkin: token, address, time, result

vars == <<now, curr_secret, last_secret, last_refresh, drawn, issued, checked>>

-----------------------------------------------------------------------------
intervals_passed == (now - last_refresh) \div REFRESH_INTERVAL

(* Mutant: however long nobody called, the current secret becomes the last. *)
refresh_check_one_interval ==
  IF intervals_passed = 0
  THEN UNCHANGED <<curr_secret, last_secret, last_refresh, drawn>>
  ELSE /\ last_secret' = curr_secret
       /\ curr_secret' = drawn
       /\ last_refresh' = now
       /\ drawn' = drawn + 1

(* Mutant: both secrets are renewed as soon as one interval has passed. *)
refresh_check_drops_last ==
  IF intervals_passed = 0
  THEN UNCHANGED <<curr_secret, last_secret, last_refresh, drawn>>
  ELSE /\ last_secret' = drawn
       /\ curr_secret' = drawn + 1
       /\ last_refresh' = now
       /\ drawn' = drawn + 2

refresh_check ==
  CASE intervals_passed = 0 ->
         UNCHANGED <<curr_secret, last_secret, last_refresh, drawn>>
    [] intervals_passed = 1 ->
         /\ last_secret' = curr_secret
         /\ curr_secret' = drawn
         /\ last_refresh' = now
         /\ drawn' = drawn + 1
    [] OTHER ->
         /\ last_secret' = drawn
         /\ curr_secret' = drawn + 1
         /\ last_refresh' = now
         /\ drawn' = drawn + 2

validate_token_from_addr(addr, token, secret_one, secret_two) ==
  token.addr = addr /\ token.secret \in {secret_one, secret_two}

-----------------------------------------------------------------------------
Init ==
  /\ now = 0
  /\ curr_secret = 0
  /\ last_secret = 1
  /\ drawn = 2
  /\ last_refresh = 0
  /\ issued = {}
  /\ checked = {}

checkout(addr) ==
  /\ Cardinality(issued) < MaxTokens
  /\ refresh_check
  /\ issued' = issued \cup {[addr |-> addr, secret |-> curr_secret', at |-> now]}
  /\ checked' = {}
  /\ UNCHANGED now

checkin(addr, token) ==
  /\ refresh_check
  /\ checked' = {[token |-> token, addr |-> addr, at |-> now,
                  ok |-> validate_token_from_addr(addr, token,
                                                  curr_secret', last_secret')]}
  /\ UNCHANGED <<now, issued>>

Advance ==
  /\ now < MaxTime
  /\ now' = now + 1
  /\ checked' = {}
  /\ UNCHANGED <<curr_secret, last_secret, last_refresh, drawn, issued>>

Next ==
  \/ \E addr \in Addr : checkout(addr)
  \/ \E addr \in Addr, token \in issued : checkin(addr, token)
  \/ Advance

Spec == Init /\ [][Next]_vars

-----------------------------------------------------------------------------
Token == [addr: Addr, secret: Nat, at: Nat]

(* The clock, the secrets and the tokens are what TokenStore declares.     *)
TypeOK ==
  /\ now \in Nat /\ last_refresh \in Nat
  /\ curr_secret \in Nat /\ last_secret \in Nat /\ drawn \in Nat
  /\ issued \subseteq Token
  /\ checked \subseteq [token: Token, addr: Addr, at: Nat, ok: BOOLEAN]

(* A token is accepted for at least one interval after it was handed out,   *)
(* whatever calls of checkout and checkin renewed the secrets meanwhile:    *)
(* the minimum that the comment above TokenStore guarantees.                *)
MinimumValidity ==
  \A c \in checked :
    c.addr = c.token.addr /\ c.at - c.token.at <= REFRESH_INTERVAL => c.ok

(* A token is accepted only from the address it was given to and only for   *)
(* less than three intervals: one as the current secret's, and up to two    *)
(* more because the secrets are renewed lazily.                             *)
BoundedValidity ==
  \A c \in checked :
    c.ok => /\ c.addr = c.token.addr
            /\ c.at - c.token.at < 3 * REFRESH_INTERVAL
=============================================================================
