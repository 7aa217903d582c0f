-------------------------- MODULE TokenStore_proofs --------------------------
(***************************************************************************)
(* How long a token is accepted, for any interval and any clock.  The      *)
(* invariant places the time a token was handed out relative to the last   *)
(* renewal, according to which secret the token was made with.             *)
(***************************************************************************)
EXTENDS TokenStore, TLAPS

(* Tokens of the current secret are younger than the last renewal, tokens   *)
(* of the last secret older by less than two intervals, and all others      *)
(* were handed out more than an interval ago.                               *)
TokenAge(t) ==
  /\ t.secret < drawn
  /\ t.at <= now
  /\ t.secret = curr_secret =>
       last_refresh <= t.at /\ t.at < last_refresh + REFRESH_INTERVAL
  /\ t.secret = last_secret =>
       t.at < last_refresh /\ last_refresh < t.at + 2 * REFRESH_INTERVAL
  /\ t.secret \notin {curr_secret, last_secret} =>
       t.at + REFRESH_INTERVAL < now

IInv ==
  /\ TypeOK
  /\ last_refresh <= now
  /\ curr_secret < drawn /\ last_secret < drawn /\ curr_secret # last_secret
  /\ \A t \in issued : TokenAge(t)
  /\ MinimumValidity
  /\ BoundedValidity

-----------------------------------------------------------------------------
(* The number of whole intervals that have passed, as inequalities.        *)
LEMMA IntervalsPassed ==
  ASSUME now \in Nat, last_refresh \in Nat, last_refresh <= now
  PROVE  /\ intervals_passed = 0 => now < last_refresh + REFRESH_INTERVAL
         /\ intervals_passed = 1 =>
              /\ last_refresh + REFRESH_INTERVAL <= now
              /\ now < last_refresh + 2 * REFRESH_INTERVAL
         /\ intervals_passed \notin {0, 1} =>
              last_refresh + 2 * REFRESH_INTERVAL <= now
<1> DEFINE x == now - last_refresh
           q == x \div REFRESH_INTERVAL
<1>1. x \in Nat /\ REFRESH_INTERVAL \in Nat /\ REFRESH_INTERVAL > 0
  BY TokenAssumption
<1>2. q \in Nat /\ q * REFRESH_INTERVAL <= x /\ x < (q + 1) * REFRESH_INTERVAL
  BY <1>1, Z3
<1>3. q \notin {0, 1} => 2 * REFRESH_INTERVAL <= q * REFRESH_INTERVAL
  <2> HIDE DEF q
  <2>1. QED
    BY <1>1, <1>2, Z3
<1>4. QED
  <2>1. intervals_passed = q
    BY DEF intervals_passed
  <2> HIDE DEF q
  <2>2. CASE q = 0
    BY <1>1, <1>2, <2>1, <2>2
  <2>3. CASE q = 1
    BY <1>1, <1>2, <2>1, <2>3
  <2>4. CASE q \notin {0, 1}
    BY <1>1, <1>2, <1>3, <2>1, <2>4
  <2>5. QED
    BY <2>2, <2>3, <2>4

(* A renewal keeps every token where the invariant wants it, and the last  *)
(* renewal is then less than an interval old.                              *)
LEMMA RefreshKeepsAges ==
  ASSUME IInv, refresh_check, now' = now
  PROVE  /\ curr_secret' \in Nat /\ last_secret' \in Nat /\ drawn' \in Nat
         /\ last_refresh' \in Nat /\ last_refresh' <= now
         /\ now < last_refresh' + REFRESH_INTERVAL
         /\ curr_secret' < drawn' /\ last_secret' < drawn'
         /\ curr_secret' # last_secret'
         /\ \A t \in issued : TokenAge(t)'
<1> USE TokenAssumption
<1>0. /\ now \in Nat /\ last_refresh \in Nat /\ last_refresh <= now
      /\ curr_secret \in Nat /\ last_secret \in Nat /\ drawn \in Nat
      /\ curr_secret < drawn /\ last_secret < drawn
      /\ curr_secret # last_secret
      /\ \A t \in issued : TokenAge(t) /\ t.at \in Nat /\ t.secret \in Nat
  BY DEF IInv, TypeOK, Token
<1>1. CASE intervals_passed = 0
  <2>1. UNCHANGED <<curr_secret, last_secret, last_refresh, drawn>>
    BY <1>1 DEF refresh_check
  <2>2. QED
    BY <1>0, <1>1, <2>1, IntervalsPassed DEF TokenAge
<1>2. CASE intervals_passed = 1
  <2>1. /\ last_secret' = curr_secret /\ curr_secret' = drawn
        /\ last_refresh' = now /\ drawn' = drawn + 1
    BY <1>2 DEF refresh_check
  <2>2. /\ last_refresh + REFRESH_INTERVAL <= now
        /\ now < last_refresh + 2 * REFRESH_INTERVAL
    BY <1>0, <1>2, IntervalsPassed
  <2>3. ASSUME NEW t \in issued PROVE TokenAge(t)'
    BY <1>0, <2>1, <2>2 DEF TokenAge
  <2>4. QED
    BY <1>0, <2>1, <2>3
<1>3. CASE intervals_passed \notin {0, 1}
  <2>1. /\ last_secret' = drawn /\ curr_secret' = drawn + 1
        /\ last_refresh' = now /\ drawn' = drawn + 2
    BY <1>3 DEF refresh_check
  <2>2. last_refresh + 2 * REFRESH_INTERVAL <= now
    BY <1>0, <1>3, IntervalsPassed
  <2>3. ASSUME NEW t \in issued PROVE TokenAge(t)'
    BY <1>0, <2>1, <2>2 DEF TokenAge
  <2>4. QED
    BY <1>0, <2>1, <2>3
<1>4. QED
  BY <1>1, <1>2, <1>3

(* The invariant holds initially and every call and clock step keeps it.   *)
LEMMA TokenInductive ==
  /\ Init => IInv
  /\ IInv /\ [Next]_vars => IInv'
<1> USE TokenAssumption
<1>1. Init => IInv
  BY DEF Init, IInv, TypeOK, MinimumValidity, BoundedValidity
<1>2. ASSUME IInv, NEW addr \in Addr, checkout(addr) PROVE IInv'
  <2>0. PICK t : t = [addr |-> addr, secret |-> curr_secret', at |-> now]
    OBVIOUS
  <2>1. /\ refresh_check /\ now' = now /\ checked' = {}
        /\ issued' = issued \cup {t}
    BY <1>2, <2>0 DEF checkout
  <2>2. now \in Nat /\ issued \subseteq Token
    BY <1>2 DEF IInv, TypeOK
  <2>3. t \in Token /\ TokenAge(t)'
    <3>1. /\ t.addr = addr /\ t.secret = curr_secret' /\ t.at = now
          /\ t = [addr |-> t.addr, secret |-> t.secret, at |-> t.at]
      BY <2>0
    <3>2. curr_secret' \in Nat
      BY <1>2, <2>1, RefreshKeepsAges
    <3>3. t \in Token
      BY <2>2, <3>1, <3>2 DEF Token
    <3>4. TokenAge(t)'
      BY <1>2, <2>1, <2>2, <3>1, RefreshKeepsAges DEF TokenAge
    <3>5. QED
      BY <3>3, <3>4
  <2>4. QED
    BY <1>2, <2>1, <2>2, <2>3, RefreshKeepsAges
       DEF IInv, TypeOK, MinimumValidity, BoundedValidity
<1>3. ASSUME IInv, NEW addr \in Addr, NEW token \in issued, checkin(addr, token)
      PROVE  IInv'
  <2>a. PICK ok : ok = validate_token_from_addr(addr, token,
                                                curr_secret', last_secret')
    OBVIOUS
  <2>b. PICK c : c = [token |-> token, addr |-> addr, at |-> now, ok |-> ok]
    OBVIOUS
  <2>1. /\ refresh_check /\ now' = now /\ issued' = issued /\ checked' = {c}
    BY <1>3, <2>a, <2>b DEF checkin
  <2>2. now \in Nat /\ token \in Token /\ token.at \in Nat /\ token.secret \in Nat
    BY <1>3 DEF IInv, TypeOK, Token
  <2>3. ok <=> addr = token.addr /\ token.secret \in {curr_secret', last_secret'}
    BY <2>a DEF validate_token_from_addr
  <2>4. ok \in BOOLEAN
    BY <2>a DEF validate_token_from_addr
  <2>5. TokenAge(token)' /\ last_refresh' \in Nat
        /\ now < last_refresh' + REFRESH_INTERVAL
    BY <1>3, <2>1, RefreshKeepsAges
  <2>6. addr = token.addr /\ now - token.at <= REFRESH_INTERVAL => ok
    BY <2>1, <2>2, <2>3, <2>5 DEF TokenAge
  <2>7. ok => addr = token.addr /\ now - token.at < 3 * REFRESH_INTERVAL
    <3> SUFFICES ASSUME ok
                 PROVE  addr = token.addr
                        /\ now - token.at < 3 * REFRESH_INTERVAL
      OBVIOUS
    <3>1. addr = token.addr /\ token.secret \in {curr_secret', last_secret'}
      BY <2>3
    <3>2. last_refresh' < token.at + 2 * REFRESH_INTERVAL
      BY <2>2, <2>5, <3>1 DEF TokenAge
    <3>3. ASSUME NEW n \in Nat, NEW a \in Nat, NEW r \in Nat,
                 n < r + REFRESH_INTERVAL, r < a + 2 * REFRESH_INTERVAL
          PROVE  n - a < 3 * REFRESH_INTERVAL
      BY <3>3
    <3>4. now - token.at < 3 * REFRESH_INTERVAL
      BY <2>2, <2>5, <3>2, <3>3
    <3>5. QED
      BY <3>1, <3>4
  <2>8. c \in [token: Token, addr: Addr, at: Nat, ok: BOOLEAN]
        /\ c.token = token /\ c.addr = addr /\ c.at = now /\ c.ok = ok
    BY <2>2, <2>4, <2>b
  <2>9. MinimumValidity' /\ BoundedValidity'
    BY <2>1, <2>6, <2>7, <2>8 DEF MinimumValidity, BoundedValidity
  <2>10. QED
    BY <1>3, <2>1, <2>8, <2>9, RefreshKeepsAges DEF IInv, TypeOK
<1>4. ASSUME IInv, Advance PROVE IInv'
  <2>1. \A t \in issued : TokenAge(t)'
    BY <1>4 DEF Advance, IInv, TypeOK, TokenAge, Token
  <2>2. QED
    BY <1>4, <2>1 DEF Advance, IInv, TypeOK, MinimumValidity, BoundedValidity
<1>5. ASSUME IInv, UNCHANGED vars PROVE IInv'
  BY <1>5 DEF vars, IInv, TypeOK, TokenAge, MinimumValidity, BoundedValidity
<1>6. QED
  BY <1>1, <1>2, <1>3, <1>4, <1>5 DEF Next

-----------------------------------------------------------------------------
(* A token is accepted for at least one interval, for every interval        *)
(* length and every sequence of calls: the guarantee in token.rs.           *)
THEOREM MinimumGuaranteed == Spec => []MinimumValidity
<1>1. IInv => MinimumValidity
  BY DEF IInv
<1>2. QED
  BY <1>1, TokenInductive, PTL DEF Spec

(* A token is accepted for less than three intervals and only from the      *)
(* address it was given to.                                                 *)
THEOREM MaximumBounded == Spec => []BoundedValidity
<1>1. IInv => BoundedValidity
  BY DEF IInv
<1>2. QED
  BY <1>1, TokenInductive, PTL DEF Spec
=============================================================================
