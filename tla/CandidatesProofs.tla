--------------------------- MODULE CandidatesProofs ---------------------------
(***************************************************************************)
(* What is proved about a candidate's own pages, and about the limits they *)
(* and everybody run into: modules Sessions, OfflineCheckIns, VoiceIntros, *)
(* Outcomes and RateLimits; and, at the end, in the composition of all     *)
(* the services, MCServices.                                               *)
(***************************************************************************)
EXTENDS NoticesProofs

-----------------------------------------------------------------------------
(***************************************************************************)
(* Why guesses at a one-time password are bounded, and why only a lost     *)
(* answer makes a refresh look like a theft, for every number of pages,    *)
(* browsers, tokens and tries.                                             *)
(*                                                                         *)
(* Guesses: every try at the code that is there has been counted, or its   *)
(* page is still to count it, and a page has one such step to take.        *)
(* Refreshes: while no answer was lost, a page's cookie is unused unless   *)
(* the page is about to be given the next one, and nobody else holds it.   *)
(***************************************************************************)

Keys == 0..(MaxTokens + MaxCodes)

\* Pages that compared what was typed and have not acted on it yet.
TryPending == {p \in Pages : authCall[p].at \in {"count", "lock", "burn"}}

\* The tokens and codes in hand were issued.
GrantsFit ==
    /\ \A p \in Pages : authCall[p].at = "granted" => authCall[p].key \in 1..issued.tokens
    /\ otp.code <= issued.codes
    /\ \A c \in Codes : c > issued.codes => otpTries[c] = 0

\* Every try at the code that is there is counted, or about to be.
TriesCounted ==
    otp.code # 0 => otpTries[otp.code] <= otp.attempts + Cardinality(TryPending)

OneBrowserEach == \A p, q \in Pages : BrowserOf[p] = BrowserOf[q] => p = q

\* Whether a page has a token: in its browser's cookie, or on its way.
Holds(p, k) == k # 0 /\ (Cookie(p) = k \/ (authCall[p].at = "granted" /\ authCall[p].key = k))

\* While no answer was lost, cookies are fresh and a page's own.
CookiesAreFresh ==
    OneBrowserEach /\ lost = 0 =>
        \A p \in Pages :
            /\ authCall[p].at \notin {"list", "revoke"}
            /\ authCall[p].at \in {"read", "consume"} => authCall[p].key = Cookie(p) /\ Cookie(p) # 0
            /\ authCall[p].at \notin {"issue", "granted"} /\ Cookie(p) # 0 => refreshKey[Cookie(p)] # "consumed"
            /\ authCall[p].at = "granted" => refreshKey[authCall[p].key] # "consumed"
            /\ \A q \in Pages, k \in Tokens : Holds(p, k) /\ Holds(q, k) => p = q

SessionsInv ==
    /\ SessionsTypeOK
    /\ GrantsFit
    /\ TriesCounted
    /\ TriesBounded
    /\ CookiesAreFresh

-----------------------------------------------------------------------------
(* One page's request. *)

LEMMA NoCallFits == NoCall \in AuthCall /\ NoCall.at = "none" /\ NoCall.key = 0
  BY SessionsAssumption DEF NoCall, AuthCall, AuthSteps

\* A request takes its next step.
LEMMA GoesFits ==
    ASSUME SessionsTypeOK, NEW p \in Pages, NEW step \in AuthSteps, Goes(p, step)
    PROVE  /\ authCall' \in [Pages -> AuthCall]
           /\ authCall'[p].at = step /\ authCall'[p].key = authCall[p].key
           /\ \A q \in Pages \ {p} : authCall'[q] = authCall[q]
<1>1. authCall' = [authCall EXCEPT ![p].at = step] /\ authCall[p] \in AuthCall
  BY DEF Goes, SessionsTypeOK
<1> DEFINE next == [authCall[p] EXCEPT !.at = step]
<1>2. next \in AuthCall /\ next.at = step /\ next.key = authCall[p].key
  BY <1>1 DEF AuthCall
<1>3. authCall' = [authCall EXCEPT ![p] = next]
  BY <1>1
<1> HIDE DEF next
<1> QED BY <1>2, <1>3 DEF SessionsTypeOK

\* A request starts, or carries something else from now on.
LEMMA CarriesFits ==
    ASSUME SessionsTypeOK, NEW p \in Pages, NEW step \in AuthSteps, NEW key \in Keys, Carries(p, step, key)
    PROVE  /\ authCall' \in [Pages -> AuthCall]
           /\ authCall'[p].at = step /\ authCall'[p].key = key
           /\ \A q \in Pages \ {p} : authCall'[q] = authCall[q]
<1> DEFINE next == [NoCall EXCEPT !.at = step, !.key = key]
<1>1. next \in AuthCall /\ next.at = step /\ next.key = key
  BY NoCallFits DEF AuthCall, Keys
<1>2. authCall' = [authCall EXCEPT ![p] = next]
  BY DEF Carries
<1> HIDE DEF next
<1> QED BY <1>1, <1>2 DEF SessionsTypeOK

\* A request is over.
LEMMA OverFits ==
    ASSUME SessionsTypeOK, NEW p \in Pages, authCall' = [authCall EXCEPT ![p] = NoCall]
    PROVE  /\ authCall' \in [Pages -> AuthCall]
           /\ authCall'[p].at = "none"
           /\ \A q \in Pages \ {p} : authCall'[q] = authCall[q]
  BY NoCallFits DEF SessionsTypeOK

LEMMA CookieTyped ==
    ASSUME SessionsTypeOK, NEW p \in Pages
    PROVE  /\ Cookie(p) \in 0..issued.tokens /\ Cookie(p) \in Keys /\ BrowserOf[p] \in Browsers
           /\ Cookie(p) # 0 => Cookie(p) \in Tokens
           /\ issued.tokens \in 0..MaxTokens
<1>1. BrowserOf[p] \in Browsers BY SessionsAssumption
<1>2. Cookie(p) \in 0..issued.tokens /\ issued.tokens \in 0..MaxTokens BY <1>1 DEF Cookie, SessionsTypeOK
<1>3. MaxTokens \in Nat /\ MaxCodes \in Nat BY SessionsAssumption
<1> QED BY <1>1, <1>2, <1>3 DEF Keys, Tokens

-----------------------------------------------------------------------------
(* Types, and what was issued. *)

LEMMA AfterTryFits ==
    ASSUME NEW typed
    PROVE  AfterTry(typed) \in {"refused", "lock", "count", "burn"}
  BY DEF AfterTry

\* The steps of a one-time password.
LEMMA OtpStepsFit ==
    ASSUME SessionsInv, NEW p \in Pages,
           RequestOtp(p) \/ ExpireOtp \/ TryOtp(p) \/ CountTry(p) \/ DropOtp(p)
    PROVE  SessionsTypeOK' /\ GrantsFit'
<1> USE SessionsAssumption DEF SessionsInv, SessionsTypeOK
<1>1. CASE RequestOtp(p)
  <2> DEFINE more == issued.codes + 1
  <2>1. more \in 1..MaxCodes /\ more = issued.codes + 1 /\ issued' = [issued EXCEPT !.codes = more]
    BY <1>1 DEF RequestOtp
  <2> HIDE DEF more
  <2>2. issued' \in [tokens : 0..MaxTokens, codes : 0..MaxCodes] /\ issued'.tokens = issued.tokens /\ issued'.codes = more
    BY <2>1
  <2>3. /\ otp' = [code |-> more, attempts |-> 0]
        /\ UNCHANGED <<otpTries, refreshKey, userSet, jar, signedIn, authCall, lost>>
    BY <1>1, <2>2 DEF RequestOtp, tokenVars
  <2>4. otp' \in [code : 0..MaxCodes, attempts : Nat] /\ otp'.code = more
    BY <2>1, <2>3
  <2>5. more > issued.codes BY <2>1
  <2>6. GrantsFit' BY <2>1, <2>2, <2>3, <2>4 DEF GrantsFit, Codes
  <2>7. SessionsTypeOK' BY <2>2, <2>3, <2>4
  <2> QED BY <2>6, <2>7
<1>2. CASE ExpireOtp
  <2>1. otp' \in [code : 0..MaxCodes, attempts : Nat] /\ otp'.code = 0
    BY <1>2 DEF ExpireOtp
  <2> QED BY <1>2, <2>1 DEF ExpireOtp, tokenVars, GrantsFit
<1>3. CASE TryOtp(p)
  <2> DEFINE step == AfterTry(authCall[p].key)
             tried == otpTries[otp.code] + 1
  <2>1. step \in AuthSteps /\ step # "granted" BY AfterTryFits DEF AuthSteps
  <2>2. Goes(p, step) BY <1>3 DEF TryOtp
  <2> HIDE DEF step
  <2>3. /\ authCall' \in [Pages -> AuthCall] /\ authCall'[p].at # "granted"
        /\ \A q \in Pages \ {p} : authCall'[q] = authCall[q]
    BY <2>1, <2>2, GoesFits
  <2>4. otpTries' \in [Codes -> Nat] /\ \A c \in Codes : c > issued.codes => otpTries'[c] = 0
    <3>1. CASE otp.code # 0 /\ otp.attempts < OtpTries
      <4>1. otpTries' = [otpTries EXCEPT ![otp.code] = tried] BY <1>3, <3>1 DEF TryOtp
      <4>2. otp.code \in Codes /\ tried \in Nat BY <3>1 DEF Codes
      <4> HIDE DEF tried
      <4> QED BY <4>1, <4>2 DEF GrantsFit, Codes
    <3>2. CASE ~(otp.code # 0 /\ otp.attempts < OtpTries)
      BY <1>3, <3>2 DEF TryOtp, GrantsFit
    <3> QED BY <3>1, <3>2
  <2> QED BY <1>3, <2>3, <2>4 DEF TryOtp, tokenVars, GrantsFit
<1>4. CASE CountTry(p)
  <2>1. Goes(p, "refused") /\ "refused" \in AuthSteps BY <1>4 DEF CountTry, AuthSteps
  <2>2. /\ authCall' \in [Pages -> AuthCall] /\ authCall'[p].at # "granted"
        /\ \A q \in Pages \ {p} : authCall'[q] = authCall[q]
    BY <2>1, GoesFits
  <2>3. otp' \in [code : 0..MaxCodes, attempts : Nat] /\ otp'.code = otp.code
    BY <1>4 DEF CountTry
  <2> QED BY <1>4, <2>2, <2>3 DEF CountTry, tokenVars, GrantsFit
<1>5. CASE DropOtp(p)
  <2> DEFINE step == IF authCall[p].at = "lock" THEN "refused" ELSE "issue"
  <2>1. Goes(p, step) /\ step \in AuthSteps /\ step # "granted" BY <1>5 DEF DropOtp, AuthSteps
  <2> HIDE DEF step
  <2>2. /\ authCall' \in [Pages -> AuthCall] /\ authCall'[p].at # "granted"
        /\ \A q \in Pages \ {p} : authCall'[q] = authCall[q]
    BY <2>1, GoesFits
  <2>3. otp' \in [code : 0..MaxCodes, attempts : Nat] /\ otp'.code = 0
    BY <1>5 DEF DropOtp
  <2> QED BY <1>5, <2>2, <2>3 DEF DropOtp, tokenVars, GrantsFit
<1> QED BY <1>1, <1>2, <1>3, <1>4, <1>5

\* A step of one request that no one-time password is about.
LEMMA MovesFit ==
    ASSUME SessionsInv, NEW p \in Pages,
           authCall' \in [Pages -> AuthCall], \A q \in Pages \ {p} : authCall'[q] = authCall[q],
           authCall'[p].at # "granted",
           authCall[p].at \notin {"count", "lock", "burn"}, authCall'[p].at \notin {"count", "lock", "burn"},
           refreshKey' \in [Tokens -> {"absent", "live", "consumed"}], userSet' \subseteq Tokens,
           UNCHANGED <<otp, otpTries, issued, jar, signedIn, lost>>
    PROVE  SessionsTypeOK' /\ GrantsFit' /\ TriesCounted' /\ TriesBounded'
<1> USE DEF SessionsInv
<1>1. SessionsTypeOK' BY DEF SessionsTypeOK
<1>2. GrantsFit' BY DEF GrantsFit
<1>3. TryPending' = TryPending BY DEF TryPending
<1>4. TriesCounted' BY <1>3 DEF TriesCounted
<1>5. TriesBounded' BY DEF TriesBounded
<1> QED BY <1>1, <1>2, <1>4, <1>5

\* A step of one request that brings no cookie and uses up none but its own.
LEMMA MovesFresh ==
    ASSUME SessionsInv, NEW p \in Pages,
           \A q \in Pages \ {p} : authCall'[q] = authCall[q],
           authCall'[p].at # "granted",
           UNCHANGED <<jar, lost>>,
           OneBrowserEach /\ lost = 0 =>
               /\ \A k \in Tokens : refreshKey'[k] = "consumed" => refreshKey[k] = "consumed" \/ k = Cookie(p)
               /\ authCall'[p].at \notin {"list", "revoke"}
               /\ authCall'[p].at \in {"read", "consume"} => authCall'[p].key = Cookie(p) /\ Cookie(p) # 0
               /\ authCall'[p].at # "issue" /\ Cookie(p) # 0 => refreshKey'[Cookie(p)] # "consumed"
    PROVE  CookiesAreFresh'
<1> USE DEF SessionsInv
<1> SUFFICES ASSUME OneBrowserEach, lost = 0, NEW q \in Pages
             PROVE  /\ authCall'[q].at \notin {"list", "revoke"}
                    /\ authCall'[q].at \in {"read", "consume"} => authCall'[q].key = Cookie(q)' /\ Cookie(q)' # 0
                    /\ authCall'[q].at \notin {"issue", "granted"} /\ Cookie(q)' # 0 =>
                           refreshKey'[Cookie(q)'] # "consumed"
                    /\ authCall'[q].at = "granted" => refreshKey'[authCall'[q].key] # "consumed"
                    /\ \A r \in Pages, k \in Tokens : Holds(q, k)' /\ Holds(r, k)' => q = r
  BY DEF CookiesAreFresh, OneBrowserEach
<1>1. \A r \in Pages : Cookie(r)' = Cookie(r)
  BY DEF Cookie
<1>2. \A r \in Pages, k \in Tokens : Holds(r, k)' => Holds(r, k)
  BY <1>1 DEF Holds
<1>3. \A r \in Pages, k \in Tokens : Holds(q, k)' /\ Holds(r, k)' => q = r
  BY <1>2 DEF CookiesAreFresh
<1>4. CASE q = p
  BY <1>1, <1>3, <1>4
<1>5. CASE q # p
  <2>1. authCall'[q] = authCall[q] /\ Cookie(q)' = Cookie(q) BY <1>1, <1>5
  <2>2. ASSUME NEW k \in Tokens, Holds(q, k), refreshKey[k] # "consumed" PROVE refreshKey'[k] # "consumed"
    <3>1. k # 0 BY <2>2 DEF Holds
    <3>2. k = Cookie(p) => Holds(p, k) BY <3>1 DEF Holds
    <3>3. k # Cookie(p) BY <1>5, <2>2, <3>2 DEF CookiesAreFresh
    <3> QED BY <2>2, <3>3
  <2>3. authCall[q].at \notin {"issue", "granted"} /\ Cookie(q) # 0 => refreshKey'[Cookie(q)] # "consumed"
    <3> SUFFICES ASSUME authCall[q].at \notin {"issue", "granted"}, Cookie(q) # 0
                 PROVE  refreshKey'[Cookie(q)] # "consumed"
      OBVIOUS
    <3>1. Cookie(q) \in Tokens /\ Holds(q, Cookie(q)) BY CookieTyped DEF Holds
    <3>2. refreshKey[Cookie(q)] # "consumed" BY DEF CookiesAreFresh
    <3> QED BY <2>2, <3>1, <3>2
  <2>4. authCall[q].at = "granted" => refreshKey'[authCall[q].key] # "consumed"
    <3> SUFFICES ASSUME authCall[q].at = "granted" PROVE refreshKey'[authCall[q].key] # "consumed"
      OBVIOUS
    <3>1. authCall[q].key \in 1..issued.tokens /\ issued.tokens \in 0..MaxTokens /\ MaxTokens \in Nat
      BY CookieTyped, SessionsAssumption DEF GrantsFit
    <3>2. authCall[q].key \in Tokens /\ Holds(q, authCall[q].key) BY <3>1 DEF Tokens, Holds
    <3>3. refreshKey[authCall[q].key] # "consumed" BY DEF CookiesAreFresh
    <3> QED BY <2>2, <3>2, <3>3
  <2>5. /\ authCall[q].at \notin {"list", "revoke"}
        /\ authCall[q].at \in {"read", "consume"} => authCall[q].key = Cookie(q) /\ Cookie(q) # 0
    BY DEF CookiesAreFresh
  <2> QED BY <1>3, <2>1, <2>3, <2>4, <2>5
<1> QED BY <1>4, <1>5

-----------------------------------------------------------------------------
(* Trying a one-time password. *)

LEMMA PagesPending ==
    /\ TryPending \subseteq Pages /\ IsFiniteSet(TryPending)
    /\ Cardinality(TryPending) \in Nat /\ Cardinality(Pages) \in Nat
    /\ \A p \in Pages \ TryPending : Cardinality(TryPending) < Cardinality(Pages)
<1>1. IsFiniteSet(Pages) /\ TryPending \subseteq Pages BY SessionsAssumption DEF TryPending
<1>2. IsFiniteSet(TryPending) BY <1>1, FS_Subset
<1>3. Cardinality(TryPending) \in Nat /\ Cardinality(Pages) \in Nat BY <1>1, <1>2, FS_CardinalityType
<1>4. ASSUME NEW p \in Pages \ TryPending PROVE Cardinality(TryPending) < Cardinality(Pages)
  <2>1. TryPending # Pages BY <1>4
  <2>2. Cardinality(TryPending) <= Cardinality(Pages) /\ Cardinality(TryPending) # Cardinality(Pages)
    BY <1>1, <2>1, FS_Subset
  <2> QED BY <1>3, <2>2
<1> QED BY <1>1, <1>2, <1>3, <1>4

LEMMA TriesKept ==
    ASSUME SessionsInv, SessionsTypeOK', NEW p \in Pages,
           RequestOtp(p) \/ ExpireOtp \/ TryOtp(p) \/ CountTry(p) \/ DropOtp(p)
    PROVE  TriesCounted' /\ TriesBounded'
<1> USE SessionsAssumption DEF SessionsInv
<1>1. CASE RequestOtp(p)
  <2>1. /\ otp'.code = issued.codes + 1 /\ otp'.attempts = 0 /\ issued.codes < MaxCodes
        /\ UNCHANGED <<otpTries, authCall>>
    BY <1>1 DEF RequestOtp, SessionsTypeOK
  <2>2. otpTries'[otp'.code] = 0 /\ TryPending' = TryPending
    BY <2>1 DEF GrantsFit, SessionsTypeOK, Codes, TryPending
  <2>3. Cardinality(TryPending) \in Nat BY PagesPending
  <2> QED BY <2>1, <2>2, <2>3 DEF TriesCounted, TriesBounded
<1>2. CASE ExpireOtp
  <2>1. otp'.code = 0 /\ otpTries' = otpTries BY <1>2 DEF ExpireOtp
  <2> QED BY <2>1 DEF TriesCounted, TriesBounded
<1>3. CASE TryOtp(p)
  <2> DEFINE step == AfterTry(authCall[p].key)
  <2>1. step \in {"refused", "lock", "count", "burn"} /\ step \in AuthSteps BY AfterTryFits DEF AuthSteps
  <2>2. Goes(p, step) /\ authCall[p].at = "try" /\ otp' = otp BY <1>3 DEF TryOtp
  <2>3. otp.code = 0 <=> step = "refused" BY DEF AfterTry
  <2> HIDE DEF step
  <2>4. authCall'[p].at = step /\ \A q \in Pages \ {p} : authCall'[q] = authCall[q]
    BY <2>1, <2>2, GoesFits
  <2>5. CASE otp.code = 0
    <3>1. otpTries' = otpTries BY <1>3, <2>5 DEF TryOtp
    <3> QED BY <2>2, <2>5, <3>1 DEF TriesCounted, TriesBounded
  <2>6. CASE otp.code # 0
    <3>1. p \notin TryPending /\ TryPending' = TryPending \cup {p}
      BY <2>1, <2>2, <2>3, <2>4, <2>6 DEF TryPending
    <3>2. Cardinality(TryPending') = Cardinality(TryPending) + 1
      BY <3>1, PagesPending, FS_AddElement
    <3>3. Cardinality(TryPending) < Cardinality(Pages) /\ Cardinality(TryPending) \in Nat /\ Cardinality(Pages) \in Nat
      BY <3>1, PagesPending
    <3>4. otp.code \in Codes /\ otpTries[otp.code] \in Nat /\ otp.attempts \in Nat
      BY <2>6 DEF SessionsTypeOK, Codes
    <3>5. otpTries[otp.code] <= otp.attempts + Cardinality(TryPending)
      BY <2>6 DEF TriesCounted
    <3>6. CASE otp.attempts < OtpTries
      <4> DEFINE tried == otpTries[otp.code] + 1
      <4>1. otpTries' = [otpTries EXCEPT ![otp.code] = tried] BY <1>3, <2>6, <3>6 DEF TryOtp
      <4>2. tried <= otp.attempts + Cardinality(TryPending')
        BY <3>2, <3>3, <3>4, <3>5
      <4>3. tried <= OtpTries + Cardinality(Pages) - 1
        BY <3>3, <3>4, <3>5, <3>6
      <4> HIDE DEF tried
      <4>4. \A c \in Codes : otpTries'[c] = IF c = otp.code THEN tried ELSE otpTries[c]
        BY <4>1 DEF SessionsTypeOK
      <4>5. TriesCounted' BY <2>2, <3>4, <4>2, <4>4 DEF TriesCounted
      <4>6. TriesBounded' BY <4>3, <4>4 DEF TriesBounded
      <4> QED BY <4>5, <4>6
    <3>7. CASE ~(otp.attempts < OtpTries)
      <4>1. otpTries' = otpTries BY <1>3, <3>7 DEF TryOtp
      <4> QED BY <2>2, <3>2, <3>3, <3>4, <3>5, <4>1 DEF TriesCounted, TriesBounded
    <3> QED BY <3>6, <3>7
  <2> QED BY <2>5, <2>6
<1>4. CASE CountTry(p)
  <2>1. Goes(p, "refused") /\ "refused" \in AuthSteps /\ authCall[p].at = "count" BY <1>4 DEF CountTry, AuthSteps
  <2>2. authCall'[p].at = "refused" /\ \A q \in Pages \ {p} : authCall'[q] = authCall[q]
    BY <2>1, GoesFits
  <2>3. p \in TryPending /\ TryPending' = TryPending \ {p}
    BY <2>1, <2>2 DEF TryPending
  <2>4. Cardinality(TryPending') = Cardinality(TryPending) - 1
    BY <2>3, PagesPending, FS_RemoveElement
  <2>5. otp'.code = otp.code /\ otp'.attempts = otp.attempts + 1 /\ otpTries' = otpTries
    BY <1>4 DEF CountTry, SessionsTypeOK
  <2>6. otp.code # 0 => otpTries[otp.code] \in Nat
    BY DEF SessionsTypeOK, Codes
  <2>7. otp.attempts \in Nat /\ Cardinality(TryPending) \in Nat
    BY PagesPending DEF SessionsTypeOK
  <2> QED BY <2>4, <2>5, <2>6, <2>7 DEF TriesCounted, TriesBounded
<1>5. CASE DropOtp(p)
  <2>1. otp'.code = 0 /\ otpTries' = otpTries BY <1>5 DEF DropOtp
  <2> QED BY <2>1 DEF TriesCounted, TriesBounded
<1> QED BY <1>1, <1>2, <1>3, <1>4, <1>5

LEMMA OtpStepsFresh ==
    ASSUME SessionsInv, SessionsTypeOK', NEW p \in Pages,
           RequestOtp(p) \/ ExpireOtp \/ TryOtp(p) \/ CountTry(p) \/ DropOtp(p)
    PROVE  CookiesAreFresh'
<1> USE DEF SessionsInv
<1>1. CASE RequestOtp(p) \/ ExpireOtp
  <2>1. UNCHANGED <<authCall, jar, lost, refreshKey>> BY <1>1 DEF RequestOtp, ExpireOtp, tokenVars
  <2> QED BY <2>1 DEF CookiesAreFresh, Holds, Cookie, OneBrowserEach
<1>2. CASE TryOtp(p) \/ CountTry(p) \/ DropOtp(p)
  <2>1. PICK step \in {"refused", "lock", "count", "burn", "issue"} :
            Goes(p, step) /\ authCall[p].at \in {"try", "count", "lock", "burn"}
    <3>1. CASE TryOtp(p) BY <3>1, AfterTryFits DEF TryOtp
    <3>2. CASE CountTry(p) BY <3>2 DEF CountTry
    <3>3. CASE DropOtp(p)
      <4>1. CASE authCall[p].at = "lock" BY <3>3, <4>1 DEF DropOtp
      <4>2. CASE authCall[p].at = "burn" BY <3>3, <4>2 DEF DropOtp
      <4> QED BY <3>3, <4>1, <4>2 DEF DropOtp
    <3> QED BY <1>2, <3>1, <3>2, <3>3
  <2>2. UNCHANGED <<jar, lost, refreshKey>> BY <1>2 DEF TryOtp, CountTry, DropOtp, tokenVars
  <2>3. authCall'[p].at = step /\ \A q \in Pages \ {p} : authCall'[q] = authCall[q]
    BY <2>1, GoesFits DEF AuthSteps
  <2>4. OneBrowserEach /\ lost = 0 /\ Cookie(p) # 0 => refreshKey'[Cookie(p)] # "consumed"
    BY <2>1, <2>2 DEF CookiesAreFresh
  <2> QED BY <2>1, <2>2, <2>3, <2>4, MovesFresh
<1> QED BY <1>1, <1>2

-----------------------------------------------------------------------------
(* Refreshing and signing out. *)

SessionsKept == SessionsTypeOK' /\ GrantsFit' /\ TriesCounted' /\ TriesBounded' /\ CookiesAreFresh'

LEMMA AsksKept ==
    ASSUME SessionsInv, NEW p \in Pages,
           \/ \E typed \in 0..issued.codes : TypeOtp(p, typed)
           \/ Refresh(p) \/ SignOut(p)
    PROVE  SessionsKept
<1> USE DEF SessionsInv
<1>1. PICK step \in {"try", "ended", "read", "cleared", "find"}, key \in Keys :
          /\ authCall[p].at = "none" /\ Carries(p, step, key)
          /\ step = "read" => key = Cookie(p) /\ Cookie(p) # 0
  <2>1. ASSUME NEW typed \in 0..issued.codes, TypeOtp(p, typed)
        PROVE  typed \in Keys /\ authCall[p].at = "none" /\ Carries(p, "try", typed)
    <3>1. typed \in Keys
      BY SessionsAssumption DEF SessionsTypeOK, Keys
    <3> QED BY <2>1, <3>1 DEF TypeOtp, Asks
  <2>2. CASE Refresh(p)
    <3>1. CASE Cookie(p) = 0 BY <2>2, <3>1, CookieTyped DEF Refresh, Asks
    <3>2. CASE Cookie(p) # 0 BY <2>2, <3>2, CookieTyped DEF Refresh, Asks
    <3> QED BY <3>1, <3>2
  <2>3. CASE SignOut(p)
    <3>1. CASE Cookie(p) = 0 BY <2>3, <3>1, CookieTyped DEF SignOut, Asks
    <3>2. CASE Cookie(p) # 0 BY <2>3, <3>2, CookieTyped DEF SignOut, Asks
    <3> QED BY <3>1, <3>2
  <2> QED BY <2>1, <2>2, <2>3
<1>2. step \in AuthSteps BY DEF AuthSteps
<1>3. /\ authCall' \in [Pages -> AuthCall] /\ authCall'[p].at = step /\ authCall'[p].key = key
      /\ \A q \in Pages \ {p} : authCall'[q] = authCall[q]
  BY <1>1, <1>2, CarriesFits
<1>4. UNCHANGED <<otp, otpTries, issued, refreshKey, userSet, jar, signedIn, lost>>
  BY DEF TypeOtp, Refresh, SignOut, otpVars, tokenVars
<1>5. OneBrowserEach /\ lost = 0 /\ Cookie(p) # 0 => refreshKey'[Cookie(p)] # "consumed"
  BY <1>1, <1>4 DEF CookiesAreFresh
<1>6. CookiesAreFresh'
  BY <1>1, <1>3, <1>4, <1>5, MovesFresh
<1>7. SessionsTypeOK' /\ GrantsFit' /\ TriesCounted' /\ TriesBounded'
  BY <1>1, <1>3, <1>4, MovesFit DEF SessionsTypeOK
<1> QED BY <1>6, <1>7 DEF SessionsKept

LEMMA ReadsKept ==
    ASSUME SessionsInv, NEW p \in Pages, ReadToken(p) \/ FindToken(p)
    PROVE  SessionsKept
<1> USE DEF SessionsInv
<1>1. PICK step \in {"consume", "list", "ended", "drop", "cleared"} :
          /\ Goes(p, step)
          /\ authCall[p].at \in {"read", "find"}
          /\ step = "consume" => authCall[p].at = "read"
          /\ step = "list" => authCall[p].at = "read" /\ refreshKey[authCall[p].key] = "consumed"
  <2>1. CASE ReadToken(p)
    <3> DEFINE step == CASE refreshKey[authCall[p].key] = "live" -> "consume"
                         [] refreshKey[authCall[p].key] = "consumed" -> "list"
                         [] OTHER -> "ended"
    <3>1. step \in {"consume", "list", "ended"} /\ (step = "list" => refreshKey[authCall[p].key] = "consumed")
      OBVIOUS
    <3>2. Goes(p, step) /\ authCall[p].at = "read" BY <2>1 DEF ReadToken
    <3> HIDE DEF step
    <3> QED BY <3>1, <3>2
  <2>2. CASE FindToken(p)
    <3>1. CASE refreshKey[authCall[p].key] = "live" BY <2>2, <3>1 DEF FindToken
    <3>2. CASE refreshKey[authCall[p].key] # "live" BY <2>2, <3>2 DEF FindToken
    <3> QED BY <3>1, <3>2
  <2> QED BY <2>1, <2>2
<1>2. step \in AuthSteps BY DEF AuthSteps
<1>3. /\ authCall' \in [Pages -> AuthCall] /\ authCall'[p].at = step /\ authCall'[p].key = authCall[p].key
      /\ \A q \in Pages \ {p} : authCall'[q] = authCall[q]
  BY <1>1, <1>2, GoesFits
<1>4. UNCHANGED <<otp, otpTries, issued, refreshKey, userSet, jar, signedIn, lost>>
  BY DEF ReadToken, FindToken, otpVars, tokenVars
<1>5. OneBrowserEach /\ lost = 0 =>
          /\ Cookie(p) # 0 => refreshKey[Cookie(p)] # "consumed"
          /\ authCall[p].at = "read" => authCall[p].key = Cookie(p) /\ Cookie(p) # 0
  BY <1>1 DEF CookiesAreFresh
<1>6. CookiesAreFresh'
  BY <1>1, <1>3, <1>4, <1>5, MovesFresh
<1>7. SessionsTypeOK' /\ GrantsFit' /\ TriesCounted' /\ TriesBounded'
  BY <1>1, <1>3, <1>4, MovesFit DEF SessionsTypeOK
<1> QED BY <1>6, <1>7 DEF SessionsKept

LEMMA WritesKept ==
    ASSUME SessionsInv, NEW p \in Pages, ConsumeToken(p) \/ DropToken(p)
    PROVE  SessionsKept
<1> USE DEF SessionsInv
<1>1. PICK step \in {"issue", "cleared"}, mark \in {"consumed", "absent"} :
          /\ Goes(p, step)
          /\ authCall[p].at \in {"consume", "drop"}
          /\ refreshKey' = [refreshKey EXCEPT ![authCall[p].key] = mark]
          /\ userSet' = userSet \ {authCall[p].key}
          /\ mark = "consumed" => authCall[p].at = "consume" /\ step = "issue"
  BY DEF ConsumeToken, DropToken
<1>2. step \in AuthSteps BY DEF AuthSteps
<1>3. /\ authCall' \in [Pages -> AuthCall] /\ authCall'[p].at = step
      /\ \A q \in Pages \ {p} : authCall'[q] = authCall[q]
  BY <1>1, <1>2, GoesFits
<1>4. UNCHANGED <<otp, otpTries, issued, jar, signedIn, lost>>
  BY DEF ConsumeToken, DropToken, otpVars
<1>5. \A k \in Tokens : refreshKey'[k] = "consumed" =>
          refreshKey[k] = "consumed" \/ (k = authCall[p].key /\ mark = "consumed")
  BY <1>1 DEF SessionsTypeOK
<1>6. ASSUME OneBrowserEach, lost = 0
      PROVE  /\ \A k \in Tokens : refreshKey'[k] = "consumed" => refreshKey[k] = "consumed" \/ k = Cookie(p)
             /\ step # "issue" /\ Cookie(p) # 0 => refreshKey'[Cookie(p)] # "consumed"
  <2>1. /\ Cookie(p) # 0 => refreshKey[Cookie(p)] # "consumed"
        /\ authCall[p].at = "consume" => authCall[p].key = Cookie(p)
    BY <1>1, <1>6 DEF CookiesAreFresh
  <2>2. Cookie(p) # 0 => Cookie(p) \in Tokens BY CookieTyped
  <2> QED BY <1>1, <1>5, <2>1, <2>2
<1>7. CookiesAreFresh'
  BY <1>1, <1>3, <1>4, <1>6, MovesFresh
<1>8. refreshKey' \in [Tokens -> {"absent", "live", "consumed"}] /\ userSet' \subseteq Tokens
  BY <1>1 DEF SessionsTypeOK
<1>9. SessionsTypeOK' /\ GrantsFit' /\ TriesCounted' /\ TriesBounded'
  BY <1>1, <1>3, <1>4, <1>8, MovesFit
<1> QED BY <1>7, <1>9 DEF SessionsKept

\* A replay: it lists the tokens, then drops them.
LEMMA ReplaysKept ==
    ASSUME SessionsInv, NEW p \in Pages, ListTokens(p) \/ RevokeTokens(p)
    PROVE  SessionsKept
<1> USE DEF SessionsInv
<1>0. ~(OneBrowserEach /\ lost = 0)
  BY DEF ListTokens, RevokeTokens, CookiesAreFresh
<1>1. /\ authCall' \in [Pages -> AuthCall] /\ authCall'[p].at \in {"ended", "revoke"}
      /\ authCall[p].at \in {"list", "revoke"}
      /\ \A q \in Pages \ {p} : authCall'[q] = authCall[q]
  <2>1. CASE ListTokens(p)
    <3> DEFINE step == IF userSet = {} THEN "ended" ELSE "revoke"
               next == [authCall[p] EXCEPT !.seen = userSet, !.at = step]
    <3>1. step \in {"ended", "revoke"} /\ step \in AuthSteps BY DEF AuthSteps
    <3>2. authCall[p] \in AuthCall /\ userSet \subseteq Tokens /\ authCall[p].at = "list"
      BY <2>1 DEF SessionsTypeOK, ListTokens
    <3>3. authCall' = [authCall EXCEPT ![p].seen = userSet, ![p].at = step]
      BY <2>1 DEF ListTokens
    <3> HIDE DEF step
    <3>4. authCall' = [authCall EXCEPT ![p] = next]
      BY <3>3 DEF SessionsTypeOK
    <3>5. next \in AuthCall /\ next.at = step
      BY <3>1, <3>2 DEF AuthCall
    <3> HIDE DEF next
    <3> QED BY <3>1, <3>2, <3>4, <3>5 DEF SessionsTypeOK
  <2>2. CASE RevokeTokens(p)
    <3>1. Goes(p, "ended") /\ "ended" \in AuthSteps /\ authCall[p].at = "revoke" BY <2>2 DEF RevokeTokens, AuthSteps
    <3> QED BY <3>1, GoesFits
  <2> QED BY <2>1, <2>2
<1>2. UNCHANGED <<otp, otpTries, issued, jar, signedIn, lost>>
  BY DEF ListTokens, RevokeTokens, otpVars
<1>3. refreshKey' \in [Tokens -> {"absent", "live", "consumed"}] /\ userSet' \subseteq Tokens
  BY DEF SessionsTypeOK, ListTokens, RevokeTokens, tokenVars
<1>4. SessionsTypeOK' /\ GrantsFit' /\ TriesCounted' /\ TriesBounded'
  BY <1>1, <1>2, <1>3, MovesFit
<1>5. CookiesAreFresh'
  BY <1>0, <1>1, <1>2, MovesFresh
<1> QED BY <1>4, <1>5 DEF SessionsKept

\* The next token is new to everybody.
LEMMA IssueKept ==
    ASSUME SessionsInv, NEW p \in Pages, IssueToken(p)
    PROVE  SessionsKept
<1> USE SessionsAssumption DEF SessionsInv
<1> DEFINE more == issued.tokens + 1
<1>1. more \in 1..MaxTokens /\ more \in Keys /\ more > issued.tokens /\ more \in Tokens
  BY DEF IssueToken, SessionsTypeOK, Keys, Tokens
<1>2. issued' = [issued EXCEPT !.tokens = more] /\ authCall[p].at = "issue"
  BY DEF IssueToken
<1>3. \A k \in 0..issued.tokens : k \in 0..more /\ k # more
  BY DEF SessionsTypeOK
<1> HIDE DEF more
<1>4. issued' \in [tokens : 0..MaxTokens, codes : 0..MaxCodes] /\ issued'.tokens = more /\ issued'.codes = issued.codes
  BY <1>1, <1>2 DEF SessionsTypeOK
<1>5. /\ refreshKey' = [refreshKey EXCEPT ![more] = "live"] /\ userSet' = userSet \cup {more}
      /\ Carries(p, "granted", more)
      /\ UNCHANGED <<otp, otpTries, jar, signedIn, lost>>
  BY <1>4 DEF IssueToken, otpVars
<1>6. /\ authCall' \in [Pages -> AuthCall] /\ authCall'[p].at = "granted" /\ authCall'[p].key = more
      /\ \A q \in Pages \ {p} : authCall'[q] = authCall[q]
  BY <1>1, <1>5, CarriesFits DEF AuthSteps
<1>7. jar' \in [Browsers -> 0..issued'.tokens]
  BY <1>3, <1>4, <1>5 DEF SessionsTypeOK
<1>8. SessionsTypeOK'
  BY <1>1, <1>4, <1>5, <1>6, <1>7 DEF SessionsTypeOK
<1>9. GrantsFit'
  <2>1. issued.tokens \in Nat /\ more = issued.tokens + 1 BY DEF more, SessionsTypeOK
  <2>2. \A q \in Pages : authCall'[q].at = "granted" => authCall'[q].key \in 1..issued'.tokens
    BY <1>4, <1>6, <2>1 DEF GrantsFit
  <2> QED BY <1>4, <1>5, <2>2 DEF GrantsFit
<1>10. TryPending' = TryPending
  BY <1>2, <1>6 DEF TryPending
<1>11. TriesCounted' /\ TriesBounded'
  BY <1>5, <1>10 DEF TriesCounted, TriesBounded
<1>12. CookiesAreFresh'
  <2> SUFFICES ASSUME OneBrowserEach, lost = 0, NEW q \in Pages
               PROVE  /\ authCall'[q].at \notin {"list", "revoke"}
                      /\ authCall'[q].at \in {"read", "consume"} => authCall'[q].key = Cookie(q)' /\ Cookie(q)' # 0
                      /\ authCall'[q].at \notin {"issue", "granted"} /\ Cookie(q)' # 0 =>
                             refreshKey'[Cookie(q)'] # "consumed"
                      /\ authCall'[q].at = "granted" => refreshKey'[authCall'[q].key] # "consumed"
                      /\ \A r \in Pages, k \in Tokens : Holds(q, k)' /\ Holds(r, k)' => q = r
    BY <1>5 DEF CookiesAreFresh, OneBrowserEach
  <2>1. \A r \in Pages : Cookie(r)' = Cookie(r) /\ Cookie(r) \in 0..issued.tokens /\ Cookie(r) # more
    BY <1>3, <1>5, CookieTyped DEF Cookie
  <2>2. \A r \in Pages \ {p}, k \in Tokens : Holds(r, k)' => k # more
    <3> SUFFICES ASSUME NEW r \in Pages \ {p}, NEW k \in Tokens, Holds(r, k)' PROVE k # more OBVIOUS
    <3>1. authCall[r].at = "granted" => authCall[r].key \in 0..issued.tokens
      BY DEF GrantsFit, SessionsTypeOK
    <3>2. authCall[r].at = "granted" => authCall[r].key # more BY <1>3, <3>1
    <3>3. authCall'[r] = authCall[r] /\ Cookie(r)' # more BY <1>6, <2>1
    <3> QED BY <3>2, <3>3 DEF Holds
  <2>3. \A r \in Pages, k \in Tokens \ {more} : Holds(r, k)' => Holds(r, k)
    BY <1>6, <2>1 DEF Holds
  <2>4. ASSUME NEW r \in Pages, NEW k \in Tokens, Holds(q, k)', Holds(r, k)' PROVE q = r
    <3>1. CASE k = more BY <2>2, <2>4, <3>1
    <3>2. CASE k # more
      <4>1. Holds(q, k) /\ Holds(r, k) BY <2>3, <2>4, <3>2
      <4> QED BY <4>1 DEF CookiesAreFresh
    <3> QED BY <3>1, <3>2
  <2>5. \A k \in Tokens : refreshKey'[k] = IF k = more THEN "live" ELSE refreshKey[k]
    BY <1>5 DEF SessionsTypeOK
  <2>6. CASE q = p
    BY <1>1, <1>6, <2>4, <2>5, <2>6
  <2>7. CASE q # p
    <3>1. authCall'[q] = authCall[q] BY <1>6, <2>7
    <3>2. Cookie(q) # 0 => Cookie(q) \in Tokens BY CookieTyped
    <3>3. authCall[q].at = "granted" => authCall[q].key \in Tokens
      BY CookieTyped DEF GrantsFit, Tokens
    <3>4. /\ authCall[q].at \notin {"list", "revoke"}
          /\ authCall[q].at \in {"read", "consume"} => authCall[q].key = Cookie(q) /\ Cookie(q) # 0
          /\ authCall[q].at \notin {"issue", "granted"} /\ Cookie(q) # 0 => refreshKey[Cookie(q)] # "consumed"
          /\ authCall[q].at = "granted" => refreshKey[authCall[q].key] # "consumed"
      BY DEF CookiesAreFresh
    <3> QED BY <2>1, <2>4, <2>5, <3>1, <3>2, <3>3, <3>4
  <2> QED BY <2>6, <2>7
<1> QED BY <1>8, <1>9, <1>11, <1>12 DEF SessionsKept

\* An answer arrives, and the cookie it carries takes the old one's place.
LEMMA ReceiveKept ==
    ASSUME SessionsInv, NEW p \in Pages, Receive(p)
    PROVE  SessionsKept
<1> USE SessionsAssumption DEF SessionsInv
<1> DEFINE brought == CookieAfter(p)
<1>1. /\ authCall[p].at \in AnswerKinds
      /\ jar' = [jar EXCEPT ![BrowserOf[p]] = brought]
      /\ authCall' = [authCall EXCEPT ![p] = NoCall]
      /\ UNCHANGED <<otp, otpTries, issued, refreshKey, userSet, lost>>
  BY DEF Receive, otpVars, tokenVars
<1>2. /\ authCall' \in [Pages -> AuthCall] /\ authCall'[p].at = "none"
      /\ \A q \in Pages \ {p} : authCall'[q] = authCall[q]
  BY <1>1, OverFits
<1>3. brought \in 0..issued.tokens
  <2>1. CASE authCall[p].at = "granted" BY <2>1 DEF CookieAfter, GrantsFit, SessionsTypeOK
  <2>2. CASE authCall[p].at # "granted"
    <3>1. Cookie(p) \in 0..issued.tokens /\ issued.tokens \in 0..MaxTokens BY CookieTyped
    <3> QED BY <2>2, <3>1 DEF CookieAfter
  <2> QED BY <2>1, <2>2
<1>4. jar' \in [Browsers -> 0..issued'.tokens]
  BY <1>1, <1>3 DEF SessionsTypeOK
<1>5. signedIn' \subseteq Pages
  BY DEF Receive, SessionsTypeOK
<1>6. SessionsTypeOK' BY <1>1, <1>2, <1>4, <1>5 DEF SessionsTypeOK
<1>7. GrantsFit' BY <1>1, <1>2 DEF GrantsFit
<1>8. TryPending' = TryPending
  BY <1>1, <1>2 DEF TryPending, AnswerKinds
<1>9. TriesCounted' /\ TriesBounded'
  BY <1>1, <1>8 DEF TriesCounted, TriesBounded
<1>10. CookiesAreFresh'
  <2> SUFFICES ASSUME OneBrowserEach, lost = 0, NEW q \in Pages
               PROVE  /\ authCall'[q].at \notin {"list", "revoke"}
                      /\ authCall'[q].at \in {"read", "consume"} => authCall'[q].key = Cookie(q)' /\ Cookie(q)' # 0
                      /\ authCall'[q].at \notin {"issue", "granted"} /\ Cookie(q)' # 0 =>
                             refreshKey'[Cookie(q)'] # "consumed"
                      /\ authCall'[q].at = "granted" => refreshKey'[authCall'[q].key] # "consumed"
                      /\ \A r \in Pages, k \in Tokens : Holds(q, k)' /\ Holds(r, k)' => q = r
    BY <1>1 DEF CookiesAreFresh, OneBrowserEach
  <2>1. /\ Cookie(p)' = brought
        /\ \A r \in Pages \ {p} : Cookie(r)' = Cookie(r)
    BY <1>1, CookieTyped DEF Cookie, OneBrowserEach, SessionsTypeOK
  <2>2. /\ brought \in {0, Cookie(p)} \/ (authCall[p].at = "granted" /\ brought = authCall[p].key)
        /\ authCall[p].at = "granted" => brought = authCall[p].key
    BY DEF CookieAfter
  <2> HIDE DEF brought
  <2>3. \A r \in Pages, k \in Tokens : Holds(r, k)' => Holds(r, k)
    BY <1>2, <2>1, <2>2 DEF Holds
  <2>4. \A r \in Pages, k \in Tokens : Holds(q, k)' /\ Holds(r, k)' => q = r
    BY <2>3 DEF CookiesAreFresh
  <2>5. /\ authCall[q].at \notin {"list", "revoke"}
        /\ authCall[q].at \in {"read", "consume"} => authCall[q].key = Cookie(q) /\ Cookie(q) # 0
        /\ authCall[q].at \notin {"issue", "granted"} /\ Cookie(q) # 0 => refreshKey[Cookie(q)] # "consumed"
        /\ authCall[q].at = "granted" => refreshKey[authCall[q].key] # "consumed"
    BY DEF CookiesAreFresh
  <2>6. CASE q = p
    BY <1>1, <1>2, <2>1, <2>2, <2>4, <2>5, <2>6 DEF AnswerKinds
  <2>7. CASE q # p
    BY <1>1, <1>2, <2>1, <2>4, <2>5, <2>7
  <2> QED BY <2>6, <2>7
<1> QED BY <1>6, <1>7, <1>9, <1>10 DEF SessionsKept

LEMMA LossKept ==
    ASSUME SessionsInv, NEW p \in Pages, LoseAnswer(p)
    PROVE  SessionsKept
<1> USE SessionsAssumption DEF SessionsInv
<1>1. /\ authCall[p].at \in AnswerKinds
      /\ authCall' = [authCall EXCEPT ![p] = NoCall]
      /\ lost' = lost + 1 /\ lost < MaxLost
      /\ UNCHANGED <<otp, otpTries, issued, refreshKey, userSet, jar, signedIn>>
  BY DEF LoseAnswer, otpVars, tokenVars
<1>2. /\ authCall' \in [Pages -> AuthCall] /\ authCall'[p].at = "none"
      /\ \A q \in Pages \ {p} : authCall'[q] = authCall[q]
  BY <1>1, OverFits
<1>3. lost' \in 0..MaxLost /\ lost' # 0
  BY <1>1 DEF SessionsTypeOK
<1>4. SessionsTypeOK' BY <1>1, <1>2, <1>3 DEF SessionsTypeOK
<1>5. GrantsFit' BY <1>1, <1>2 DEF GrantsFit
<1>6. TryPending' = TryPending
  BY <1>1, <1>2 DEF TryPending, AnswerKinds
<1>7. TriesCounted' /\ TriesBounded'
  BY <1>1, <1>6 DEF TriesCounted, TriesBounded
<1>8. CookiesAreFresh' BY <1>3 DEF CookiesAreFresh
<1> QED BY <1>4, <1>5, <1>7, <1>8 DEF SessionsKept

LEMMA ExpiryKept ==
    ASSUME SessionsInv, NEW k \in Tokens, ExpireToken(k)
    PROVE  SessionsKept
<1> USE DEF SessionsInv
<1>1. /\ refreshKey' = [refreshKey EXCEPT ![k] = "absent"]
      /\ UNCHANGED <<otp, otpTries, issued, userSet, jar, signedIn, authCall, lost>>
  BY DEF ExpireToken, otpVars
<1>2. SessionsTypeOK' /\ GrantsFit' BY <1>1 DEF SessionsTypeOK, GrantsFit
<1>3. TriesCounted' /\ TriesBounded' BY <1>1 DEF TriesCounted, TriesBounded, TryPending
<1>4. \A l \in Tokens : refreshKey'[l] = "consumed" => refreshKey[l] = "consumed"
  BY <1>1 DEF SessionsTypeOK
<1>5. ASSUME NEW q \in Pages
      PROVE  /\ Cookie(q)' = Cookie(q) /\ (Cookie(q) # 0 => Cookie(q) \in Tokens)
             /\ authCall[q].at = "granted" => authCall[q].key \in Tokens
  BY <1>1, CookieTyped, SessionsAssumption DEF Cookie, GrantsFit, Tokens
<1>6. \A q \in Pages : \A l \in Tokens : Holds(q, l)' <=> Holds(q, l)
  BY <1>1, <1>5 DEF Holds
<1>7. CookiesAreFresh'
  BY <1>1, <1>4, <1>5, <1>6 DEF CookiesAreFresh, OneBrowserEach
<1> QED BY <1>2, <1>3, <1>7 DEF SessionsKept

-----------------------------------------------------------------------------
(* Together. *)

LEMMA SessionsInvInitially == SessionsInit => SessionsInv
<1> SUFFICES ASSUME SessionsInit PROVE SessionsInv OBVIOUS
<1> USE SessionsAssumption DEF SessionsInit
<1>1. SessionsTypeOK
  <2>1. authCall \in [Pages -> AuthCall] BY NoCallFits
  <2>2. otp \in [code : 0..MaxCodes, attempts : Nat] /\ issued \in [tokens : 0..MaxTokens, codes : 0..MaxCodes]
    OBVIOUS
  <2>3. issued.tokens = 0 OBVIOUS
  <2> QED BY <2>1, <2>2, <2>3 DEF SessionsTypeOK
<1>2. GrantsFit BY NoCallFits DEF GrantsFit
<1>3. TriesCounted /\ TriesBounded
  <2>1. TriesCounted BY DEF TriesCounted
  <2>2. Cardinality(Pages) \in Nat BY PagesPending
  <2> QED BY <2>1, <2>2 DEF TriesBounded
<1>4. CookiesAreFresh
  <2>1. \A p \in Pages : Cookie(p) = 0 /\ authCall[p].at = "none" BY NoCallFits DEF Cookie
  <2> QED BY <2>1 DEF CookiesAreFresh, Holds
<1> QED BY <1>1, <1>2, <1>3, <1>4 DEF SessionsInv

LEMMA SessionsInductive == SessionsSpec => []SessionsInv
<1>1. SessionsInv /\ [SessionsNext]_sessionVars => SessionsInv'
  <2> SUFFICES ASSUME SessionsInv, [SessionsNext]_sessionVars PROVE SessionsInv' OBVIOUS
  <2>1. ASSUME NEW p \in Pages, RequestOtp(p) \/ TryOtp(p) \/ CountTry(p) \/ DropOtp(p) \/ ExpireOtp
        PROVE  SessionsInv'
    BY <2>1, OtpStepsFit, TriesKept, OtpStepsFresh DEF SessionsInv
  <2>2. ASSUME NEW p \in Pages,
               \/ \E typed \in 0..issued.codes : TypeOtp(p, typed)
               \/ Refresh(p) \/ ReadToken(p) \/ ConsumeToken(p) \/ IssueToken(p)
               \/ ListTokens(p) \/ RevokeTokens(p)
               \/ SignOut(p) \/ FindToken(p) \/ DropToken(p)
               \/ Receive(p) \/ LoseAnswer(p)
        PROVE  SessionsInv'
    BY <2>2, AsksKept, ReadsKept, WritesKept, ReplaysKept, IssueKept, ReceiveKept, LossKept DEF SessionsKept, SessionsInv
  <2>3. ASSUME NEW k \in Tokens, ExpireToken(k) PROVE SessionsInv'
    BY <2>3, ExpiryKept DEF SessionsKept, SessionsInv
  <2>4. CASE ExpireOtp
    <3>1. CASE Pages # {} BY <2>1, <2>4, <3>1
    <3>2. CASE Pages = {}
      <4>1. otp' \in [code : 0..MaxCodes, attempts : Nat] /\ otp'.code = 0
            /\ UNCHANGED <<otpTries, issued, refreshKey, userSet, jar, signedIn, authCall, lost>>
        BY <2>4, SessionsAssumption DEF ExpireOtp, tokenVars
      <4> QED BY <3>2, <4>1
              DEF SessionsInv, SessionsTypeOK, GrantsFit, TriesCounted, TriesBounded, CookiesAreFresh
    <3> QED BY <3>1, <3>2
  <2>5. CASE UNCHANGED sessionVars
    BY <2>5 DEF sessionVars, SessionsInv, SessionsTypeOK, GrantsFit, TriesCounted, TriesBounded, TryPending,
                CookiesAreFresh, Holds, Cookie, OneBrowserEach
  <2> QED BY <2>1, <2>2, <2>3, <2>4, <2>5 DEF SessionsNext
<1> QED BY <1>1, SessionsInvInitially, PTL DEF SessionsSpec

\* Every variable has its type, and no browser holds a token that was not
\* issued (AuthService).
THEOREM SessionsTypeCorrect == SessionsSpec => []SessionsTypeOK
  BY SessionsInductive, PTL DEF SessionsInv

\* However many requests try a code at the same time, each page's one try in
\* flight is all that gets past the limit (verifyOtp).
THEOREM GuessesAreBounded == SessionsSpec => []TriesBounded
  BY SessionsInductive, PTL DEF SessionsInv

\* While no two pages share a browser and no answer was lost, no refresh is
\* taken for a theft (rotateRefreshToken, api-client.ts).
THEOREM OnlyLostAnswersReplay == SessionsSpec => []ReplayMeansLostAnswer
<1>1. SessionsInv => ReplayMeansLostAnswer
  <2>1. SessionsInv => lost \in 0..MaxLost BY DEF SessionsInv, SessionsTypeOK
  <2> QED BY <2>1, SessionsAssumption DEF SessionsInv, CookiesAreFresh, OneBrowserEach, ReplayMeansLostAnswer
<1> QED BY <1>1, SessionsInductive, PTL

-----------------------------------------------------------------------------
(***************************************************************************)
(* Why no scan is forgotten, and why only a sign-in on the phone lets one  *)
(* out as somebody else, for every number of tabs and people.  A tab that  *)
(* nobody has signed in past holds a token of whoever the cookie belongs   *)
(* to, if it still belongs to anybody; and so does its flush.              *)
(***************************************************************************)

\* A flush that awaits an answer has asked about a scan.
FlushesFit ==
    \A t \in Tabs :
        /\ flush[t].at = "none" => flush[t] = NoFlush
        /\ flush[t].at = "answered" => flush[t].todo # {}

\* A token is somebody's, unless it is none.
TokensAreSomebodys ==
    \A t \in Tabs : token[t].of = NoUser => token[t] = NoToken

\* Who a tab's token and flush belong to while nobody has signed in past it.
NotOvertaken ==
    \A t \in Tabs \ overtook :
        /\ token[t] # NoToken => cookie \in {token[t].of, NoUser}
        /\ flush[t] # NoFlush =>
            /\ cookie \in {flush[t].user, NoUser}
            /\ token[t].valid = TRUE => token[t].of = flush[t].user

OfflineInv ==
    /\ OfflineTypeOK
    /\ NoScanForgotten
    /\ FlushesFit
    /\ TokensAreSomebodys
    /\ NotOvertaken

-----------------------------------------------------------------------------
(* Tokens and lists. *)

LEMMA NoTokenFits == NoToken \in Token /\ NoToken.of = NoUser /\ NoToken.valid # TRUE
  BY DEF NoToken, Token, Users

LEMMA NoFlushFits == NoFlush \in Flush /\ NoFlush.at = "none" /\ NoFlush.todo = {} /\ NoFlush.user = NoUser
  BY DEF NoFlush, Flush, Users

\* What a refresh brings is the cookie's.
LEMMA RefreshedFits ==
    ASSUME cookie \in Users
    PROVE  /\ Refreshed \in Token
           /\ Refreshed.of = cookie
           /\ cookie = NoUser => Refreshed = NoToken
  BY DEF Refreshed, NoToken, Token, Users

\* The next scan of a list is one of the list.
LEMMA NextIsListed ==
    ASSUME OfflineInv, NEW t \in Tabs, flush[t].todo # {}
    PROVE  NextScan(t) \in flush[t].todo /\ NextScan(t) \in 1..counts.scans
<1>1. flush[t].todo \subseteq 1..counts.scans /\ counts.scans \in 0..MaxScans
  BY DEF OfflineInv, OfflineTypeOK
<1>2. flush[t].todo \in SUBSET Nat
  BY <1>1, OfflineAssumption
<1>3. \E s \in flush[t].todo : \A r \in flush[t].todo : s <= r
  BY <1>2, LeastOf
<1> QED BY <1>1, <1>3 DEF NextScan, Min

\* A flush goes on as it was, or it is over.
FlushesStay ==
    \A q \in Tabs : flush'[q] = NoFlush \/ (flush[q] # NoFlush /\ flush'[q].user = flush[q].user)

\* Taking a token, the one held or the cookie's.
LEMMA TakesTokenKept ==
    ASSUME OfflineInv, NEW t \in Tabs, NEW new \in Token, NEW busy \in BOOLEAN,
           TakesToken(t, new, busy),
           new = token[t] \/ new = Refreshed,
           flush[t] # NoFlush => busy,
           cookie' = cookie, FlushesStay
    PROVE  /\ token' \in [Tabs -> Token] /\ overtook' \subseteq Tabs
           /\ TokensAreSomebodys' /\ NotOvertaken'
<1> USE DEF OfflineInv, OfflineTypeOK
<1>1. /\ Refreshed \in Token /\ Refreshed.of = cookie /\ (cookie = NoUser => Refreshed = NoToken)
      /\ NoToken.of = NoUser
  BY RefreshedFits, NoTokenFits
<1>2. /\ token' = [token EXCEPT ![t] = new]
      /\ overtook' = IF new = token[t] \/ busy THEN overtook ELSE overtook \ {t}
  BY DEF TakesToken
<1>3. \A q \in Tabs : token'[q] = IF q = t THEN new ELSE token[q]
  BY <1>2
<1>4. token' \in [Tabs -> Token] /\ overtook' \subseteq Tabs
  BY <1>2
<1>5. TokensAreSomebodys'
  BY <1>1, <1>3 DEF TokensAreSomebodys
<1>6. NotOvertaken'
  <2> SUFFICES ASSUME NEW q \in Tabs \ overtook'
               PROVE  /\ token'[q] # NoToken => cookie \in {token'[q].of, NoUser}
                      /\ flush'[q] # NoFlush =>
                            /\ cookie \in {flush'[q].user, NoUser}
                            /\ token'[q].valid = TRUE => token'[q].of = flush'[q].user
    BY DEF NotOvertaken
  <2>1. CASE q # t \/ new = token[t]
    <3>1. q \notin overtook /\ token'[q] = token[q] BY <1>2, <1>3, <2>1
    <3> QED BY <3>1 DEF NotOvertaken, FlushesStay
  <2>2. CASE q = t /\ new # token[t] /\ ~busy
    <3>1. flush'[t] = NoFlush BY <2>2 DEF FlushesStay
    <3> QED BY <1>1, <1>3, <2>2, <3>1
  <2>3. CASE q = t /\ new # token[t] /\ busy
    <3>1. t \notin overtook BY <1>2, <2>3
    <3>2. new = Refreshed /\ token'[t] = Refreshed BY <1>3, <2>3
    <3>3. flush'[t] # NoFlush => cookie \in {flush'[t].user, NoUser}
      BY <3>1 DEF NotOvertaken, FlushesStay
    <3>4. cookie = NoUser => token'[t].valid # TRUE
      BY <1>1, <3>2, NoTokenFits
    <3> QED BY <1>1, <2>3, <3>2, <3>3, <3>4
  <2> QED BY <2>1, <2>2, <2>3
<1> QED BY <1>4, <1>5, <1>6

\* What a page takes a token to be, after restoreSession.
LEMMA RestoredFits ==
    ASSUME OfflineInv, NEW t \in Tabs
    PROVE  Restored(t) \in Token /\ (Restored(t) = token[t] \/ Restored(t) = Refreshed)
  BY RefreshedFits DEF OfflineInv, OfflineTypeOK, Restored

-----------------------------------------------------------------------------
(* The session steps. *)

LEMMA SignInKept ==
    ASSUME OfflineInv, NEW t \in Tabs, NEW u \in Phones, SignIn(t, u)
    PROVE  OfflineInv'
<1> USE OfflineAssumption DEF OfflineInv, OfflineTypeOK
<1> DEFINE new == [of |-> u, valid |-> TRUE]
           more == counts.signIns + 1
<1>1. new \in Token /\ new.of = u /\ u # NoUser /\ u \in Users
  BY DEF Token, Users
<1>2. more \in 0..MaxSignIns /\ counts' = [counts EXCEPT !.signIns = more]
  BY DEF SignIn
<1> HIDE DEF new, more
<1>3. counts' \in [scans : 0..MaxScans, signIns : 0..MaxSignIns, drops : 0..MaxDrops] /\ counts'.scans = counts.scans
  BY <1>2
<1>4. /\ cookie' = u /\ lastSession' = u
      /\ token' = [token EXCEPT ![t] = new]
      /\ overtook' = IF flush[t] = NoFlush THEN Tabs \ {t} ELSE Tabs
      /\ UNCHANGED <<online, queue, whose, settled, sentFor, page, flush>>
  BY DEF SignIn, new
<1>5. OfflineTypeOK'
  BY <1>1, <1>3, <1>4
<1>6. NoScanForgotten' /\ FlushesFit'
  BY <1>3, <1>4 DEF NoScanForgotten, FlushesFit
<1>7. TokensAreSomebodys'
  BY <1>1, <1>4 DEF TokensAreSomebodys
<1>8. NotOvertaken'
  BY <1>1, <1>4 DEF NotOvertaken
<1> QED BY <1>5, <1>6, <1>7, <1>8

LEMMA LogOutKept ==
    ASSUME OfflineInv, NEW t \in Tabs, LogOut(t)
    PROVE  OfflineInv'
<1> USE DEF OfflineInv, OfflineTypeOK
<1>1. /\ cookie' = NoUser /\ lastSession' = NoUser
      /\ token' = [token EXCEPT ![t] = NoToken]
      /\ queue' = {} /\ settled' = settled \cup queue
      /\ page' = [page EXCEPT ![t] = "away"]
      /\ UNCHANGED <<online, overtook, whose, sentFor, flush, counts>>
  BY DEF LogOut
<1>2. OfflineTypeOK'
  BY <1>1, NoTokenFits DEF Users
<1>3. NoScanForgotten' /\ FlushesFit'
  BY <1>1 DEF NoScanForgotten, FlushesFit
<1>4. \A q \in Tabs : token'[q] = IF q = t THEN NoToken ELSE token[q]
  BY <1>1
<1>5. TokensAreSomebodys'
  BY <1>4 DEF TokensAreSomebodys
<1>6. NotOvertaken'
  BY <1>1, <1>4, NoTokenFits DEF NotOvertaken
<1> QED BY <1>2, <1>3, <1>5, <1>6

LEMMA SignalKept ==
    ASSUME OfflineInv, SignalChanges
    PROVE  OfflineInv'
<1> USE OfflineAssumption DEF OfflineInv, OfflineTypeOK
<1> DEFINE dropped == IF online THEN counts.drops + 1 ELSE counts.drops
<1>1. dropped \in 0..MaxDrops BY DEF SignalChanges
<1>2. counts' = [counts EXCEPT !.drops = dropped] BY DEF SignalChanges
<1> HIDE DEF dropped
<1>3. counts' \in [scans : 0..MaxScans, signIns : 0..MaxSignIns, drops : 0..MaxDrops] /\ counts'.scans = counts.scans
  BY <1>1, <1>2
<1>4. online' \in BOOLEAN BY Zenon DEF SignalChanges
<1>5. UNCHANGED <<cookie, token, overtook, lastSession, queue, whose, settled, sentFor, page, flush>>
  BY DEF SignalChanges, signInVars, deviceVars
<1> QED BY <1>3, <1>4, <1>5 DEF NoScanForgotten, FlushesFit, TokensAreSomebodys, NotOvertaken

\* A token runs out, or a tab is reloaded.
LEMMA DeviceStepsKept ==
    ASSUME OfflineInv, NEW t \in Tabs, TokenExpires(t) \/ Reload(t)
    PROVE  OfflineInv'
<1> USE OfflineAssumption DEF OfflineInv, OfflineTypeOK
<1>1. CASE TokenExpires(t)
  <2> DEFINE stale == [token[t] EXCEPT !.valid = FALSE]
  <2>1. /\ token' = [token EXCEPT ![t] = stale]
        /\ UNCHANGED <<online, cookie, overtook, lastSession, queue, whose, settled, sentFor, page, flush, counts>>
    BY <1>1 DEF TokenExpires, deviceVars
  <2>2. stale \in Token /\ stale.of = token[t].of /\ stale.valid = FALSE
    BY DEF Token
  <2>3. token[t] # NoToken
    BY <1>1 DEF TokenExpires, NoToken
  <2> HIDE DEF stale
  <2>4. \A q \in Tabs : token'[q] = IF q = t THEN stale ELSE token[q]
    BY <2>1
  <2>5. OfflineTypeOK' BY <2>1, <2>2
  <2>6. TokensAreSomebodys' BY <2>2, <2>3, <2>4 DEF TokensAreSomebodys
  <2>7. NotOvertaken' BY <2>1, <2>2, <2>3, <2>4 DEF NotOvertaken
  <2> QED BY <2>1, <2>5, <2>6, <2>7 DEF NoScanForgotten, FlushesFit
<1>2. CASE Reload(t)
  <2>1. /\ token' = [token EXCEPT ![t] = NoToken] /\ overtook' = overtook \ {t}
        /\ page' = [page EXCEPT ![t] = "away"] /\ flush' = [flush EXCEPT ![t] = NoFlush]
        /\ UNCHANGED <<online, cookie, lastSession, queue, whose, settled, sentFor, counts>>
    BY <1>2 DEF Reload, deviceVars
  <2>2. \A q \in Tabs : /\ token'[q] = IF q = t THEN NoToken ELSE token[q]
                       /\ flush'[q] = IF q = t THEN NoFlush ELSE flush[q]
    BY <2>1
  <2>3. OfflineTypeOK' BY <2>1, <2>2, NoTokenFits, NoFlushFits
  <2>4. FlushesFit' BY <2>2, NoFlushFits DEF FlushesFit
  <2>5. TokensAreSomebodys' BY <2>2 DEF TokensAreSomebodys
  <2>6. NotOvertaken' BY <2>1, <2>2, NoTokenFits, NoFlushFits DEF NotOvertaken
  <2> QED BY <2>1, <2>3, <2>4, <2>5, <2>6 DEF NoScanForgotten
<1> QED BY <1>1, <1>2

-----------------------------------------------------------------------------
(* The check-in page. *)

LEMMA QueueScanKept ==
    ASSUME OfflineInv, NEW t \in Tabs, QueueScan(t), flush' = flush
    PROVE  /\ counts' \in [scans : 0..MaxScans, signIns : 0..MaxSignIns, drops : 0..MaxDrops]
           /\ queue' \subseteq 1..counts'.scans /\ settled' \subseteq 1..counts'.scans
           /\ whose' \in [Scans -> Users] /\ lastSession' \in Users
           /\ page' \in [Tabs -> {"away", "ready", "sending"}]
           /\ \A q \in Tabs : flush'[q].todo \subseteq 1..counts'.scans
           /\ NoScanForgotten'
<1> USE OfflineAssumption DEF OfflineInv, OfflineTypeOK
<1> DEFINE more == counts.scans + 1
<1>1. more \in 1..MaxScans /\ counts' = [counts EXCEPT !.scans = more]
  BY DEF QueueScan
<1>2. 1..more = (1..counts.scans) \cup {more} /\ (1..counts.scans) \subseteq 1..more
  <2>1. counts.scans \in Nat OBVIOUS
  <2> QED BY <2>1
<1> HIDE DEF more
<1>3. counts' \in [scans : 0..MaxScans, signIns : 0..MaxSignIns, drops : 0..MaxDrops] /\ counts'.scans = more
  BY <1>1
<1>4. /\ queue' = queue \cup {more} /\ settled' = settled
      /\ whose' = [whose EXCEPT ![more] = lastSession] /\ lastSession' = lastSession
      /\ page' = [page EXCEPT ![t] = "away"]
  BY <1>3 DEF QueueScan
<1>5. queue' \cup settled' = 1..counts'.scans
  BY <1>2, <1>3, <1>4 DEF NoScanForgotten
<1>6. whose' \in [Scans -> Users]
  BY <1>1, <1>4 DEF Scans
<1>7. \A q \in Tabs : flush'[q].todo \subseteq 1..counts'.scans
  BY <1>2, <1>3
<1> QED BY <1>2, <1>3, <1>4, <1>5, <1>6, <1>7 DEF NoScanForgotten

LEMMA PageStepsKept ==
    ASSUME OfflineInv, NEW t \in Tabs, OpenCheckIn(t) \/ ScanCode(t) \/ SendScan(t)
    PROVE  OfflineInv'
<1> USE DEF OfflineInv, OfflineTypeOK
<1>1. /\ flush' = flush /\ cookie' = cookie /\ online' = online /\ sentFor' = sentFor
  BY DEF OpenCheckIn, ScanCode, SendScan, signInVars
<1>2. FlushesStay BY <1>1, NoFlushFits DEF FlushesStay
<1>3. FlushesFit' BY <1>1 DEF FlushesFit
<1>4. CASE OpenCheckIn(t)
  <2>1. TakesToken(t, Restored(t), flush[t] # NoFlush) BY <1>4 DEF OpenCheckIn
  <2>2. token' \in [Tabs -> Token] /\ overtook' \subseteq Tabs /\ TokensAreSomebodys' /\ NotOvertaken'
    BY <1>1, <1>2, <2>1, RestoredFits, TakesTokenKept
  <2>3. Restored(t).of \in Users BY RestoredFits DEF Token
  <2>4. lastSession' \in Users BY <1>4, <2>3 DEF OpenCheckIn
  <2>5. page' \in [Tabs -> {"away", "ready", "sending"}] /\ UNCHANGED <<queue, whose, settled, counts>>
    BY <1>4 DEF OpenCheckIn
  <2> QED BY <1>1, <1>3, <2>2, <2>4, <2>5 DEF NoScanForgotten
<1>5. CASE ScanCode(t)
  <2>1. UNCHANGED <<token, overtook>> BY <1>5 DEF ScanCode, signInVars
  <2>2. TokensAreSomebodys' /\ NotOvertaken' BY <1>1, <2>1 DEF TokensAreSomebodys, NotOvertaken
  <2>3. CASE QueueScan(t) BY <1>1, <1>3, <2>1, <2>2, <2>3, QueueScanKept
  <2>4. CASE page' = [page EXCEPT ![t] = "sending"] /\ UNCHANGED <<deviceVars, counts>>
    BY <1>1, <1>3, <2>1, <2>2, <2>4 DEF deviceVars, NoScanForgotten
  <2> QED BY <1>5, <2>3, <2>4 DEF ScanCode
<1>6. CASE SendScan(t)
  <2> DEFINE new == IF online /\ ~token[t].valid THEN Refreshed ELSE token[t]
  <2>1. TakesToken(t, new, flush[t] # NoFlush) BY <1>6 DEF SendScan
  <2>2. new \in Token /\ (new = token[t] \/ new = Refreshed) BY RefreshedFits
  <2>3. token' \in [Tabs -> Token] /\ overtook' \subseteq Tabs /\ TokensAreSomebodys' /\ NotOvertaken'
    BY <1>1, <1>2, <2>1, <2>2, TakesTokenKept
  <2>4. CASE QueueScan(t) BY <1>1, <1>3, <2>3, <2>4, QueueScanKept
  <2>5. CASE \E next \in {"away", "sending"} :
                page' = [page EXCEPT ![t] = next] /\ UNCHANGED <<deviceVars, counts>>
    BY <1>1, <1>3, <2>3, <2>5 DEF deviceVars, NoScanForgotten
  <2> QED BY <1>6, <2>4, <2>5 DEF SendScan
<1> QED BY <1>4, <1>5, <1>6

-----------------------------------------------------------------------------
(* Sending the queue. *)

LEMMA ListQueueKept ==
    ASSUME OfflineInv, NEW t \in Tabs, ListQueue(t)
    PROVE  OfflineInv'
<1> USE DEF OfflineInv, OfflineTypeOK
<1> DEFINE new == Restored(t)
           started == [at |-> "next", user |-> new.of, todo |-> queue]
<1>1. new \in Token /\ (new = token[t] \/ new = Refreshed) /\ new # NoToken
  BY RestoredFits DEF ListQueue
<1>2. /\ flush[t] = NoFlush /\ flush' = [flush EXCEPT ![t] = started]
      /\ token' = [token EXCEPT ![t] = new]
      /\ overtook' = IF new = token[t] THEN overtook ELSE overtook \ {t}
      /\ UNCHANGED <<online, cookie, lastSession, queue, whose, settled, sentFor, page, counts>>
  BY DEF ListQueue, TakesToken, deviceVars
<1>3. counts.scans \in 0..MaxScans OBVIOUS
<1>4. started \in Flush /\ started.at = "next" /\ started.user = new.of /\ started.todo = queue
  BY <1>1, <1>3, OfflineAssumption DEF Flush, Token, Scans
<1>5. new = Refreshed => new.of = cookie
  BY RefreshedFits
<1> HIDE DEF new, started
<1>6. \A q \in Tabs : /\ flush'[q] = IF q = t THEN started ELSE flush[q]
                     /\ token'[q] = IF q = t THEN new ELSE token[q]
  BY <1>2
<1>7. OfflineTypeOK'
  BY <1>1, <1>2, <1>4, <1>6
<1>8. FlushesFit'
  BY <1>4, <1>6 DEF FlushesFit
<1>9. TokensAreSomebodys'
  <2>1. new.of = NoUser => new = NoToken
    <3>1. CASE new = token[t] BY <3>1 DEF TokensAreSomebodys
    <3>2. CASE new = Refreshed BY <3>2, RefreshedFits
    <3> QED BY <1>1, <3>1, <3>2
  <2> QED BY <2>1, <1>6 DEF TokensAreSomebodys
<1>10. NotOvertaken'
  <2>1. \A q \in Tabs \ overtook' : q # t =>
            token'[q] = token[q] /\ flush'[q] = flush[q] /\ q \notin overtook
    BY <1>2, <1>6
  <2>2. t \notin overtook' => cookie \in {new.of, NoUser}
    <3>1. CASE new = token[t] BY <3>1, <1>1, <1>2 DEF NotOvertaken
    <3>2. CASE new = Refreshed BY <3>2, <1>5
    <3> QED BY <1>1, <3>1, <3>2
  <2> QED BY <1>2, <1>4, <1>6, <2>1, <2>2 DEF NotOvertaken
<1> QED BY <1>2, <1>7, <1>8, <1>9, <1>10 DEF NoScanForgotten

\* A scan dropped, or answered, leaves the queue and counts as settled.
LEMMA LeavesQueueKept ==
    ASSUME OfflineInv, NEW t \in Tabs, DropScan(t) \/ TakeOff(t)
    PROVE  OfflineInv'
<1> USE DEF OfflineInv, OfflineTypeOK
<1> DEFINE s == NextScan(t)
           rest == flush[t].todo \ {s}
           going == IF flush[t].at = "next" THEN [flush[t] EXCEPT !.todo = rest]
                                            ELSE [flush[t] EXCEPT !.at = "next", !.todo = rest]
<1>1. flush[t].todo # {} /\ flush[t].at # "none"
  BY DEF DropScan, TakeOff, FlushesFit
<1>2. s \in flush[t].todo /\ s \in 1..counts.scans
  BY <1>1, NextIsListed
<1>3. flush[t] \in Flush /\ flush[t] # NoFlush
  BY <1>1, NoFlushFits
<1>4. rest \in SUBSET Scans /\ rest \subseteq 1..counts.scans
  BY <1>3 DEF Flush
<1>5. going \in Flush /\ going.at = "next" /\ going.user = flush[t].user /\ going.todo = rest
  <2>1. CASE flush[t].at = "next"
    <3>1. going = [flush[t] EXCEPT !.todo = rest] BY <2>1
    <3> QED BY <1>3, <1>4, <2>1, <3>1 DEF Flush
  <2>2. CASE flush[t].at # "next"
    <3>1. going = [flush[t] EXCEPT !.at = "next", !.todo = rest] BY <2>2
    <3> HIDE DEF going, rest
    <3> QED BY <1>3, <1>4, <3>1 DEF Flush
  <2> QED BY <2>1, <2>2
<1>6. /\ queue' = queue \ {s} /\ settled' = settled \cup {s}
      /\ UNCHANGED <<online, cookie, token, overtook, lastSession, whose, sentFor, page, counts>>
  BY DEF DropScan, TakeOff, QueueAfter, signInVars
<1>7. flush' = [flush EXCEPT ![t] = going]
  <2>1. CASE DropScan(t)
    <3>1. flush' = [flush EXCEPT ![t] = [flush[t] EXCEPT !.todo = rest]] /\ flush[t].at = "next"
      BY <2>1 DEF DropScan
    <3> QED BY <3>1
  <2>2. CASE TakeOff(t)
    <3>1. flush' = [flush EXCEPT ![t].at = "next", ![t].todo = rest] /\ flush[t].at = "answered"
      BY <2>2 DEF TakeOff
    <3>2. flush' = [flush EXCEPT ![t] = [flush[t] EXCEPT !.at = "next", !.todo = rest]]
      BY <3>1, <1>3
    <3> QED BY <3>1, <3>2
  <2> QED BY <2>1, <2>2
<1> HIDE DEF going, s, rest
<1>8. \A q \in Tabs : flush'[q] = IF q = t THEN going ELSE flush[q]
  BY <1>7
<1>9. OfflineTypeOK'
  BY <1>2, <1>4, <1>5, <1>6, <1>7, <1>8
<1>10. NoScanForgotten'
  BY <1>2, <1>6 DEF NoScanForgotten
<1>11. FlushesFit'
  BY <1>5, <1>8 DEF FlushesFit
<1>12. TokensAreSomebodys' /\ NotOvertaken'
  BY <1>3, <1>5, <1>6, <1>8 DEF TokensAreSomebodys, NotOvertaken
<1> QED BY <1>9, <1>10, <1>11, <1>12

\* The bearer of a request, and what it is sent for: the heart of it.
LEMMA SendQueuedKept ==
    ASSUME OfflineInv, NEW t \in Tabs, SendQueued(t)
    PROVE  /\ OfflineInv'
           /\ t \notin overtook => \A s \in Scans : sentFor'[s] \subseteq sentFor[s] \cup {whose[s]}
<1> USE DEF OfflineInv, OfflineTypeOK
<1> DEFINE bearer == IF token[t].valid THEN token[t] ELSE Refreshed
           s == NextScan(t)
           answered == [flush[t] EXCEPT !.at = "answered"]
           more == sentFor[s] \cup {bearer.of}
<1>1. /\ flush[t].at = "next" /\ flush[t].todo # {} /\ whose[s] = flush[t].user
      /\ TakesToken(t, bearer, TRUE)
      /\ UNCHANGED <<online, cookie, lastSession, queue, whose, settled, page, counts>>
  BY DEF SendQueued, MayBeSent, deviceVars
<1>2. \/ bearer = NoToken /\ flush' = [flush EXCEPT ![t] = NoFlush] /\ sentFor' = sentFor
      \/ /\ bearer # NoToken
         /\ sentFor' = [sentFor EXCEPT ![s] = more]
         /\ \/ flush' = [flush EXCEPT ![t] = answered]
            \/ flush' = [flush EXCEPT ![t] = NoFlush]
  BY DEF SendQueued
<1>3. flush[t] # NoFlush /\ flush[t] \in Flush
  BY <1>1, NoFlushFits
<1>4. s \in flush[t].todo /\ s \in 1..counts.scans
  BY <1>1, NextIsListed
<1>5. s \in Scans
  <2>1. counts.scans \in 0..MaxScans OBVIOUS
  <2> QED BY <1>4, <2>1, OfflineAssumption DEF Scans
<1>6. bearer \in Token /\ (bearer = token[t] \/ bearer = Refreshed)
  BY RefreshedFits
<1>7. bearer # NoToken => bearer.of \in Phones
  <2>1. bearer # NoToken => bearer.of # NoUser
    <3>1. CASE bearer = token[t] BY <3>1 DEF TokensAreSomebodys
    <3>2. CASE bearer = Refreshed BY <3>2, RefreshedFits
    <3> QED BY <1>6, <3>1, <3>2
  <2> QED BY <1>6, <2>1 DEF Token, Users
<1>8. answered \in Flush /\ answered.at = "answered" /\ answered.user = flush[t].user
      /\ answered.todo = flush[t].todo
  BY <1>3 DEF Flush
<1>9. t \notin overtook /\ bearer # NoToken => bearer.of = whose[s]
  <2> SUFFICES ASSUME t \notin overtook, bearer # NoToken PROVE bearer.of = flush[t].user
    BY <1>1
  <2>1. CASE token[t].valid
    <3>1. token[t].valid = TRUE BY <2>1 DEF Token
    <3> QED BY <3>1, <1>3 DEF NotOvertaken
  <2>2. CASE ~token[t].valid
    <3>1. bearer.of = cookie /\ cookie # NoUser BY <2>2, RefreshedFits
    <3> QED BY <1>3, <3>1 DEF NotOvertaken
  <2> QED BY <2>1, <2>2
<1> HIDE DEF answered, bearer, s, more
<1>10. FlushesStay
  BY <1>2, <1>3, <1>8 DEF FlushesStay
<1>11. token' \in [Tabs -> Token] /\ overtook' \subseteq Tabs /\ TokensAreSomebodys' /\ NotOvertaken'
  BY <1>1, <1>6, <1>10, TakesTokenKept
<1>12. sentFor' \in [Scans -> SUBSET Phones]
  BY <1>2, <1>5, <1>7 DEF more
<1>13. flush' \in [Tabs -> Flush] /\ \A q \in Tabs : flush'[q].todo \subseteq 1..counts.scans
  BY <1>2, <1>8, NoFlushFits
<1>14. OfflineTypeOK'
  BY <1>1, <1>11, <1>12, <1>13
<1>15. FlushesFit'
  BY <1>1, <1>2, <1>8, NoFlushFits DEF FlushesFit
<1>16. t \notin overtook => \A r \in Scans : sentFor'[r] \subseteq sentFor[r] \cup {whose[r]}
  BY <1>2, <1>5, <1>9 DEF more
<1> QED BY <1>1, <1>11, <1>14, <1>15, <1>16 DEF NoScanForgotten

LEMMA EndFlushKept ==
    ASSUME OfflineInv, NEW t \in Tabs, EndFlush(t)
    PROVE  OfflineInv'
<1> USE DEF OfflineInv, OfflineTypeOK
<1>1. /\ flush' = [flush EXCEPT ![t] = NoFlush]
      /\ UNCHANGED <<online, cookie, token, overtook, lastSession, queue, whose, settled, sentFor, page, counts>>
  BY DEF EndFlush, signInVars, deviceVars
<1>2. \A q \in Tabs : flush'[q] = IF q = t THEN NoFlush ELSE flush[q]
  BY <1>1
<1>3. OfflineTypeOK' /\ FlushesFit'
  BY <1>1, <1>2, NoFlushFits DEF FlushesFit
<1>4. TokensAreSomebodys' /\ NotOvertaken'
  BY <1>1, <1>2 DEF TokensAreSomebodys, NotOvertaken
<1> QED BY <1>1, <1>3, <1>4 DEF NoScanForgotten

-----------------------------------------------------------------------------
(* Together. *)

LEMMA OfflineInvInitially == OfflineInit => OfflineInv
<1> SUFFICES ASSUME OfflineInit PROVE OfflineInv OBVIOUS
<1> USE OfflineAssumption DEF OfflineInit
<1>1. OfflineTypeOK
  <2>1. online \in BOOLEAN BY Zenon
  <2>2. counts \in [scans : 0..MaxScans, signIns : 0..MaxSignIns, drops : 0..MaxDrops]
    OBVIOUS
  <2>3. \A t \in Tabs : flush[t].todo \subseteq 1..counts.scans BY NoFlushFits
  <2>4. token \in [Tabs -> Token] /\ flush \in [Tabs -> Flush] BY NoTokenFits, NoFlushFits
  <2> QED BY <2>1, <2>2, <2>3, <2>4 DEF OfflineTypeOK, Users
<1>2. NoScanForgotten BY DEF NoScanForgotten
<1>3. FlushesFit BY NoFlushFits DEF FlushesFit
<1>4. TokensAreSomebodys /\ NotOvertaken BY NoTokenFits DEF TokensAreSomebodys, NotOvertaken
<1> QED BY <1>1, <1>2, <1>3, <1>4 DEF OfflineInv

LEMMA OfflineStep == OfflineInv /\ [OfflineNext]_offlineVars => OfflineInv'
<1> SUFFICES ASSUME OfflineInv, [OfflineNext]_offlineVars PROVE OfflineInv' OBVIOUS
<1>1. CASE SignalChanges
  BY <1>1, SignalKept
<1>2. ASSUME NEW t \in Tabs, NEW u \in Phones, SignIn(t, u) PROVE OfflineInv'
  BY <1>2, SignInKept
<1>3. ASSUME NEW t \in Tabs, LogOut(t) \/ TokenExpires(t) \/ Reload(t) \/ OpenCheckIn(t) \/ ScanCode(t) \/ SendScan(t)
      PROVE  OfflineInv'
  BY <1>3, LogOutKept, DeviceStepsKept, PageStepsKept
<1>4. ASSUME NEW t \in Tabs, ListQueue(t) \/ DropScan(t) \/ SendQueued(t) \/ TakeOff(t) \/ EndFlush(t)
      PROVE  OfflineInv'
  BY <1>4, ListQueueKept, LeavesQueueKept, SendQueuedKept, EndFlushKept
<1>5. CASE UNCHANGED offlineVars
  BY <1>5 DEF offlineVars, signInVars, deviceVars, OfflineInv, OfflineTypeOK, NoScanForgotten, FlushesFit,
              TokensAreSomebodys, NotOvertaken
<1> QED BY <1>1, <1>2, <1>3, <1>4, <1>5 DEF OfflineNext

LEMMA OfflineInductive == OfflineSpec => []OfflineInv
  BY OfflineInvInitially, OfflineStep, PTL DEF OfflineSpec

\* Every variable has its type, and a flush only handles scans that were made
\* (flushCheckIns).
THEOREM OfflineTypeCorrect == OfflineSpec => []OfflineTypeOK
  BY OfflineInductive, PTL DEF OfflineInv

\* However many tabs send the queue while scans are added to it, none is lost
\* without an answer (queueCheckIn, flushCheckIns, forgetDevice).
THEOREM EveryScanAccountedFor == OfflineSpec => []NoScanForgotten
  BY OfflineInductive, PTL DEF OfflineInv

\* Only past a sign-in elsewhere on the phone does a scan go out as somebody
\* other than who made it (flushCheckIns, authFetch).
THEOREM OnlySignInsMislead == OfflineSpec => SentAsAnotherOnlyAfterSignIn
<1>1. OfflineInv /\ [OfflineNext]_offlineVars =>
        [\A t \in Tabs : SendQueued(t) /\ t \notin overtook =>
            \A s \in Scans : sentFor'[s] \subseteq sentFor[s] \cup {whose[s]}]_offlineVars
  BY SendQueuedKept
<1> QED BY <1>1, OfflineInductive, PTL DEF OfflineSpec, SentAsAnotherOnlyAfterSignIn

-----------------------------------------------------------------------------
(***************************************************************************)
(* Why a candidate has one intro that can be played, and why its words go  *)
(* when it goes, for every number of recordings, attempts and deaths.      *)
(*                                                                         *)
(* One current intro: a completion that writes has seen every current row, *)
(* or has met the completion that wrote it.  Playable: storage only loses  *)
(* what the purge has found, or what is too old to be completed any more.  *)
(* The words: the embedding is of a current intro, or a new embedding is   *)
(* asked for, or some recording has no transcript yet and will ask.        *)
(***************************************************************************)

Purge == [of : 0..MaxIntros, was : {"none", "aged", "replaced"}, objectGone : BOOLEAN]

\* Nothing is known of an upload that was not started.
NotStartedYet ==
    \A i \in Intros : i > made => stored[i] = "none" /\ upload[i] = "none" /\ completing[i] = "none"

\* A completion that writes sees the current rows, or met whoever writes them.
WritersSeeOrMet ==
    \A i \in Intros : completing[i] = "writing" =>
        /\ \A j \in Current : i = j \/ j \in sees[i] \/ i \in met \/ j \in met
        /\ \A j \in Intros : completing[j] = "writing" => i = j \/ (i \in met /\ j \in met)

\* A recording that may still get a row is there, and not yet old.
AwaitedIsStored ==
    \A i \in Intros :
        /\ completing[i] \in {"checked", "writing"} /\ intro[i] = "none" => stored[i] # "none"
        /\ stored[i] = "old" => upload[i] = "expired" /\ completing[i] = "none"

\* The purge is about a row that will not be current again.
PurgeIsOfTheAged ==
    purging.of # 0 =>
        /\ intro[purging.of] \in {"aged", "replaced", "gone"}
        /\ purging.was = "replaced" => intro[purging.of] \in {"replaced", "gone"}

\* A recording is transcribed once it has a row, and only so often.
JobsFit ==
    \A i \in Intros :
        /\ intro[i] = "none" => recorded[i] = "UPLOADED" /\ voiceJob[i] = "none" /\ completing[i] # "committed"
        /\ completing[i] = "committed" => voiceJob[i] = "none"
        /\ voiceJob[i] = "none" => tries[i] = 0
        /\ voiceJob[i] \in {"queued", "running"} => tries[i] < VoiceAttempts

\* Whoever's words are embedded is current, or the embedding will be made anew.
EmbeddedIsCurrent ==
    embedded # 0 =>
        \/ embedJob \/ voiceDeaths > 0
        \/ embedded \in Current
        \/ \E i \in Intros : i # embedded /\ intro[i] # "none" /\ recorded[i] # "DONE"

VoiceInv ==
    /\ VoiceTypeOK
    /\ NotStartedYet
    /\ WritersSeeOrMet
    /\ OneCurrentIntro
    /\ AwaitedIsStored
    /\ PurgeIsOfTheAged
    /\ JobsFit
    /\ EmbeddedIsCurrent

-----------------------------------------------------------------------------
(* Types. *)

\* The newest transcript is one of the transcripts.
LEMMA NewestTranscript ==
    ASSUME VoiceTypeOK, TranscriptFor # {}
    PROVE  (CHOOSE i \in TranscriptFor : \A j \in TranscriptFor : j <= i) \in TranscriptFor
<1>1. TranscriptFor \in SUBSET (0..MaxIntros)
  BY DEF TranscriptFor, Current, Intros
<1>2. \E i \in TranscriptFor : \A j \in TranscriptFor : j <= i
  BY <1>1, GreatestOf, VoiceAssumption
<1> QED BY <1>2

LEMMA EmbedPicksCurrent ==
    ASSUME VoiceTypeOK, Embed
    PROVE  embedded' = 0 \/ (embedded' \in Current /\ embedded' \in Intros)
<1>1. CASE TranscriptFor = {} BY <1>1 DEF Embed
<1>2. CASE TranscriptFor # {} BY <1>2, NewestTranscript DEF Embed, TranscriptFor, Current
<1> QED BY <1>1, <1>2

\* Uploading and completing.
LEMMA CompletingTyped ==
    ASSUME VoiceInv, NEW i \in Intros,
           \/ StartUpload
           \/ StoreRecording(i) \/ UploadExpires(i) \/ CheckUpload(i) \/ ReplaceOthers(i)
           \/ CommitIntro(i) \/ QueueTranscription(i) \/ CompletionDies(i)
    PROVE  VoiceTypeOK'
<1> USE VoiceAssumption DEF VoiceInv, VoiceTypeOK, At, Intros
<1>1. CASE StartUpload BY <1>1 DEF StartUpload
<1>2. CASE StoreRecording(i) BY <1>2 DEF StoreRecording
<1>3. CASE UploadExpires(i) BY <1>3 DEF UploadExpires
<1>4. CASE CheckUpload(i) BY <1>4 DEF CheckUpload
<1>5. CASE ReplaceOthers(i)
  <2>1. ToReplace(i) \in SUBSET Intros BY DEF ToReplace, Current
  <2>2. met' \subseteq Intros BY <1>5 DEF ReplaceOthers
  <2> QED BY <1>5, <2>1, <2>2 DEF ReplaceOthers
<1>6. CASE CommitIntro(i)
  <2>1. intro' \in [Intros -> {"none", "current", "aged", "replaced", "gone"}]
    BY <1>6 DEF CommitIntro
  <2> QED BY <1>6, <2>1 DEF CommitIntro
<1>7. CASE QueueTranscription(i) BY <1>7 DEF QueueTranscription
<1>8. CASE CompletionDies(i) BY <1>8 DEF CompletionDies
<1> QED BY <1>1, <1>2, <1>3, <1>4, <1>5, <1>6, <1>7, <1>8

\* Transcribing and embedding.
LEMMA TranscribingTyped ==
    ASSUME VoiceInv, NEW i \in Intros,
           \/ Embed
           \/ TakeRecording(i) \/ Transcribe(i) \/ TranscriptionFails(i) \/ TranscriberDies(i)
    PROVE  VoiceTypeOK'
<1> USE VoiceAssumption DEF VoiceInv, VoiceTypeOK, At
<1>1. CASE Embed
  <2>1. embedded' \in 0..MaxIntros BY EmbedPicksCurrent, <1>1 DEF Intros
  <2>2. embedJob' \in BOOLEAN BY <1>1, Zenon DEF Embed
  <2> QED BY <1>1, <2>1, <2>2 DEF Embed
<1>2. CASE TakeRecording(i) BY <1>2 DEF TakeRecording
<1>3. CASE Transcribe(i)
  <2>1. embedJob' \in BOOLEAN BY <1>3, Zenon DEF Transcribe
  <2>2. recorded' \in [Intros -> {"UPLOADED", "PROCESSING", "DONE", "FAILED"}] BY <1>3 DEF Transcribe
  <2> QED BY <1>3, <2>1, <2>2 DEF Transcribe
<1>4. CASE TranscriptionFails(i)
  <2> DEFINE once == tries[i] + 1
  <2>1. once \in 0..VoiceAttempts BY <1>4 DEF TranscriptionFails, JobsFit
  <2>2. tries' = [tries EXCEPT ![i] = once] BY <1>4 DEF TranscriptionFails
  <2> HIDE DEF once
  <2>3. tries' \in [Intros -> 0..VoiceAttempts] BY <2>1, <2>2
  <2>4. voiceJob' \in [Intros -> {"none", "queued", "running", "over"}] BY <1>4 DEF TranscriptionFails
  <2>5. recorded' \in [Intros -> {"UPLOADED", "PROCESSING", "DONE", "FAILED"}] BY <1>4 DEF TranscriptionFails
  <2> QED BY <1>4, <2>3, <2>4, <2>5 DEF TranscriptionFails
<1>5. CASE TranscriberDies(i) BY <1>5 DEF TranscriberDies
<1> QED BY <1>1, <1>2, <1>3, <1>4, <1>5

\* The nightly purge.
LEMMA PurgingTyped ==
    ASSUME VoiceInv, NEW i \in Intros,
           \/ PurgeObject \/ PurgeRow \/ PurgeDies
           \/ AgeIntro(i) \/ PurgeFinds(i) \/ RecordingAges(i) \/ RemoveOrphan(i)
    PROVE  VoiceTypeOK'
<1> USE VoiceAssumption DEF VoiceInv, VoiceTypeOK, At
<1>0. NotPurging \in Purge /\ purging \in Purge BY DEF NotPurging, Purge
<1>1. CASE PurgeObject
  <2>1. purging' \in Purge BY <1>0, <1>1 DEF PurgeObject, Purge
  <2> QED BY <1>1, <2>1 DEF PurgeObject, Purge
<1>2. CASE PurgeRow
  <2>1. embedJob' \in BOOLEAN BY <1>2, Zenon DEF PurgeRow, ReembedAfter
  <2> QED BY <1>0, <1>2, <2>1 DEF PurgeRow, Purge
<1>3. CASE PurgeDies BY <1>0, <1>3 DEF PurgeDies, Purge
<1>4. CASE AgeIntro(i) BY <1>4 DEF AgeIntro
<1>5. CASE PurgeFinds(i)
  <2>1. purging' \in Purge BY <1>5 DEF PurgeFinds, Purge, Intros
  <2> QED BY <1>5, <2>1 DEF PurgeFinds, Purge
<1>6. CASE RecordingAges(i) BY <1>6 DEF RecordingAges
<1>7. CASE RemoveOrphan(i) BY <1>7 DEF RemoveOrphan
<1> QED BY <1>1, <1>2, <1>3, <1>4, <1>5, <1>6, <1>7

-----------------------------------------------------------------------------
(* The parts of the invariant. *)

LEMMA NotStartedKept ==
    ASSUME VoiceInv, VoiceNext
    PROVE  NotStartedYet'
<1> USE VoiceAssumption DEF VoiceInv, VoiceTypeOK, At, Intros, NotStartedYet
<1>1. CASE StartUpload BY <1>1 DEF StartUpload
<1>2. CASE Embed \/ PurgeRow \/ PurgeDies BY <1>2 DEF Embed, PurgeRow, PurgeDies
<1>3. CASE PurgeObject BY <1>3 DEF PurgeObject
<1>4. ASSUME NEW i \in Intros, StoreRecording(i) \/ UploadExpires(i) \/ QueueTranscription(i)
      PROVE  NotStartedYet'
  <2>1. CASE StoreRecording(i) BY <2>1 DEF StoreRecording
  <2>2. CASE UploadExpires(i) BY <2>2 DEF UploadExpires
  <2>3. CASE QueueTranscription(i) BY <2>3 DEF QueueTranscription
  <2> QED BY <1>4, <2>1, <2>2, <2>3
<1>5. ASSUME NEW i \in Intros,
             CheckUpload(i) \/ ReplaceOthers(i) \/ CommitIntro(i) \/ CompletionDies(i)
      PROVE  NotStartedYet'
  BY <1>5 DEF CheckUpload, ReplaceOthers, CommitIntro, CompletionDies
<1>6. ASSUME NEW i \in Intros,
             \/ TakeRecording(i) \/ Transcribe(i) \/ TranscriptionFails(i) \/ TranscriberDies(i)
             \/ AgeIntro(i) \/ PurgeFinds(i)
      PROVE  NotStartedYet'
  BY <1>6 DEF TakeRecording, Transcribe, TranscriptionFails, TranscriberDies, AgeIntro, PurgeFinds
<1>7. ASSUME NEW i \in Intros, RecordingAges(i) \/ RemoveOrphan(i) PROVE NotStartedYet'
  BY <1>7 DEF RecordingAges, IsOld, RemoveOrphan
<1> QED BY <1>1, <1>2, <1>3, <1>4, <1>5, <1>6, <1>7 DEF VoiceNext

LEMMA WritersSeeOrMetKept ==
    ASSUME VoiceInv, VoiceNext
    PROVE  WritersSeeOrMet'
<1> USE DEF VoiceInv, VoiceTypeOK, At, WritersSeeOrMet, Current
<1>1. CASE StartUpload \/ Embed \/ PurgeObject BY <1>1 DEF StartUpload, Embed, PurgeObject
<1>2. CASE PurgeRow \/ PurgeDies
  <2>1. UNCHANGED <<completing, sees, met>> /\ Current' \subseteq Current
    BY <1>2 DEF PurgeRow, PurgeDies
  <2> QED BY <2>1
<1>3. ASSUME NEW i \in Intros, ReplaceOthers(i) PROVE WritersSeeOrMet'
  <2>1. /\ completing' = [completing EXCEPT ![i] = "writing"]
        /\ sees' = [sees EXCEPT ![i] = Current]
        /\ met \subseteq met'
        /\ \A j \in Intros : completing[j] = "writing" => i \in met' /\ j \in met'
        /\ UNCHANGED intro
    BY <1>3 DEF ReplaceOthers, ToReplace
  <2> QED BY <2>1
<1>4. ASSUME NEW i \in Intros, CommitIntro(i) PROVE WritersSeeOrMet'
  <2>1. /\ completing' = [completing EXCEPT ![i] = "committed"] /\ completing[i] = "writing"
        /\ UNCHANGED <<sees, met>>
        /\ Current' \subseteq Current \cup {i}
    BY <1>4 DEF CommitIntro
  <2> QED BY <2>1
<1>5. ASSUME NEW i \in Intros,
             \/ StoreRecording(i) \/ UploadExpires(i) \/ CheckUpload(i) \/ QueueTranscription(i)
             \/ CompletionDies(i) \/ AgeIntro(i)
      PROVE  WritersSeeOrMet'
  <2>1. /\ UNCHANGED <<sees, met>> /\ Current' = Current
        /\ \A j \in Intros : completing'[j] = "writing" => completing[j] = "writing"
    BY <1>5 DEF StoreRecording, UploadExpires, CheckUpload, QueueTranscription, CompletionDies, AgeIntro
  <2> QED BY <2>1
<1>6. ASSUME NEW i \in Intros,
             \/ TakeRecording(i) \/ Transcribe(i) \/ TranscriptionFails(i) \/ TranscriberDies(i)
             \/ PurgeFinds(i) \/ RecordingAges(i) \/ RemoveOrphan(i)
      PROVE  WritersSeeOrMet'
  BY <1>6 DEF TakeRecording, Transcribe, TranscriptionFails, TranscriberDies, PurgeFinds, RecordingAges, RemoveOrphan
<1> QED BY <1>1, <1>2, <1>3, <1>4, <1>5, <1>6 DEF VoiceNext

\* The heart of it: whoever commits has replaced the other current intros, but
\* those it met; and nothing takes a current intro's recording.
LEMMA OneCurrentKept ==
    ASSUME VoiceInv, VoiceNext
    PROVE  OneCurrentIntro'
<1> USE DEF VoiceInv, VoiceTypeOK, At, OneCurrentIntro, Current
<1>1. CASE StartUpload \/ Embed BY <1>1 DEF StartUpload, Embed
<1>2. CASE PurgeObject BY <1>2 DEF PurgeObject, PurgeIsOfTheAged, Intros
<1>3. CASE PurgeRow \/ PurgeDies
  <2>1. /\ UNCHANGED <<met, stored>> /\ Current' \subseteq Current
        /\ \A j \in Intros : intro'[j] = "current" => intro[j] = "current"
    BY <1>3 DEF PurgeRow, PurgeDies
  <2> QED BY <2>1
<1>4. ASSUME NEW i \in Intros, CommitIntro(i) PROVE OneCurrentIntro'
  <2>1. /\ completing[i] = "writing" /\ intro[i] = "none"
        /\ UNCHANGED <<met, stored>>
        /\ \A j \in Intros : intro'[j] = IF j = i THEN "current"
                             ELSE IF j \in sees[i] /\ intro[j] # "gone" THEN "replaced" ELSE intro[j]
    BY <1>4 DEF CommitIntro
  <2>2. \A j \in Current' : j = i \/ (j \in Current /\ (i \in met \/ j \in met))
    BY <2>1 DEF WritersSeeOrMet
  <2>3. \A j, k \in Current' : j = k \/ {j, k} \cap met' # {}
    BY <2>1, <2>2
  <2>4. stored[i] # "none"
    BY <2>1 DEF AwaitedIsStored
  <2> QED BY <2>1, <2>3, <2>4
<1>5. ASSUME NEW i \in Intros, ReplaceOthers(i) PROVE OneCurrentIntro'
  <2>1. met \subseteq met' /\ UNCHANGED <<intro, stored>>
    BY <1>5 DEF ReplaceOthers
  <2> QED BY <2>1
<1>6. ASSUME NEW i \in Intros,
             \/ UploadExpires(i) \/ CheckUpload(i) \/ QueueTranscription(i) \/ CompletionDies(i)
             \/ TakeRecording(i) \/ Transcribe(i) \/ TranscriptionFails(i) \/ TranscriberDies(i)
             \/ PurgeFinds(i)
      PROVE  OneCurrentIntro'
  BY <1>6 DEF UploadExpires, CheckUpload, QueueTranscription, CompletionDies,
              TakeRecording, Transcribe, TranscriptionFails, TranscriberDies, PurgeFinds
<1>7. ASSUME NEW i \in Intros,
             StoreRecording(i) \/ AgeIntro(i) \/ RecordingAges(i) \/ RemoveOrphan(i)
      PROVE  OneCurrentIntro'
  <2>1. /\ Current' = Current /\ UNCHANGED met
        /\ \A j \in Intros : intro'[j] = "current" => intro[j] = "current" /\ stored'[j] # "none"
    BY <1>7 DEF StoreRecording, AgeIntro, RecordingAges, RemoveOrphan
  <2> QED BY <2>1
<1> QED BY <1>1, <1>2, <1>3, <1>4, <1>5, <1>6, <1>7 DEF VoiceNext

LEMMA AwaitedKept ==
    ASSUME VoiceInv, VoiceNext
    PROVE  AwaitedIsStored'
<1> USE VoiceAssumption DEF VoiceInv, VoiceTypeOK, At, AwaitedIsStored
<1>1. CASE StartUpload BY <1>1 DEF StartUpload, NotStartedYet, Intros
<1>2. CASE Embed BY <1>2 DEF Embed
<1>3. CASE PurgeObject BY <1>3 DEF PurgeObject, PurgeIsOfTheAged, Intros
<1>4. CASE PurgeRow \/ PurgeDies
  <2>1. /\ UNCHANGED <<completing, stored, upload>>
        /\ \A j \in Intros : intro'[j] = "none" => intro[j] = "none"
    BY <1>4 DEF PurgeRow, PurgeDies
  <2> QED BY <2>1
<1>5. ASSUME NEW i \in Intros,
             StoreRecording(i) \/ UploadExpires(i) \/ CheckUpload(i) \/ ReplaceOthers(i)
      PROVE  AwaitedIsStored'
  <2>1. CASE StoreRecording(i) BY <2>1 DEF StoreRecording
  <2>2. CASE UploadExpires(i) BY <2>2 DEF UploadExpires
  <2>3. CASE CheckUpload(i) BY <2>3 DEF CheckUpload
  <2>4. CASE ReplaceOthers(i) BY <2>4 DEF ReplaceOthers
  <2> QED BY <1>5, <2>1, <2>2, <2>3, <2>4
<1>6. ASSUME NEW i \in Intros, CommitIntro(i) \/ QueueTranscription(i) \/ CompletionDies(i)
      PROVE  AwaitedIsStored'
  <2>1. CASE CommitIntro(i) BY <2>1 DEF CommitIntro
  <2>2. CASE QueueTranscription(i) BY <2>2 DEF QueueTranscription
  <2>3. CASE CompletionDies(i) BY <2>3 DEF CompletionDies
  <2> QED BY <1>6, <2>1, <2>2, <2>3
<1>7. ASSUME NEW i \in Intros,
             \/ TakeRecording(i) \/ Transcribe(i) \/ TranscriptionFails(i) \/ TranscriberDies(i)
             \/ PurgeFinds(i)
      PROVE  AwaitedIsStored'
  BY <1>7 DEF TakeRecording, Transcribe, TranscriptionFails, TranscriberDies, PurgeFinds
<1>8. ASSUME NEW i \in Intros, AgeIntro(i) \/ RecordingAges(i) \/ RemoveOrphan(i)
      PROVE  AwaitedIsStored'
  BY <1>8 DEF AgeIntro, RecordingAges, IsOld, RemoveOrphan
<1> QED BY <1>1, <1>2, <1>3, <1>4, <1>5, <1>6, <1>7, <1>8 DEF VoiceNext

LEMMA PurgeKept ==
    ASSUME VoiceInv, VoiceNext
    PROVE  PurgeIsOfTheAged'
<1> USE VoiceAssumption DEF VoiceInv, VoiceTypeOK, At, PurgeIsOfTheAged, Intros
<1>1. CASE StartUpload \/ Embed BY <1>1 DEF StartUpload, Embed
<1>2. CASE PurgeObject
  <2>1. purging'.of = purging.of /\ purging'.was = purging.was /\ intro' = intro
    BY <1>2 DEF PurgeObject
  <2> QED BY <2>1
<1>3. CASE PurgeRow \/ PurgeDies
  <2>1. purging'.of = 0 BY <1>3 DEF PurgeRow, PurgeDies, NotPurging
  <2> QED BY <2>1
<1>4. ASSUME NEW i \in Intros, CommitIntro(i) \/ AgeIntro(i) PROVE PurgeIsOfTheAged'
  <2>1. /\ purging' = purging
        /\ \A j \in Intros : /\ intro[j] \in {"aged", "replaced", "gone"} => intro'[j] \in {"aged", "replaced", "gone"}
                             /\ intro[j] \in {"replaced", "gone"} => intro'[j] \in {"replaced", "gone"}
    BY <1>4 DEF CommitIntro, AgeIntro
  <2> QED BY <2>1
<1>5. ASSUME NEW i \in Intros, PurgeFinds(i) PROVE PurgeIsOfTheAged'
  <2>1. purging'.of = i /\ purging'.was = intro[i] /\ intro[i] \in {"aged", "replaced"} /\ intro' = intro
    BY <1>5 DEF PurgeFinds
  <2> QED BY <2>1
<1>6. ASSUME NEW i \in Intros,
             \/ StoreRecording(i) \/ UploadExpires(i) \/ CheckUpload(i) \/ ReplaceOthers(i)
             \/ QueueTranscription(i) \/ CompletionDies(i)
             \/ TakeRecording(i) \/ Transcribe(i) \/ TranscriptionFails(i) \/ TranscriberDies(i)
             \/ RecordingAges(i) \/ RemoveOrphan(i)
      PROVE  PurgeIsOfTheAged'
  BY <1>6 DEF StoreRecording, UploadExpires, CheckUpload, ReplaceOthers, QueueTranscription, CompletionDies,
              TakeRecording, Transcribe, TranscriptionFails, TranscriberDies, RecordingAges, RemoveOrphan
<1> QED BY <1>1, <1>2, <1>3, <1>4, <1>5, <1>6 DEF VoiceNext

LEMMA JobsKept ==
    ASSUME VoiceInv, VoiceNext
    PROVE  JobsFit'
<1> USE VoiceAssumption DEF VoiceInv, VoiceTypeOK, At, JobsFit
<1>1. CASE StartUpload \/ Embed \/ PurgeObject BY <1>1 DEF StartUpload, Embed, PurgeObject
<1>2. CASE PurgeRow \/ PurgeDies
  <2>1. /\ UNCHANGED <<completing, recorded, voiceJob, tries>>
        /\ \A j \in Intros : intro'[j] = "none" => intro[j] = "none"
    BY <1>2 DEF PurgeRow, PurgeDies
  <2> QED BY <2>1
<1>3. ASSUME NEW i \in Intros, CheckUpload(i) \/ ReplaceOthers(i) \/ CommitIntro(i) \/ CompletionDies(i)
      PROVE  JobsFit'
  <2>1. /\ UNCHANGED <<recorded, voiceJob, tries>>
        /\ \A j \in Intros : /\ intro'[j] = "none" => intro[j] = "none"
                             /\ completing'[j] = "committed" =>
                                    intro'[j] # "none" /\ (completing[j] = "committed" \/ intro[j] = "none")
    BY <1>3 DEF CheckUpload, ReplaceOthers, CommitIntro, CompletionDies
  <2> QED BY <2>1
<1>4. ASSUME NEW i \in Intros, QueueTranscription(i) PROVE JobsFit'
  BY <1>4 DEF QueueTranscription
<1>5. ASSUME NEW i \in Intros, TakeRecording(i) PROVE JobsFit'
  BY <1>5 DEF TakeRecording
<1>6. ASSUME NEW i \in Intros, Transcribe(i) \/ TranscriberDies(i) PROVE JobsFit'
  BY <1>6 DEF Transcribe, TranscriberDies
<1>7. ASSUME NEW i \in Intros, TranscriptionFails(i) PROVE JobsFit'
  <2> DEFINE once == tries[i] + 1
  <2>1. once \in 0..VoiceAttempts BY <1>7 DEF TranscriptionFails
  <2>2. tries' = [tries EXCEPT ![i] = once] BY <1>7 DEF TranscriptionFails
  <2> HIDE DEF once
  <2>3. /\ tries'[i] = once /\ intro[i] # "none" /\ voiceJob[i] = "running"
        /\ \A j \in Intros \ {i} : tries'[j] = tries[j]
        /\ UNCHANGED <<intro, completing>>
    BY <1>7, <2>2 DEF TranscriptionFails
  <2>4. /\ voiceJob'[i] = IF once >= VoiceAttempts THEN "over" ELSE "queued"
        /\ \A j \in Intros \ {i} : voiceJob'[j] = voiceJob[j]
    BY <1>7, <2>3 DEF TranscriptionFails
  <2>5. \A j \in Intros \ {i} : recorded'[j] = recorded[j]
    BY <1>7 DEF TranscriptionFails
  <2> QED BY <2>1, <2>3, <2>4, <2>5
<1>8. ASSUME NEW i \in Intros,
             StoreRecording(i) \/ UploadExpires(i) \/ PurgeFinds(i) \/ RecordingAges(i) \/ RemoveOrphan(i)
      PROVE  JobsFit'
  BY <1>8 DEF StoreRecording, UploadExpires, PurgeFinds, RecordingAges, RemoveOrphan
<1>9. ASSUME NEW i \in Intros, AgeIntro(i) PROVE JobsFit'
  BY <1>9 DEF AgeIntro
<1> QED BY <1>1, <1>2, <1>3, <1>4, <1>5, <1>6, <1>7, <1>8, <1>9 DEF VoiceNext

\* A step that takes nothing back: the embedding stays as good as it was.
LEMMA EmbeddedAsGood ==
    ASSUME VoiceInv, VoiceTypeOK',
           embedded' = embedded,
           embedJob => embedJob',
           voiceDeaths > 0 => voiceDeaths' > 0,
           embedded \in Current => embedded \in Current' \/ embedJob' \/ voiceDeaths' > 0,
           \A i \in Intros : intro[i] # "none" /\ recorded[i] # "DONE" =>
               (intro'[i] # "none" /\ recorded'[i] # "DONE") \/ embedJob' \/ voiceDeaths' > 0
    PROVE  EmbeddedIsCurrent'
  BY DEF VoiceInv, EmbeddedIsCurrent

LEMMA EmbeddedKept ==
    ASSUME VoiceInv, VoiceNext, VoiceTypeOK'
    PROVE  EmbeddedIsCurrent'
<1> USE VoiceAssumption DEF VoiceInv, VoiceTypeOK, At
<1>1. CASE StartUpload \/ PurgeObject
  BY <1>1, EmbeddedAsGood DEF StartUpload, PurgeObject, Current
<1>2. CASE Embed
  <2>1. embedded' = 0 \/ embedded' \in Current' BY <1>2, EmbedPicksCurrent DEF Embed, Current
  <2> QED BY <2>1 DEF EmbeddedIsCurrent
<1>3. CASE PurgeRow
  <2>1. /\ UNCHANGED <<embedded, recorded, voiceDeaths>>
        /\ intro' = [intro EXCEPT ![purging.of] = "gone"]
        /\ embedJob' = (embedJob \/ ReembedAfter(purging.was))
    BY <1>3 DEF PurgeRow
  <2>2. embedJob => embedJob' BY <2>1
  <2>3. ASSUME embedded \in Current PROVE embedded \in Current' \/ embedJob'
    <3>1. CASE purging.of = embedded
      <4>1. purging.was # "replaced" BY <2>3, <3>1 DEF Current, PurgeIsOfTheAged, Intros
      <4> QED BY <4>1, <2>1 DEF ReembedAfter
    <3>2. CASE purging.of # embedded BY <2>1, <2>3, <3>2 DEF Current
    <3> QED BY <3>1, <3>2
  <2>4. \A i \in Intros : intro[i] # "none" => intro'[i] # "none" BY <2>1
  <2> QED BY <2>1, <2>2, <2>3, <2>4, EmbeddedAsGood
<1>4. CASE PurgeDies
  <2>1. voiceDeaths' > 0 BY <1>4 DEF PurgeDies
  <2> QED BY <2>1 DEF EmbeddedIsCurrent
<1>5. ASSUME NEW i \in Intros, CommitIntro(i) PROVE EmbeddedIsCurrent'
  <2>1. /\ intro[i] = "none" /\ recorded[i] = "UPLOADED"
        /\ UNCHANGED <<embedded, embedJob, recorded, voiceDeaths>>
        /\ \A j \in Intros : intro'[j] = IF j = i THEN "current"
                             ELSE IF j \in sees[i] /\ intro[j] # "gone" THEN "replaced" ELSE intro[j]
    BY <1>5 DEF CommitIntro, JobsFit
  <2>2. \A j \in Intros : intro[j] # "none" => intro'[j] # "none"
    BY <2>1
  <2>3. ASSUME embedded \in Current
        PROVE  \E j \in Intros : j # embedded /\ intro'[j] # "none" /\ recorded'[j] # "DONE"
    <3>1. i # embedded /\ intro'[i] # "none" /\ recorded'[i] # "DONE" BY <2>1, <2>3 DEF Current
    <3> QED BY <3>1
  <2> QED BY <2>1, <2>2, <2>3 DEF EmbeddedIsCurrent
<1>6. ASSUME NEW i \in Intros,
             \/ StoreRecording(i) \/ UploadExpires(i) \/ CheckUpload(i) \/ ReplaceOthers(i)
             \/ QueueTranscription(i) \/ PurgeFinds(i) \/ RecordingAges(i) \/ RemoveOrphan(i)
      PROVE  EmbeddedIsCurrent'
  <2>1. UNCHANGED <<intro, recorded, embedJob, embedded, voiceDeaths>>
    BY <1>6 DEF StoreRecording, UploadExpires, CheckUpload, ReplaceOthers, QueueTranscription, PurgeFinds,
                RecordingAges, RemoveOrphan
  <2> QED BY <2>1, EmbeddedAsGood DEF Current
<1>7. ASSUME NEW i \in Intros, CompletionDies(i) \/ TranscriberDies(i) PROVE EmbeddedIsCurrent'
  <2>1. voiceDeaths' > 0 BY <1>7 DEF CompletionDies, TranscriberDies
  <2> QED BY <2>1 DEF EmbeddedIsCurrent
<1>8. ASSUME NEW i \in Intros, TakeRecording(i) \/ TranscriptionFails(i) PROVE EmbeddedIsCurrent'
  <2>1. /\ UNCHANGED <<intro, embedJob, embedded, voiceDeaths>>
        /\ \A j \in Intros : recorded[j] # "DONE" => recorded'[j] # "DONE"
    BY <1>8 DEF TakeRecording, TranscriptionFails
  <2> QED BY <2>1, EmbeddedAsGood DEF Current
<1>9. ASSUME NEW i \in Intros, Transcribe(i) PROVE EmbeddedIsCurrent'
  <2>1. PICK result \in {"DONE", "FAILED"} :
            recorded' = [recorded EXCEPT ![i] = result] /\ embedJob' = (embedJob \/ result = "DONE")
    BY <1>9 DEF Transcribe
  <2>2. UNCHANGED <<intro, embedded, voiceDeaths>>
    BY <1>9 DEF Transcribe
  <2>3. recorded' = [recorded EXCEPT ![i] = result] BY <2>1
  <2>4. (embedJob => embedJob') /\ (result = "DONE" => embedJob') BY <2>1, Zenon
  <2>5. \A j \in Intros : recorded[j] # "DONE" => recorded'[j] # "DONE" \/ embedJob'
    BY <2>3, <2>4
  <2> QED BY <2>2, <2>4, <2>5, EmbeddedAsGood DEF Current
<1>10. ASSUME NEW i \in Intros, AgeIntro(i) PROVE EmbeddedIsCurrent'
  <2>1. UNCHANGED <<recorded, embedJob, embedded, voiceDeaths>> /\ Current' = Current
        /\ \A j \in Intros : intro[j] # "none" => intro'[j] # "none"
    BY <1>10 DEF AgeIntro, Current
  <2> QED BY <2>1, EmbeddedAsGood
<1> QED BY <1>1, <1>2, <1>3, <1>4, <1>5, <1>6, <1>7, <1>8, <1>9, <1>10 DEF VoiceNext

-----------------------------------------------------------------------------
(* Together. *)

LEMMA VoiceInvInitially == VoiceInit => VoiceInv
<1> SUFFICES ASSUME VoiceInit PROVE VoiceInv OBVIOUS
<1> USE VoiceAssumption DEF VoiceInit
<1>1. VoiceTypeOK
  <2>1. purging \in [of : 0..MaxIntros, was : {"none", "aged", "replaced"}, objectGone : BOOLEAN]
    BY DEF NotPurging
  <2>2. embedJob \in BOOLEAN BY Zenon
  <2> QED BY <2>1, <2>2 DEF VoiceTypeOK, Intros
<1>2. PurgeIsOfTheAged BY DEF PurgeIsOfTheAged, NotPurging
<1>3. NotStartedYet /\ WritersSeeOrMet /\ OneCurrentIntro /\ AwaitedIsStored
  BY DEF NotStartedYet, WritersSeeOrMet, OneCurrentIntro, AwaitedIsStored, Current
<1>4. JobsFit /\ EmbeddedIsCurrent
  BY DEF JobsFit, EmbeddedIsCurrent
<1> QED BY <1>1, <1>2, <1>3, <1>4 DEF VoiceInv

LEMMA VoiceInductive == VoiceSpec => []VoiceInv
<1>1. VoiceInv /\ [VoiceNext]_voiceVars => VoiceInv'
  <2> SUFFICES ASSUME VoiceInv, [VoiceNext]_voiceVars PROVE VoiceInv' OBVIOUS
  <2>1. CASE VoiceNext
    <3>1. VoiceTypeOK'
      <4>0. 1 \in Intros BY VoiceAssumption DEF Intros
      <4> QED BY <4>0, <2>1, CompletingTyped, TranscribingTyped, PurgingTyped DEF VoiceNext
    <3> QED BY <2>1, <3>1, NotStartedKept, WritersSeeOrMetKept, OneCurrentKept, AwaitedKept, PurgeKept,
               JobsKept, EmbeddedKept DEF VoiceInv
  <2>2. CASE UNCHANGED voiceVars
    BY <2>2 DEF voiceVars, VoiceInv, VoiceTypeOK, NotStartedYet, WritersSeeOrMet, OneCurrentIntro, AwaitedIsStored,
                PurgeIsOfTheAged, JobsFit, EmbeddedIsCurrent, Current
  <2> QED BY <2>1, <2>2
<1> QED BY <1>1, VoiceInvInitially, PTL DEF VoiceSpec

\* Every variable has its type (VoiceIntroService, processVoice).
THEOREM VoiceTypeCorrect == VoiceSpec => []VoiceTypeOK
  BY VoiceInductive, PTL DEF VoiceInv

\* A candidate has one current intro, but for two completed at the same time,
\* it can be played, and the words of one that is gone leave the embedding
\* (completeUpload, processVoice, purgeVoiceIntros, removeOrphanedRecordings).
THEOREM IntrosPlayAndWordsLeave == VoiceSpec => []IntrosKeepTheirWord
<1>1. VoiceInv => IntrosKeepTheirWord
  BY DEF VoiceInv, IntrosKeepTheirWord, WordsLeaveEmbedding, EmbeddedIsCurrent, Current
<1> QED BY <1>1, VoiceInductive, PTL

-----------------------------------------------------------------------------
(***************************************************************************)
(* Why the facts of a hire fit each other, for every number of recorders   *)
(* and whatever the periods are.  A recording that nobody has overtaken    *)
(* was checked against the row as it still is; one that was overtaken      *)
(* raises crossed.                                                         *)
(***************************************************************************)

\* A recording under way was well formed when it was checked.
RecordingsFit ==
    \A r \in Recorders :
        /\ recording[r].fact = "none" => recording[r] = NotRecording
        /\ recording[r].fact = "started" => (recording[r].day # Unknown <=> recording[r].answer = "yes")

\* One that nobody has overtaken still may say that somebody stayed.
FreshRecordingsStand ==
    \A r \in Recorders :
        recording[r].fact = "retained" /\ recording[r].answer # "unknown" /\ ~recording[r].stale =>
            outcome.started = "yes"

\* A candidate is only asked about a day that has passed.
AskedAboutThePast == prompted <= today

OutcomesInv ==
    /\ OutcomesTypeOK
    /\ StayedMeansStarted
    /\ RecordingsFit
    /\ FreshRecordingsStand
    /\ AskedAboutThePast

LEMMA NotRecordingTyped == NotRecording \in Recording
  BY DEF NotRecording, Recording, Facts, Answers3

LEMMA NotRecordingFits == NotRecording.fact # "started" /\ NotRecording.fact = "none"
  BY DEF NotRecording

\* Checking a fact against the row.
LEMMA BeginRecordOutcomes ==
    ASSUME OutcomesInv, NEW r \in Recorders, BeginRecord(r)
    PROVE  OutcomesInv'
<1> USE DEF OutcomesInv, OutcomesTypeOK
<1>1. PICK fact \in Facts, answer \in Answers3, day \in Days \cup {Unknown} :
          /\ fact = "started" => (day # Unknown <=> answer = "yes")
          /\ MayRecord(outcome, fact, answer, day)
          /\ recording' = [recording EXCEPT ![r] = [fact |-> fact, answer |-> answer, day |-> day, stale |-> FALSE]]
  BY DEF BeginRecord
<1> DEFINE w == [fact |-> fact, answer |-> answer, day |-> day, stale |-> FALSE]
<1>2. w \in Recording BY DEF Recording
<1>3. /\ w.fact = fact /\ w.answer = answer /\ w.day = day
      /\ fact = "retained" /\ answer # "unknown" => outcome.started = "yes"
  BY <1>1 DEF MayRecord
<1>4. /\ recording' = [recording EXCEPT ![r] = w]
      /\ UNCHANGED <<today, outcome, crossed, prompted>>
  BY <1>1 DEF BeginRecord
<1>5. \A q \in Recorders : recording'[q] = IF q = r THEN w ELSE recording[q]
  BY <1>4
<1> HIDE DEF w
<1>6. OutcomesTypeOK'
  BY <1>2, <1>4
<1>7. RecordingsFit'
  BY <1>1, <1>3, <1>5 DEF RecordingsFit, Facts
<1>8. FreshRecordingsStand'
  BY <1>3, <1>4, <1>5 DEF FreshRecordingsStand
<1>9. StayedMeansStarted' /\ AskedAboutThePast'
  BY <1>4 DEF StayedMeansStarted, AskedAboutThePast
<1> QED BY <1>6, <1>7, <1>8, <1>9

\* Writing one fact over the row.
LEMMA CommitRecordOutcomes ==
    ASSUME OutcomesInv, NEW r \in Recorders, CommitRecord(r)
    PROVE  OutcomesInv'
<1> USE DEF OutcomesInv, OutcomesTypeOK
<1> DEFINE w == recording[r]
           others == [q \in Recorders |-> IF q = r \/ recording[q] = NotRecording THEN NotRecording
                                          ELSE [recording[q] EXCEPT !.stale = TRUE]]
           kept == RetainedAfter(w.answer, outcome.retained)
<1>1. /\ w # NotRecording /\ w \in Recording
      /\ crossed' = (crossed \/ w.stale)
      /\ recording' = others
      /\ UNCHANGED <<today, prompted>>
  BY DEF CommitRecord
<1>2. outcome' = CASE w.fact = "joining" -> [outcome EXCEPT !.joining = w.day]
                   [] w.fact = "started" -> [outcome EXCEPT !.started = w.answer, !.startedOn = w.day,
                                                            !.retained = kept]
                   [] OTHER -> [outcome EXCEPT !.retained = w.answer]
  BY DEF CommitRecord
<1>3. /\ kept \in Answers3
      /\ w.answer # "yes" => kept = "unknown"
      /\ w.answer = "yes" => kept = outcome.retained
  BY DEF RetainedAfter, Outcome, Answers3
<1>4. \A q \in Recorders : recording'[q] = IF q = r \/ recording[q] = NotRecording THEN NotRecording
                                           ELSE [recording[q] EXCEPT !.stale = TRUE]
  BY <1>1
<1>5. ASSUME NEW q \in Recorders PROVE recording'[q] \in Recording
  <2>1. CASE q = r \/ recording[q] = NotRecording BY <2>1, <1>4, NotRecordingTyped
  <2>2. CASE ~(q = r \/ recording[q] = NotRecording)
    <3>1. recording'[q] = [recording[q] EXCEPT !.stale = TRUE] /\ recording[q] \in Recording BY <2>2, <1>4
    <3> QED BY <3>1 DEF Recording
  <2> QED BY <2>1, <2>2
<1>6. w.fact = "started" => (w.day # Unknown <=> w.answer = "yes")
  BY DEF RecordingsFit
<1>7. w.fact = "retained" /\ w.answer # "unknown" /\ ~w.stale => outcome.started = "yes"
  BY DEF FreshRecordingsStand
<1>8. /\ w.fact \in Facts \cup {"none"} /\ w.answer \in Answers3 /\ w.day \in Days \cup {Unknown} /\ w.stale \in BOOLEAN
  BY <1>1 DEF Recording
<1>9. outcome \in Outcome OBVIOUS
<1> HIDE DEF kept, w, others
<1>10. outcome' \in Outcome /\ (outcome'.started = "yes" <=> outcome'.startedOn # Unknown)
  <2>1. CASE w.fact = "joining" BY <2>1, <1>2, <1>8, <1>9 DEF Outcome
  <2>2. CASE w.fact = "started"
    <3>1. outcome' = [outcome EXCEPT !.started = w.answer, !.startedOn = w.day, !.retained = kept]
      BY <2>2, <1>2
    <3> QED BY <3>1, <2>2, <1>3, <1>6, <1>8, <1>9 DEF Outcome
  <2>3. CASE w.fact \notin {"joining", "started"} BY <2>3, <1>2, <1>8, <1>9 DEF Outcome
  <2> QED BY <2>1, <2>2, <2>3
<1>11. OutcomesTypeOK'
  <2>1. recording' \in [Recorders -> Recording] BY <1>1, <1>5 DEF others
  <2>2. crossed' \in BOOLEAN BY <1>1, <1>8
  <2> QED BY <1>1, <1>10, <2>1, <2>2
<1>12. ~crossed' /\ outcome'.retained # "unknown" => outcome'.started = "yes"
  <2> SUFFICES ASSUME ~crossed', outcome'.retained # "unknown" PROVE outcome'.started = "yes"
    OBVIOUS
  <2>0. ~crossed /\ ~w.stale BY <1>1
  <2>1. CASE w.fact = "joining"
    BY <2>0, <2>1, <1>2, <1>9 DEF Outcome, StayedMeansStarted
  <2>2. CASE w.fact = "started"
    BY <2>2, <1>2, <1>3, <1>9 DEF Outcome
  <2>3. CASE w.fact = "retained"
    BY <2>0, <2>3, <1>2, <1>7, <1>9 DEF Outcome
  <2>4. CASE w.fact = "none"
    BY <2>4, <1>1 DEF w, RecordingsFit
  <2> QED BY <2>1, <2>2, <2>3, <2>4, <1>8 DEF Facts
<1>13. RecordingsFit'
  <2> SUFFICES ASSUME NEW q \in Recorders, recording'[q] # NotRecording
               PROVE  /\ recording'[q].fact # "none"
                      /\ recording'[q].fact = "started" =>
                            (recording'[q].day # Unknown <=> recording'[q].answer = "yes")
    BY Zenon, NotRecordingFits DEF RecordingsFit
  <2>1. recording[q] # NotRecording BY <1>4
  <2>2. recording'[q] = [recording[q] EXCEPT !.stale = TRUE] /\ recording[q] \in Recording BY <1>4, <2>1
  <2>3. /\ recording'[q].fact = recording[q].fact /\ recording'[q].day = recording[q].day
        /\ recording'[q].answer = recording[q].answer
    BY <2>2 DEF Recording
  <2> QED BY <2>1, <2>3 DEF RecordingsFit
<1>14. FreshRecordingsStand'
  <2>1. ASSUME NEW q \in Recorders PROVE recording'[q].fact = "none" \/ recording'[q].stale = TRUE
    <3>1. CASE q = r \/ recording[q] = NotRecording BY <3>1, <1>4, NotRecordingFits
    <3>2. CASE ~(q = r \/ recording[q] = NotRecording)
      <4>1. recording'[q] = [recording[q] EXCEPT !.stale = TRUE] /\ recording[q] \in Recording BY <3>2, <1>4
      <4> QED BY <4>1 DEF Recording
    <3> QED BY <3>1, <3>2
  <2> QED BY <2>1 DEF FreshRecordingsStand
<1>15. AskedAboutThePast'
  BY <1>1 DEF AskedAboutThePast
<1> QED BY <1>11, <1>12, <1>13, <1>14, <1>15 DEF StayedMeansStarted

\* Every other step.
LEMMA OtherStepsOutcomes ==
    ASSUME OutcomesInv,
           \/ \E answer \in {"yes", "no"} : CandidateAnswers(answer)
           \/ AskWhetherStarted \/ NextDay
           \/ UNCHANGED outcomesVars
    PROVE  OutcomesInv'
<1> USE OutcomesAssumption DEF OutcomesInv, OutcomesTypeOK
<1>1. ASSUME NEW answer \in {"yes", "no"}, CandidateAnswers(answer) PROVE OutcomesInv'
  <2>1. /\ outcome' = [outcome EXCEPT !.candidate = answer]
        /\ UNCHANGED <<today, recording, crossed, prompted>>
    BY <1>1 DEF CandidateAnswers
  <2>2. /\ outcome' \in Outcome /\ outcome'.started = outcome.started
        /\ outcome'.startedOn = outcome.startedOn /\ outcome'.retained = outcome.retained
    BY <2>1 DEF Outcome, Answers3
  <2> QED BY <2>1, <2>2 DEF StayedMeansStarted, RecordingsFit, FreshRecordingsStand, AskedAboutThePast
<1>2. ASSUME AskWhetherStarted PROVE OutcomesInv'
  <2>1. /\ prompted' = outcome.joining /\ outcome.joining < today
        /\ UNCHANGED <<today, outcome, recording, crossed>>
    BY <1>2 DEF AskWhetherStarted
  <2>2. prompted' \in Days \cup {Unknown} /\ prompted' <= today'
    BY <2>1 DEF Outcome, Days, Unknown
  <2> QED BY <2>1, <2>2 DEF StayedMeansStarted, RecordingsFit, FreshRecordingsStand, AskedAboutThePast
<1>3. ASSUME NextDay PROVE OutcomesInv'
  <2>1. today' = today + 1 /\ today < LastDay /\ UNCHANGED <<outcome, recording, crossed, prompted>>
    BY <1>3 DEF NextDay
  <2>2. today' \in Days /\ prompted' <= today'
    BY <2>1 DEF Days, Unknown, AskedAboutThePast
  <2> QED BY <2>1, <2>2 DEF StayedMeansStarted, RecordingsFit, FreshRecordingsStand, AskedAboutThePast
<1>4. ASSUME UNCHANGED outcomesVars PROVE OutcomesInv'
  BY <1>4 DEF outcomesVars, StayedMeansStarted, RecordingsFit, FreshRecordingsStand, AskedAboutThePast
<1> QED BY <1>1, <1>2, <1>3, <1>4

LEMMA OutcomesInvInitially == OutcomesInit => OutcomesInv
<1> SUFFICES ASSUME OutcomesInit PROVE OutcomesInv OBVIOUS
<1>1. OutcomesTypeOK
  <2>1. recording \in [Recorders -> Recording] BY NotRecordingTyped DEF OutcomesInit
  <2>2. outcome \in Outcome /\ outcome.started = "unknown" /\ outcome.startedOn = Unknown
    BY DEF OutcomesInit, NothingKnown, Outcome, Answers3
  <2>3. today \in Days /\ prompted \in Days \cup {Unknown}
    BY OutcomesAssumption DEF OutcomesInit, Days, Unknown
  <2>4. crossed \in BOOLEAN BY Zenon DEF OutcomesInit
  <2> QED BY <2>1, <2>2, <2>3, <2>4 DEF OutcomesTypeOK
<1> QED BY <1>1 DEF OutcomesInit, OutcomesInv, NotRecording, NothingKnown,
              StayedMeansStarted, RecordingsFit, FreshRecordingsStand, AskedAboutThePast, Unknown

LEMMA OutcomesInductive == OutcomesSpec => []OutcomesInv
<1>1. OutcomesInv /\ [OutcomesNext]_outcomesVars => OutcomesInv'
  BY BeginRecordOutcomes, CommitRecordOutcomes, OtherStepsOutcomes DEF OutcomesNext
<1> QED BY <1>1, OutcomesInvInitially, PTL DEF OutcomesSpec

\* What is asked next follows from the row and the day alone.
LEMMA AskedFits == OutcomesInv => AskedCanBeAnswered
<1> SUFFICES ASSUME OutcomesInv, today <= EditableUntil(outcome) PROVE AskedCanBeAnswered
  BY DEF AskedCanBeAnswered
<1>1. /\ today \in Nat /\ outcome.joining \in Int /\ outcome.startedOn \in Int /\ prompted <= today
      /\ outcome.started \in Answers3
  BY OutcomesAssumption DEF OutcomesInv, OutcomesTypeOK, Outcome, Days, Unknown, AskedAboutThePast
<1>2. Need(outcome) = "joining" => MayRecord(outcome, "joining", "unknown", today)
  BY <1>1 DEF MayRecord
<1>3. Need(outcome) = "started" => MayRecord(outcome, "started", "yes", StartDay(outcome))
  BY <1>1 DEF MayRecord, Need, StartDay
<1>4. Need(outcome) = "retained" => MayRecord(outcome, "retained", "yes", Unknown)
  BY <1>1 DEF MayRecord, Need
<1>5. prompted # Unknown /\ prompted = outcome.joining => MayAnswer(outcome)
  BY <1>1 DEF MayAnswer
<1> QED BY <1>2, <1>3, <1>4, <1>5 DEF AskedCanBeAnswered

\* Every variable has its type, and whoever started did so on some day
\* (OutcomesService).
THEOREM OutcomesTypeCorrect == OutcomesSpec => []OutcomesTypeOK
  BY OutcomesInductive, PTL DEF OutcomesInv

\* Nobody stayed who did not start, unless two facts crossed, and what the desk
\* or the candidate is asked can be answered (record, outcomeNeed,
\* askWhetherStarted, candidateAnswer).
THEOREM OutcomeFactsFit == OutcomesSpec => []FactsFit
<1>1. OutcomesInv => FactsFit
  BY AskedFits DEF OutcomesInv, FactsFit
<1> QED BY <1>1, OutcomesInductive, PTL

-----------------------------------------------------------------------------
(***************************************************************************)
(* Why no window lets more through than the limit and only wrong codes     *)
(* turn a scan away, for every limit, window and number of scans at once.  *)
(* The log is of calls that were let through, and trimming it only forgets *)
(* those that no window up to now still reaches.                           *)
(***************************************************************************)

\* What a log knows of the calls it is the log of.
LogIsRecent(entries, calls) ==
    /\ entries \subseteq calls
    /\ \A e \in calls : e[1] <= now /\ (e[1] > now - Window => e \in entries)

RateInv ==
    /\ RateTypeOK
    /\ LogIsRecent(log, passed) /\ NoBurstDoubles
    /\ failures \subseteq wrong /\ \A e \in wrong : e[1] <= now
    /\ OnlyFailuresCount

\* Any set of entries is finite, and an entry's second is a number.
LEMMA EntriesAreFinite ==
    ASSUME NEW S \in SUBSET Entries
    PROVE  /\ IsFiniteSet(S) /\ Cardinality(S) \in Nat
           /\ \A e \in S : e[1] \in Nat
<1>1. IsFiniteSet(0..LastSecond) /\ IsFiniteSet(1..MostInLog)
  BY RateAssumption, FS_Interval
<1>2. IsFiniteSet(Entries)
  BY <1>1, FS_Product DEF Entries
<1>3. \A e \in S : e[1] \in 0..LastSecond
  BY DEF Entries
<1> QED BY <1>2, <1>3, FS_Subset, FS_CardinalityType, RateAssumption

\* Nothing has been called at first, and what is let through is a call.
LEMMA RateInitHolds == RateInit => RateInv
<1> SUFFICES ASSUME RateInit PROVE RateInv
  OBVIOUS
<1>1. \A t \in 0..LastSecond : Within(passed, t, t + Window - 1) = {}
  BY DEF RateInit, Within
<1>2. NoBurstDoubles
  BY <1>1, FS_EmptySet, RateAssumption DEF NoBurstDoubles
<1>3. RateTypeOK
  <2>1. now \in 0..LastSecond BY RateAssumption DEF RateInit
  <2>2. turnedAway \in BOOLEAN BY Zenon DEF RateInit
  <2>3. scanCall \in [ScanCalls -> {"idle", "checked"}] BY DEF RateInit
  <2> QED BY <2>1, <2>2, <2>3 DEF RateInit, RateTypeOK
<1> QED BY <1>2, <1>3 DEF RateInit, RateInv, LogIsRecent, OnlyFailuresCount

\* A call let through while the trimmed log is short of the limit leaves every
\* window within it.
LEMMA OneMoreFits ==
    ASSUME RateInv, ~Full(log), NEW x \in Entries, x[1] = now
    PROVE  \A t \in 0..LastSecond : Cardinality(Within(passed \cup {x}, t, t + Window - 1)) <= Limit
<1> SUFFICES ASSUME NEW t \in 0..LastSecond
             PROVE  Cardinality(Within(passed \cup {x}, t, t + Window - 1)) <= Limit
  OBVIOUS
<1> DEFINE last == t + Window - 1
           grown == Within(passed \cup {x}, t, last)
           kept == Trimmed(log)
<1>1. /\ now \in Nat /\ t \in Nat /\ Window \in Nat /\ Window > 0 /\ Limit \in Nat
      /\ passed \in SUBSET Entries /\ log \in SUBSET Entries
  BY RateAssumption DEF RateInv, RateTypeOK
<1>2. \A e \in passed : e[1] \in Nat
  BY <1>1, EntriesAreFinite
<1>3. CASE now \notin t..last
  <2>1. grown = Within(passed, t, last)
    BY <1>3 DEF Within
  <2> QED BY <2>1 DEF RateInv, NoBurstDoubles
<1>4. CASE now \in t..last
  <2>1. ASSUME NEW e \in grown PROVE e \in kept \cup {x}
    <3>1. e \in passed \cup {x} /\ e[1] \in t..last
      BY DEF Within
    <3>2. CASE e = x
      BY <3>2
    <3>3. CASE e \in passed
      <4>1. e[1] > now - Window
        BY <1>1, <1>2, <1>4, <3>1, <3>3
      <4> QED BY <3>3, <4>1 DEF RateInv, LogIsRecent, Trimmed
    <3> QED BY <3>1, <3>2, <3>3
  <2>2. kept \in SUBSET Entries
    BY <1>1 DEF Trimmed
  <2>3. IsFiniteSet(kept) /\ Cardinality(kept) \in Nat
    BY <2>2, EntriesAreFinite
  <2>4. Cardinality(kept) < Limit
    BY <1>1, <2>3 DEF Full
  <2>5. IsFiniteSet(kept \cup {x}) /\ Cardinality(kept \cup {x}) \in Nat
    BY <2>3, FS_AddElement, FS_CardinalityType
  <2>6. Cardinality(kept \cup {x}) = Cardinality(kept) \/ Cardinality(kept \cup {x}) = Cardinality(kept) + 1
    BY <2>3, FS_AddElement
  <2>7. IsFiniteSet(grown) /\ Cardinality(grown) <= Cardinality(kept \cup {x})
    BY <2>1, <2>5, FS_Subset
  <2>8. Cardinality(grown) \in Nat
    BY <2>7, FS_CardinalityType
  <2> QED BY <1>1, <2>3, <2>4, <2>5, <2>6, <2>7, <2>8
<1> QED BY <1>3, <1>4

\* An entry is of this second.
LEMMA EntryIsOfNow ==
    ASSUME NEW calls
    PROVE  Entry(calls)[1] = now
BY DEF Entry

\* A rule's call.
LEMMA ConsumeKeeps ==
    ASSUME RateInv, Consume
    PROVE  RateInv'
<1> DEFINE x == Entry(passed)
<1>1. /\ now' = now /\ failures' = failures /\ wrong' = wrong /\ scanCall' = scanCall /\ turnedAway' = turnedAway
      /\ x \in Entries
  BY DEF Consume
<1>2. x[1] = now
  BY EntryIsOfNow
<1>3. now \in Nat /\ Window \in Nat /\ Window > 0 /\ \A e \in passed : e[1] \in Nat
  BY RateAssumption, EntriesAreFinite DEF RateInv, RateTypeOK
<1> HIDE DEF x
<1>4. CASE Full(log)
  <2>1. log' = Trimmed(log) /\ passed' = passed
    BY <1>4 DEF Consume
  <2>2. LogIsRecent(log, passed)' 
    BY <1>1, <2>1 DEF RateInv, LogIsRecent, Trimmed
  <2>3. NoBurstDoubles'
    BY <2>1 DEF RateInv, NoBurstDoubles, Within
  <2>4. RateTypeOK'
    BY <1>1, <2>1 DEF RateInv, RateTypeOK, Trimmed
  <2> QED BY <1>1, <2>2, <2>3, <2>4 DEF RateInv, OnlyFailuresCount
<1>5. CASE ~Full(log)
  <2>1. log' = Trimmed(log) \cup {x} /\ passed' = passed \cup {x}
    BY <1>5 DEF Consume, x
  <2>2. LogIsRecent(log, passed)'
    BY <1>1, <1>2, <1>3, <2>1 DEF RateInv, LogIsRecent, Trimmed
  <2>3. NoBurstDoubles'
    BY <1>1, <1>2, <1>5, <2>1, OneMoreFits DEF NoBurstDoubles, Within
  <2>4. RateTypeOK'
    BY <1>1, <2>1 DEF RateInv, RateTypeOK, Trimmed
  <2> QED BY <1>1, <2>2, <2>3, <2>4 DEF RateInv, OnlyFailuresCount
<1> QED BY <1>4, <1>5

\* A scan looks at the log of wrong codes: what it finds there after trimming
\* was wrong within the window.
LEMMA CheckKeeps ==
    ASSUME RateInv, NEW r \in ScanCalls, CheckFailures(r)
    PROVE  RateInv'
<1> DEFINE recent == Within(wrong, now - Window + 1, now)
<1>1. /\ now' = now /\ log' = log /\ passed' = passed /\ wrong' = wrong /\ failures' = Trimmed(failures)
      /\ scanCall' = [scanCall EXCEPT ![r] = IF Full(failures) THEN "idle" ELSE "checked"]
      /\ turnedAway' = (turnedAway \/ (Full(failures) /\ Cardinality(recent) < Limit))
  BY DEF CheckFailures
<1>2. /\ now \in Nat /\ Window \in Nat /\ Window > 0 /\ Limit \in Nat
      /\ wrong \in SUBSET Entries /\ failures \in SUBSET wrong
      /\ \A e \in wrong : e[1] <= now
  BY RateAssumption DEF RateInv, RateTypeOK
<1>3. \A e \in wrong : e[1] \in Nat
  BY <1>2, EntriesAreFinite
<1>4. Trimmed(failures) \subseteq recent
  BY <1>2, <1>3 DEF Trimmed, Within
<1>5. recent \in SUBSET Entries
  BY <1>2 DEF Within
<1>6. IsFiniteSet(recent) /\ Cardinality(recent) \in Nat
  BY <1>5, EntriesAreFinite
<1>7. IsFiniteSet(Trimmed(failures)) /\ Cardinality(Trimmed(failures)) <= Cardinality(recent)
  BY <1>4, <1>6, FS_Subset
<1>8. Cardinality(Trimmed(failures)) \in Nat
  BY <1>7, FS_CardinalityType
<1>9. ~(Full(failures) /\ Cardinality(recent) < Limit)
  BY <1>2, <1>6, <1>7, <1>8 DEF Full
<1> HIDE DEF recent
<1>10. ~turnedAway' /\ turnedAway' \in BOOLEAN
  BY <1>1, <1>9, Zenon DEF RateInv, OnlyFailuresCount
<1>11. scanCall' \in [ScanCalls -> {"idle", "checked"}]
  BY <1>1 DEF RateInv, RateTypeOK
<1>12. failures' \subseteq wrong' /\ failures' \subseteq Entries
  BY <1>1, <1>2 DEF Trimmed
<1>13. NoBurstDoubles' /\ LogIsRecent(log, passed)'
  BY <1>1 DEF RateInv, NoBurstDoubles, LogIsRecent, Within
<1>14. RateTypeOK'
  BY <1>1, <1>10, <1>11, <1>12 DEF RateInv, RateTypeOK
<1> QED BY <1>1, <1>2, <1>10, <1>12, <1>13, <1>14 DEF RateInv, OnlyFailuresCount

\* The code is resolved, and counted if it was wrong.
LEMMA ResolveKeeps ==
    ASSUME RateInv, NEW r \in ScanCalls, NEW right \in BOOLEAN, ResolveCode(r, right)
    PROVE  RateInv'
<1> DEFINE x == Entry(wrong)
<1>1. /\ now' = now /\ log' = log /\ passed' = passed /\ turnedAway' = turnedAway /\ x \in Entries
      /\ scanCall' = [scanCall EXCEPT ![r] = "idle"]
  BY DEF ResolveCode
<1>2. \/ wrong' = wrong /\ failures' = failures
      \/ wrong' = wrong \cup {x} /\ failures' \subseteq Trimmed(failures) \cup {x}
  BY DEF ResolveCode, CountsFailure
<1>3. x[1] = now /\ now \in Nat
  BY EntryIsOfNow DEF RateInv, RateTypeOK
<1> HIDE DEF x
<1>4. failures' \subseteq wrong' /\ wrong' \subseteq Entries
  BY <1>1, <1>2 DEF RateInv, RateTypeOK, Trimmed
<1>5. \A e \in wrong' : e[1] <= now'
  BY <1>1, <1>2, <1>3 DEF RateInv
<1>6. scanCall' \in [ScanCalls -> {"idle", "checked"}]
  BY <1>1 DEF RateInv, RateTypeOK
<1>7. NoBurstDoubles' /\ LogIsRecent(log, passed)'
  BY <1>1 DEF RateInv, NoBurstDoubles, LogIsRecent, Within
<1>8. RateTypeOK'
  BY <1>1, <1>4, <1>6 DEF RateInv, RateTypeOK
<1> QED BY <1>1, <1>4, <1>5, <1>7, <1>8 DEF RateInv, OnlyFailuresCount

\* Time passes, and no window up to now reaches further back than before.
LEMMA SecondKeeps ==
    ASSUME RateInv, SecondPasses
    PROVE  RateInv'
<1>1. /\ now < LastSecond /\ now' = now + 1
      /\ UNCHANGED <<log, passed, failures, wrong, scanCall, turnedAway>>
  BY DEF SecondPasses
<1>2. /\ now \in Nat /\ LastSecond \in Nat /\ Window \in Nat
      /\ passed \in SUBSET Entries /\ wrong \in SUBSET Entries
  BY RateAssumption DEF RateInv, RateTypeOK
<1>3. (\A e \in passed : e[1] \in Nat) /\ (\A e \in wrong : e[1] \in Nat)
  BY <1>2, EntriesAreFinite
<1>4. LogIsRecent(log, passed)'
  BY <1>1, <1>2, <1>3 DEF RateInv, LogIsRecent
<1>5. \A e \in wrong' : e[1] <= now'
  BY <1>1, <1>2, <1>3 DEF RateInv
<1>6. NoBurstDoubles'
  BY <1>1 DEF RateInv, NoBurstDoubles, Within
<1>7. RateTypeOK'
  BY <1>1, <1>2 DEF RateInv, RateTypeOK
<1> QED BY <1>1, <1>4, <1>5, <1>6, <1>7 DEF RateInv, OnlyFailuresCount

\* The invariant of the limits: the logs agree with the calls they stand for,
\* whatever is asked at once (RateLimiterService, CheckInService.checkIn).
THEOREM LimitsInvariant == RateSpec => []RateInv
<1>1. RateInv /\ [RateNext]_rateVars => RateInv'
  <2> SUFFICES ASSUME RateInv, [RateNext]_rateVars PROVE RateInv'
    OBVIOUS
  <2>1. CASE UNCHANGED rateVars
    BY <2>1 DEF rateVars, RateInv, RateTypeOK, LogIsRecent, NoBurstDoubles, Within, OnlyFailuresCount
  <2>2. CASE RateNext
    BY <2>2, ConsumeKeeps, SecondKeeps, CheckKeeps, ResolveKeeps DEF RateNext
  <2> QED BY <2>1, <2>2
<1> QED BY <1>1, RateInitHolds, PTL DEF RateSpec

\* Every variable keeps its type.
THEOREM RateTypeCorrect == RateSpec => []RateTypeOK
<1>1. RateInv => RateTypeOK BY DEF RateInv
<1> QED BY <1>1, LimitsInvariant, PTL

\* However calls fall, no window's length lets more through than the limit,
\* and a scan is turned away only after that many wrong codes
\* (SLIDING_WINDOW, isExhausted).
THEOREM TheLimitsHold == RateSpec => []LimitsHold
<1>1. RateInv => LimitsHold BY DEF RateInv, LimitsHold
<1> QED BY <1>1, LimitsInvariant, PTL

-----------------------------------------------------------------------------
(***************************************************************************)
(* What is proved of each service holds in their composition: a behaviour  *)
(* of MCServices is one of every component, most of them standing still.   *)
(***************************************************************************)

\* A behaviour of the composition is one of each of the components.
THEOREM ServicesAreTheirParts ==
    ServicesSpec =>
        /\ Spec /\ SessionsSpec /\ PeopleSpec /\ TopUpsSpec /\ AlertsSpec /\ OfflineSpec /\ VoiceSpec
        /\ OutcomesSpec /\ MessagesSpec /\ LiveSpec /\ TrustSpec /\ FanoutSpec /\ RateSpec
<1> DEFINE serviceVars == <<part, vars, sessionVars, peopleVars, topUpVars, alertVars, offlineVars, voiceVars,
                            outcomesVars, messageVars, liveVars, trustVars, fanoutVars, rateVars>>
<1>1. ServicesInit =>
        /\ Init /\ SessionsInit /\ PeopleInit /\ TopUpsInit /\ AlertsInit /\ OfflineInit /\ VoiceInit
        /\ OutcomesInit /\ MessagesInit /\ LiveInit /\ TrustInit /\ FanoutInit /\ RateInit
  BY DEF ServicesInit
<1>2. ASSUME [ServicesNext]_serviceVars
      PROVE  /\ [Next]_vars /\ [SessionsNext]_sessionVars /\ [PeopleNext]_peopleVars /\ [TopUpsNext]_topUpVars
             /\ [AlertsNext]_alertVars /\ [OfflineNext]_offlineVars /\ [VoiceNext]_voiceVars
             /\ [OutcomesNext]_outcomesVars /\ [MessagesNext]_messageVars /\ [LiveNext]_liveVars
             /\ [TrustNext]_trustVars /\ [FanoutNext]_fanoutVars /\ [RateNext]_rateVars
  <2>1. CASE ServicesNext
    BY <2>1 DEF ServicesNext, Only
  <2>2. CASE UNCHANGED serviceVars
    BY <2>2
  <2> QED BY <1>2, <2>1, <2>2
<1> QED
  BY <1>1, <1>2, PTL DEF ServicesSpec, Spec, SessionsSpec, PeopleSpec, TopUpsSpec, AlertsSpec, OfflineSpec,
     VoiceSpec, OutcomesSpec, MessagesSpec, LiveSpec, TrustSpec, FanoutSpec, RateSpec

\* Every variable of the services has its type, in all of them.
THEOREM ServicesTypeCorrect == ServicesSpec => []ServicesTypeOK
<1>1. TypeOK /\ SessionsTypeOK /\ PeopleTypeOK /\ TopUpsTypeOK /\ AlertsTypeOK /\ OfflineTypeOK /\ VoiceTypeOK
        /\ OutcomesTypeOK /\ MessagesTypeOK /\ LiveTypeOK /\ TrustTypeOK /\ FanoutTypeOK /\ RateTypeOK
        => ServicesTypeOK
  BY DEF ServicesTypeOK
<1> QED
  BY <1>1, ServicesAreTheirParts, LifecycleTypeCorrect, SessionsTypeCorrect, PeopleTypeCorrect, TopUpsTypeCorrect,
     AlertsTypeCorrect, OfflineTypeCorrect, VoiceTypeCorrect, OutcomesTypeCorrect, MessagesTypeCorrect,
     LiveBoardTypeCorrect, TrustTypeCorrect, FanoutTypeCorrect, RateTypeCorrect, PTL
=============================================================================
