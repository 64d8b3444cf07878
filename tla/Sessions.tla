------------------------------ MODULE Sessions ------------------------------
(***************************************************************************)
(* Signing in, staying signed in and signing out: one person, the browsers *)
(* they use, the open pages in them, and the API's Redis keys.             *)
(*                                                                         *)
(* A one-time password is a hash with a code and a count of wrong tries,   *)
(* read once and written later by each request that tries it.  A refresh   *)
(* token is a key that holds its user, or a tombstone once it was used; a  *)
(* set lists the user's tokens, for a replay to revoke.  A browser keeps   *)
(* one refresh cookie for all its pages; a page keeps its access token in  *)
(* memory and has at most one refresh in flight.  Commands of one MULTI    *)
(* are one step, and anything may come between two of them.                *)
(***************************************************************************)
EXTENDS Integers, FiniteSets

CONSTANTS
    Pages, Browsers,
    BrowserOf,                    \* the browser each page is open in
    OtpTries,                     \* MAX_OTP_ATTEMPTS
    MaxTokens, MaxCodes, MaxLost  \* bounds on tokens, codes and lost answers

ASSUME SessionsAssumption ==
    /\ BrowserOf \in [Pages -> Browsers] /\ IsFiniteSet(Pages)
    /\ {OtpTries, MaxTokens, MaxCodes} \subseteq Nat \ {0} /\ MaxLost \in Nat

VARIABLES
    otp,        \* the hash otp:<phone>: code (0: none) and attempts
    otpTries,   \* how often each code was compared with what somebody typed
    issued,     \* refresh tokens and codes handed out so far
    refreshKey, \* refresh:token:<token>
    userSet,    \* refresh:user:<user>
    jar,        \* the refresh cookie of each browser (0: none)
    signedIn,   \* the pages that hold an access token
    authCall,   \* the request each page has in flight
    lost        \* answers that never arrived

otpVars == <<otp, otpTries>>
tokenVars == <<refreshKey, userSet>>
sessionVars == <<otp, otpTries, issued, refreshKey, userSet, jar, signedIn, authCall, lost>>

Tokens == 1..MaxTokens
Codes == 1..MaxCodes
AuthSteps == {"none", "try", "count", "lock", "burn", "issue", "read", "consume",
              "list", "revoke", "find", "drop", "refused", "ended", "granted", "cleared"}
AnswerKinds == {"refused", "ended", "granted", "cleared"}
\* at: the next step; key: the token or code in hand; seen: the tokens it listed.
AuthCall == [at : AuthSteps, key : 0..(MaxTokens + MaxCodes), seen : SUBSET Tokens]
NoCall == [at |-> "none", key |-> 0, seen |-> {}]

SessionsInit ==
    /\ otp = [code |-> 0, attempts |-> 0] /\ otpTries = [c \in Codes |-> 0]
    /\ issued = [tokens |-> 0, codes |-> 0]
    /\ refreshKey = [k \in Tokens |-> "absent"] /\ userSet = {}
    /\ jar = [b \in Browsers |-> 0] /\ signedIn = {}
    /\ authCall = [p \in Pages |-> NoCall] /\ lost = 0

Cookie(p) == jar[BrowserOf[p]]
Goes(p, step) == authCall' = [authCall EXCEPT ![p].at = step]
Carries(p, step, key) == authCall' = [authCall EXCEPT ![p] = [NoCall EXCEPT !.at = step, !.key = key]]
Asks(p, step, key) == authCall[p].at = "none" /\ Carries(p, step, key)

-----------------------------------------------------------------------------
(* One-time passwords. *)

\* A new code takes the place of the old one, wrong tries included.  The rate
\* limits, RateLimits' subject, let a person have three in a quarter of an hour.
RequestOtp(p) ==
    /\ authCall[p] = NoCall /\ issued.codes < MaxCodes
    /\ issued' = [issued EXCEPT !.codes = @ + 1]
    /\ otp' = [code |-> issued'.codes, attempts |-> 0]
    /\ UNCHANGED <<otpTries, tokenVars, jar, signedIn, authCall, lost>>

\* Five minutes after it was issued a code is gone.
ExpireOtp ==
    /\ otp.code # 0
    /\ otp' = [code |-> 0, attempts |-> 0]
    /\ UNCHANGED <<otpTries, issued, tokenVars, jar, signedIn, authCall, lost>>

\* The login page sends what was typed, one try at a time: the code of a message
\* that arrived, or (0) something else.
TypeOtp(p, typed) ==
    /\ Asks(p, "try", typed)
    /\ UNCHANGED <<otpVars, issued, tokenVars, jar, signedIn, lost>>

\* Mutant: a wrong try is refused without being counted.
AfterTryUncounted(typed) ==
    IF otp.code = 0 THEN "refused"
    ELSE IF otp.attempts >= OtpTries THEN "lock"
    ELSE IF otp.code = typed THEN "burn" ELSE "refused"

\* What verifyOtp does next, by the hash it read.
AfterTry(typed) ==
    IF otp.code = 0 THEN "refused"
    ELSE IF otp.attempts >= OtpTries THEN "lock"
    ELSE IF otp.code = typed THEN "burn"
    ELSE IF otp.attempts + 1 >= OtpTries THEN "lock" ELSE "count"

TryOtp(p) ==
    /\ authCall[p].at = "try"
    /\ Goes(p, AfterTry(authCall[p].key))
    /\ otpTries' = IF otp.code # 0 /\ otp.attempts < OtpTries
                   THEN [otpTries EXCEPT ![otp.code] = @ + 1] ELSE otpTries
    /\ UNCHANGED <<otp, issued, tokenVars, jar, signedIn, lost>>

\* HINCRBY makes the hash again, without a code, if it has gone meanwhile.
CountTry(p) ==
    /\ authCall[p].at = "count"
    /\ otp' = [otp EXCEPT !.attempts = @ + 1]
    /\ Goes(p, "refused")
    /\ UNCHANGED <<otpTries, issued, tokenVars, jar, signedIn, lost>>

\* DEL, whichever code is there by now: after too many tries, or the right one.
DropOtp(p) ==
    /\ authCall[p].at \in {"lock", "burn"}
    /\ otp' = [code |-> 0, attempts |-> 0]
    /\ Goes(p, IF authCall[p].at = "lock" THEN "refused" ELSE "issue")
    /\ UNCHANGED <<otpTries, issued, tokenVars, jar, signedIn, lost>>

-----------------------------------------------------------------------------
(* Refresh tokens. *)

\* A page without an access token, or with one refused or about to expire,
\* refreshes, once however many of its parts ask.  Without a cookie the answer
\* is a refusal at once.
Refresh(p) ==
    /\ Asks(p, IF Cookie(p) = 0 THEN "ended" ELSE "read", Cookie(p))
    /\ UNCHANGED <<otpVars, issued, tokenVars, jar, signedIn, lost>>

ReadToken(p) ==
    /\ authCall[p].at = "read"
    /\ Goes(p, CASE refreshKey[authCall[p].key] = "live" -> "consume"
                 [] refreshKey[authCall[p].key] = "consumed" -> "list"
                 [] OTHER -> "ended")
    /\ UNCHANGED <<otpVars, issued, tokenVars, jar, signedIn, lost>>

\* The tombstone is set whatever has become of the key since it was read.
ConsumeToken(p) ==
    /\ authCall[p].at = "consume"
    /\ refreshKey' = [refreshKey EXCEPT ![authCall[p].key] = "consumed"]
    /\ userSet' = userSet \ {authCall[p].key}
    /\ Goes(p, "issue")
    /\ UNCHANGED <<otpVars, issued, jar, signedIn, lost>>

IssueToken(p) ==
    /\ authCall[p].at = "issue" /\ issued.tokens < MaxTokens
    /\ issued' = [issued EXCEPT !.tokens = @ + 1]
    /\ refreshKey' = [refreshKey EXCEPT ![issued'.tokens] = "live"]
    /\ userSet' = userSet \cup {issued'.tokens}
    /\ Carries(p, "granted", issued'.tokens)
    /\ UNCHANGED <<otpVars, jar, signedIn, lost>>

\* A used token is taken for a stolen one: list the user's tokens, then drop them.
ListTokens(p) ==
    /\ authCall[p].at = "list"
    /\ authCall' = [authCall EXCEPT ![p].seen = userSet,
                                    ![p].at = IF userSet = {} THEN "ended" ELSE "revoke"]
    /\ UNCHANGED <<otpVars, issued, tokenVars, jar, signedIn, lost>>

RevokeTokens(p) ==
    /\ authCall[p].at = "revoke"
    /\ refreshKey' = [k \in Tokens |-> IF k \in authCall[p].seen THEN "absent" ELSE refreshKey[k]]
    /\ userSet' = {}
    /\ Goes(p, "ended")
    /\ UNCHANGED <<otpVars, issued, jar, signedIn, lost>>

\* Ninety days after it was issued a token, or its tombstone, is gone.
ExpireToken(k) ==
    /\ refreshKey[k] # "absent"
    /\ refreshKey' = [refreshKey EXCEPT ![k] = "absent"]
    /\ UNCHANGED <<otpVars, issued, userSet, jar, signedIn, authCall, lost>>

-----------------------------------------------------------------------------
(* Signing out, and answers. *)

SignOut(p) ==
    /\ p \in signedIn
    /\ Asks(p, IF Cookie(p) = 0 THEN "cleared" ELSE "find", Cookie(p))
    /\ UNCHANGED <<otpVars, issued, tokenVars, jar, signedIn, lost>>

FindToken(p) ==
    /\ authCall[p].at = "find"
    /\ Goes(p, IF refreshKey[authCall[p].key] = "live" THEN "drop" ELSE "cleared")
    /\ UNCHANGED <<otpVars, issued, tokenVars, jar, signedIn, lost>>

DropToken(p) ==
    /\ authCall[p].at = "drop"
    /\ refreshKey' = [refreshKey EXCEPT ![authCall[p].key] = "absent"]
    /\ userSet' = userSet \ {authCall[p].key}
    /\ Goes(p, "cleared")
    /\ UNCHANGED <<otpVars, issued, jar, signedIn, lost>>

\* Mutant: only a sign-in brings a cookie, and the rotated one is not passed on.
CookieAfterKept(p) ==
    CASE authCall[p].at = "granted" -> IF Cookie(p) = 0 THEN authCall[p].key ELSE Cookie(p)
      [] authCall[p].at = "cleared" -> 0
      [] OTHER -> Cookie(p)

\* A refusal to refresh leaves the cookie as it was.
CookieAfter(p) ==
    CASE authCall[p].at = "granted" -> authCall[p].key
      [] authCall[p].at = "cleared" -> 0
      [] OTHER -> Cookie(p)

\* The browser takes the cookie from the answer and the page its access token.
Receive(p) ==
    /\ authCall[p].at \in AnswerKinds
    /\ jar' = [jar EXCEPT ![BrowserOf[p]] = CookieAfter(p)]
    /\ signedIn' = CASE authCall[p].at = "granted" -> signedIn \cup {p}
                     [] authCall[p].at = "refused" -> signedIn
                     [] OTHER -> signedIn \ {p}
    /\ authCall' = [authCall EXCEPT ![p] = NoCall]
    /\ UNCHANGED <<otpVars, issued, tokenVars, lost>>

\* The answer is lost on the way, and with it the cookie it carries.
LoseAnswer(p) ==
    /\ authCall[p].at \in AnswerKinds /\ lost < MaxLost
    /\ lost' = lost + 1
    /\ authCall' = [authCall EXCEPT ![p] = NoCall]
    /\ UNCHANGED <<otpVars, issued, tokenVars, jar, signedIn>>

-----------------------------------------------------------------------------
SessionsNext ==
    \/ \E p \in Pages :
        \/ RequestOtp(p) \/ TryOtp(p) \/ CountTry(p) \/ DropOtp(p)
        \/ \E typed \in 0..issued.codes : TypeOtp(p, typed)
        \/ Refresh(p) \/ ReadToken(p) \/ ConsumeToken(p) \/ IssueToken(p)
        \/ ListTokens(p) \/ RevokeTokens(p)
        \/ SignOut(p) \/ FindToken(p) \/ DropToken(p)
        \/ Receive(p) \/ LoseAnswer(p)
    \/ ExpireOtp
    \/ \E k \in Tokens : ExpireToken(k)

SessionsSpec == SessionsInit /\ [][SessionsNext]_sessionVars

-----------------------------------------------------------------------------
(* Properties. *)

\* Every variable has its type, and no browser holds a token that was not issued.
SessionsTypeOK ==
    /\ otp \in [code : 0..MaxCodes, attempts : Nat] /\ otpTries \in [Codes -> Nat]
    /\ issued \in [tokens : 0..MaxTokens, codes : 0..MaxCodes]
    /\ refreshKey \in [Tokens -> {"absent", "live", "consumed"}] /\ userSet \subseteq Tokens
    /\ jar \in [Browsers -> 0..issued.tokens] /\ signedIn \subseteq Pages
    /\ authCall \in [Pages -> AuthCall] /\ lost \in 0..MaxLost

\* Requests that try a code at the same time share one reading of its count, so
\* more than OtpTries tries get through; but each request has one try in
\* flight, so at most one more for each other request (verifyOtp).
TriesBounded == \A c \in Codes : otpTries[c] <= OtpTries + Cardinality(Pages) - 1

\* While no two pages share a browser, nobody is taken for a thief, and signed
\* out everywhere, unless an answer was lost: a page sends one refresh at a time,
\* and the cookie it then holds is the one it was given (api-client.ts,
\* rotateRefreshToken).
ReplayMeansLostAnswer ==
    (\A p, q \in Pages : BrowserOf[p] = BrowserOf[q] => p = q) =>
        \A p \in Pages : authCall[p].at \in {"list", "revoke"} => lost > 0
=============================================================================
