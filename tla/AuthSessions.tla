----------------------------- MODULE AuthSessions -----------------------------
(***************************************************************************)
(* One owner's account: codes sent by mail and their answers, sign-in, the *)
(* ways a session ends, and the owner company every sign-in makes sure of. *)
(*                                                                         *)
(* A session is a signed token that is good while its tokenVersion is the  *)
(* account's. A call is cut at its awaits; seen is the user document as it *)
(* was loaded, and a save writes only the paths the handler changed.       *)
(***************************************************************************)
EXTENDS Naturals, FiniteSets

CONSTANTS
    Calls,          \* calls of the API that may run at once
    Codes,          \* one-time codes, drawn so that two at a time differ
    NoCode,
    MaxAttempts,    \* wrong answers until a code is withdrawn
    MaxEnds,        \* calls that would log out or change the password
    MaxTroubles     \* calls that die, and mails that cannot be sent

ASSUME AttemptsAssumption == MaxAttempts \in Nat \ {0}
ASSUME BoundsAssumption == MaxEnds \in Nat /\ MaxTroubles \in Nat
ASSUME CallsAssumption == IsFiniteSet(Calls)
ASSUME CodesAssumption == NoCode \notin Codes

VARIABLES
    user,       \* the user document
    companies,  \* how many owner companies there are of this user
    arrived,    \* whether the code held has come by mail
    tokens,     \* the sessions opened
    call,       \* what each call is doing
    ends,       \* how many calls have set out to end sessions
    tries,      \* wrong answers that were compared with the code held
    ended,      \* the versions whose sessions have been ended
    crossed,    \* what calls have overlapped on
    troubles

vars == <<user, companies, arrived, tokens, call, ends, tries, ended, crossed, troubles>>

User == [verified: BOOLEAN, otp: Codes \cup {NoCode}, attempts: Nat,
         reset: {"none", "coded", "granted"}, password: Nat, version: Nat, company: BOOLEAN]
\* What the handlers use of the documents they load.
Copy == [attempts: Nat, password: Nat, version: Nat, company: BOOLEAN]
Token == [version: Nat, password: Nat]
Steps == {"idle", "mail", "unsend", "count", "clear", "accept", "find", "create", "link", "open",
          "change", "save", "grant", "logout"}
Kinds == {"none", "verify", "login", "change", "reset", "logout"}

\* What signup saves, with the first code.
NewUser(code) == [verified |-> FALSE, otp |-> code, attempts |-> 0, reset |-> "none",
            password |-> 0, version |-> 0, company |-> FALSE]
Loaded == [attempts |-> user.attempts, password |-> user.password,
           version |-> user.version, company |-> user.company]
Nothing == [attempts |-> 0, password |-> 0, version |-> 0, company |-> FALSE]
Idle == [pc |-> "idle", kind |-> "none", seen |-> Nothing, code |-> NoCode, password |-> 0]

Init ==
    /\ \E code \in Codes : user = NewUser(code)
    /\ companies = 0
    /\ arrived \in BOOLEAN
    /\ tokens = {}
    /\ call = [c \in Calls |-> Idle]
    /\ ends = 0
    /\ tries = 0
    /\ ended = {}
    /\ crossed = {}
    /\ troubles = 0

SessionOpen == \E t \in tokens : t.version = user.version

Begin(c, kind, pc) ==
    /\ call[c].pc = "idle"
    /\ call' = [call EXCEPT ![c] = [Idle EXCEPT !.pc = pc, !.kind = kind]]
Load(c, kind, pc) ==
    /\ call[c].pc = "idle"
    /\ call' = [call EXCEPT ![c] = [Idle EXCEPT !.pc = pc, !.kind = kind, !.seen = Loaded]]
Goes(c, pc) == call' = [call EXCEPT ![c].pc = pc]
Ends(c) == call' = [call EXCEPT ![c] = Idle]

\* What would be if a save wrote the whole copy.
SavedWhole(seen, want) ==
    [f \in DOMAIN user |-> IF f \in DOMAIN want THEN want[f] ELSE user[f]]

\* user.save() of a copy seen that was changed to want.
Saved(seen, want) ==
    [f \in DOMAIN user |-> IF f \in DOMAIN want /\ want[f] # seen[f] THEN want[f] ELSE user[f]]

-----------------------------------------------------------------------------
(* Codes by mail: resendOtp, signin, googleAuthCallback. What they read only *)
(* decides whether they go on. A code that expires is one nobody will give   *)
(* in time.                                                                  *)

Unused == Codes \ ({user.otp} \cup {call[c].code : c \in Calls})

StoreCode(c) ==
    /\ call[c].pc = "idle"
    /\ \E code \in Unused :
         /\ user' = [user EXCEPT !.otp = code]
         /\ call' = [call EXCEPT ![c] = [Idle EXCEPT !.pc = "mail", !.code = code]]
    /\ arrived' = FALSE
    /\ tries' = 0
    /\ UNCHANGED <<companies, tokens, ends, ended, crossed, troubles>>

Mail(c) ==
    /\ call[c].pc = "mail"
    /\ arrived' = (arrived \/ call[c].code = user.otp)
    /\ Ends(c)
    /\ UNCHANGED <<user, companies, tokens, ends, tries, ended, crossed, troubles>>

\* signin and resendOtp take the code back; googleAuthCallback just fails.
MailFails(c) ==
    /\ call[c].pc = "mail"
    /\ troubles < MaxTroubles
    /\ Goes(c, "unsend")
    /\ troubles' = troubles + 1
    /\ UNCHANGED <<user, companies, arrived, tokens, ends, tries, ended, crossed>>

TakeBack(c) ==
    /\ call[c].pc = "unsend"
    /\ user' = [user EXCEPT !.otp = NoCode]
    /\ Ends(c)
    /\ arrived' = FALSE
    /\ tries' = 0
    /\ UNCHANGED <<companies, tokens, ends, ended, crossed, troubles>>

-----------------------------------------------------------------------------
(* verifyOtp *)

\* With the code held, which has come by mail.
VerifyRight(c) ==
    /\ user.otp # NoCode /\ arrived
    /\ Load(c, "verify", "accept")
    /\ UNCHANGED <<user, companies, arrived, tokens, ends, tries, ended, crossed, troubles>>

\* With an older code, or another mistake.
VerifyWrong(c) ==
    /\ Begin(c, "verify", "count")
    /\ tries' = IF user.otp # NoCode THEN tries + 1 ELSE tries
    /\ UNCHANGED <<user, companies, arrived, tokens, ends, ended, crossed, troubles>>

\* What would be if the $inc returned the document from before it.
VerifyCountBefore(c) ==
    /\ call[c].pc = "count"
    /\ user' = [user EXCEPT !.attempts = @ + 1]
    /\ IF user.attempts >= MaxAttempts THEN Goes(c, "clear") ELSE Ends(c)
    /\ UNCHANGED <<companies, arrived, tokens, ends, tries, ended, crossed, troubles>>

\* The $inc, and what it returned.
VerifyCount(c) ==
    /\ call[c].pc = "count"
    /\ user' = [user EXCEPT !.attempts = @ + 1]
    /\ IF user.attempts + 1 >= MaxAttempts THEN Goes(c, "clear") ELSE Ends(c)
    /\ UNCHANGED <<companies, arrived, tokens, ends, tries, ended, crossed, troubles>>

\* What would be if the attempts were unset with the code.
VerifyClearUnset(c) ==
    /\ call[c].pc = "clear"
    /\ user' = [user EXCEPT !.otp = NoCode, !.attempts = NoCode]
    /\ Ends(c)
    /\ arrived' = FALSE
    /\ tries' = 0
    /\ UNCHANGED <<companies, tokens, ends, ended, crossed, troubles>>

VerifyClear(c) ==
    /\ call[c].pc = "clear"
    /\ user' = [user EXCEPT !.otp = NoCode, !.attempts = 0]
    /\ Ends(c)
    /\ arrived' = FALSE
    /\ tries' = 0
    /\ UNCHANGED <<companies, tokens, ends, ended, crossed, troubles>>

VerifyAccept(c) ==
    LET seen == call[c].seen
        want == [seen EXCEPT !.attempts = 0]
    IN
    /\ call[c].pc = "accept"
    /\ user' = [Saved(seen, want) EXCEPT !.verified = TRUE, !.otp = NoCode]
    /\ call' = [call EXCEPT ![c].pc = "find", ![c].seen = want]
    /\ arrived' = FALSE
    /\ tries' = 0
    /\ UNCHANGED <<companies, tokens, ends, ended, crossed, troubles>>

-----------------------------------------------------------------------------
(* login, and ensureOwnerCompanyForUser with what follows it. Every session *)
(* is opened with the company linked, so that getMe finds nothing to do.    *)

LoginRead(c) ==
    /\ user.verified
    /\ Load(c, "login", "find")
    /\ UNCHANGED <<user, companies, arrived, tokens, ends, tries, ended, crossed, troubles>>

\* The next step once there is a company.
Joined(c) == IF ~call[c].seen.company THEN "link" ELSE "open"

\* What would be if only the link of the user were looked at.
FindCompanyLinked(c) ==
    /\ call[c].pc = "find"
    /\ Goes(c, IF call[c].seen.company THEN "open" ELSE "create")
    /\ UNCHANGED <<user, companies, arrived, tokens, ends, tries, ended, crossed, troubles>>

FindCompany(c) ==
    /\ call[c].pc = "find"
    /\ Goes(c, IF companies = 0 THEN "create" ELSE Joined(c))
    /\ UNCHANGED <<user, companies, arrived, tokens, ends, tries, ended, crossed, troubles>>

CreateCompany(c) ==
    /\ call[c].pc = "create"
    /\ companies' = companies + 1
    /\ crossed' = IF \E d \in Calls \ {c} : call[d].pc = "create" THEN crossed \cup {"company"} ELSE crossed
    /\ Goes(c, Joined(c))
    /\ UNCHANGED <<user, arrived, tokens, ends, tries, ended, troubles>>

LinkCompany(c) ==
    LET seen == call[c].seen IN
    /\ call[c].pc = "link"
    /\ user' = Saved(seen, [seen EXCEPT !.company = TRUE])
    /\ Goes(c, "open")
    /\ UNCHANGED <<companies, arrived, tokens, ends, tries, ended, crossed, troubles>>

\* What would be if the version were read when the session is opened.
OpenSessionNow(c) ==
    /\ call[c].pc = "open"
    /\ tokens' = tokens \cup {[version |-> user.version, password |-> call[c].seen.password]}
    /\ Ends(c)
    /\ UNCHANGED <<user, companies, arrived, ends, tries, ended, crossed, troubles>>

\* buildOwnerToken, from the copy that was checked.
OpenSession(c) ==
    /\ call[c].pc = "open"
    /\ tokens' = tokens \cup {[version |-> call[c].seen.version, password |-> call[c].seen.password]}
    /\ Ends(c)
    /\ UNCHANGED <<user, companies, arrived, ends, tries, ended, crossed, troubles>>

-----------------------------------------------------------------------------
(* What ends sessions: changePassword, resetPassword, logout *)

\* A write of the version between the read and the save of another call.
Crossing(c) ==
    crossed' = IF \E d \in Calls \ {c} : call[d].pc = "save" THEN crossed \cup {"end"} ELSE crossed

\* authenticateToken lets the call in.
Enter(c, kind) ==
    /\ SessionOpen /\ ends < MaxEnds
    /\ Begin(c, kind, kind)
    /\ ends' = ends + 1
    /\ UNCHANGED <<user, companies, arrived, tokens, tries, ended, crossed, troubles>>

\* changePassword has loaded the user, and the current password is right.
ChangeRead(c) ==
    /\ call[c].pc = "change"
    /\ call' = [call EXCEPT ![c].pc = "save", ![c].seen = Loaded, ![c].password = ends]
    /\ UNCHANGED <<user, companies, arrived, tokens, ends, tries, ended, crossed, troubles>>

\* forgotPassword: a code of its own, and an earlier grant is void.
ForgotPassword(c) ==
    /\ call[c].pc = "idle"
    /\ user.reset # "coded"
    /\ user' = [user EXCEPT !.reset = "coded"]
    /\ UNCHANGED <<companies, arrived, tokens, call, ends, tries, ended, crossed, troubles>>

\* verifyForgotPasswordOtp with the right code.
ResetCodeRead(c) ==
    /\ user.reset = "coded"
    /\ Begin(c, "reset", "grant")
    /\ UNCHANGED <<user, companies, arrived, tokens, ends, tries, ended, crossed, troubles>>

ResetGrant(c) ==
    /\ call[c].pc = "grant"
    /\ user' = [user EXCEPT !.reset = "granted"]
    /\ Ends(c)
    /\ UNCHANGED <<companies, arrived, tokens, ends, tries, ended, crossed, troubles>>

\* resetPassword with the token granted.
ResetRead(c) ==
    /\ user.reset = "granted" /\ ends < MaxEnds
    /\ call[c].pc = "idle"
    /\ call' = [call EXCEPT ![c] = [Idle EXCEPT
         !.pc = "save", !.kind = "reset", !.seen = Loaded, !.password = ends + 1]]
    /\ ends' = ends + 1
    /\ UNCHANGED <<user, companies, arrived, tokens, tries, ended, crossed, troubles>>

\* The new password and the version seen plus one, in one save.
SavePassword(c) ==
    LET seen == call[c].seen
        want == [seen EXCEPT !.password = call[c].password, !.version = seen.version + 1]
    IN
    /\ call[c].pc = "save"
    /\ user' = [Saved(seen, want) EXCEPT !.reset = IF call[c].kind = "reset" THEN "none" ELSE @]
    /\ ended' = ended \cup {user.version}
    /\ Crossing(c)
    /\ Ends(c)
    /\ UNCHANGED <<companies, arrived, tokens, ends, tries, troubles>>

Logout(c) ==
    /\ call[c].pc = "logout"
    /\ user' = [user EXCEPT !.version = @ + 1]
    /\ ended' = ended \cup {user.version}
    /\ Crossing(c)
    /\ Ends(c)
    /\ UNCHANGED <<companies, arrived, tokens, ends, tries, troubles>>

-----------------------------------------------------------------------------
\* An await of a call throws, or the process dies.
CallDies(c) ==
    /\ call[c].pc # "idle"
    /\ troubles < MaxTroubles
    /\ Ends(c)
    /\ troubles' = troubles + 1
    /\ UNCHANGED <<user, companies, arrived, tokens, ends, tries, ended, crossed>>

CodeStep(c) ==
    StoreCode(c) \/ Mail(c) \/ MailFails(c) \/ TakeBack(c)
VerifyStep(c) ==
    \/ VerifyRight(c) \/ VerifyWrong(c)
    \/ VerifyCount(c) \/ VerifyClear(c) \/ VerifyAccept(c)
SessionStep(c) ==
    \/ LoginRead(c) \/ FindCompany(c) \/ CreateCompany(c) \/ LinkCompany(c)
    \/ OpenSession(c)
EndStep(c) ==
    \/ Enter(c, "change") \/ Enter(c, "logout")
    \/ ChangeRead(c)
    \/ ForgotPassword(c) \/ ResetCodeRead(c) \/ ResetGrant(c) \/ ResetRead(c)
    \/ SavePassword(c) \/ Logout(c)

Next == \E c \in Calls : CodeStep(c) \/ VerifyStep(c) \/ SessionStep(c) \/ EndStep(c) \/ CallDies(c)

Spec == Init /\ [][Next]_vars

-----------------------------------------------------------------------------
(* Properties *)

TypeOK ==
    /\ user \in User
    /\ companies \in Nat
    /\ arrived \in BOOLEAN
    /\ tokens \subseteq Token
    /\ call \in [Calls -> [pc: Steps, kind: Kinds, seen: Copy,
                        code: Codes \cup {NoCode}, password: Nat]]
    /\ ends \in 0..MaxEnds /\ tries \in Nat /\ troubles \in 0..MaxTroubles
    /\ ended \subseteq Nat
    /\ crossed \subseteq {"end", "company"}

\* Sessions that were ended, by a logout or a change of the password, never
\* become good again, whatever calls hold older copies of the account, unless
\* a call that ends sessions overlapped another's change of the password.
SessionsStayEnded == "end" \notin crossed => user.version \notin ended

\* A session that is good was opened under the password there is now: a
\* sign-in that overtakes a change of the password opens a dead session.
OldPasswordSessionsEnd ==
    "end" \notin crossed =>
        \A t \in tokens : t.version = user.version => t.password = user.password

\* However many wrong answers arrive at once, and whatever codes are sent,
\* used up or taken back meanwhile, no code survives more of them than are
\* allowed, but for those whose calls are still counting or died over it.
GuessesBounded ==
    user.otp # NoCode =>
        tries < MaxAttempts + troubles + Cardinality({c \in Calls : call[c].pc \in {"count", "clear"}})

\* An owner gets one company, also when a sign-in dies between creating it
\* and linking it, unless two calls found none at the same time.
OneOwnerCompany == "company" \notin crossed => companies <= 1

=============================================================================
