--------------------------- MODULE AuthSessionsProofs ---------------------------
(***************************************************************************)
(* Proofs about AuthSessions: its types, that sessions which were ended    *)
(* stay ended, that those of an old password are among them, and that an   *)
(* owner gets one company.                                                 *)
(***************************************************************************)
EXTENDS AuthSessions, FiniteSetTheorems, TLAPS

Call == [pc: Steps, kind: Kinds, seen: Copy, code: Codes \cup {NoCode}, password: Nat]

-----------------------------------------------------------------------------
(* The records *)

LEMMA NothingType == Nothing \in Copy
BY DEF Nothing, Copy

LEMMA IdleType == Idle \in Call /\ Idle.pc = "idle"
BY NothingType DEF Idle, Call, Steps, Kinds

LEMMA LoadedType ==
  ASSUME user \in User
  PROVE  /\ Loaded \in Copy
         /\ Loaded.version = user.version
         /\ Loaded.password = user.password
BY DEF Loaded, User, Copy

\* A save of a copy in which only the attempts or the company were changed
\* leaves the version and the password of the document alone.
LEMMA SavedType ==
  ASSUME user \in User, NEW seen \in Copy, NEW want \in Copy
  PROVE  /\ Saved(seen, want) \in User
         /\ Saved(seen, want).version =
                IF want.version # seen.version THEN want.version ELSE user.version
         /\ Saved(seen, want).password =
                IF want.password # seen.password THEN want.password ELSE user.password
<1>1. DOMAIN user = {"verified", "otp", "attempts", "reset", "password", "version", "company"}
  BY DEF User
<1>2. DOMAIN want = {"attempts", "password", "version", "company"}
  BY DEF Copy
<1>3. Saved(seen, want) =
        [verified |-> user.verified, otp |-> user.otp,
         attempts |-> IF want.attempts # seen.attempts THEN want.attempts ELSE user.attempts,
         reset |-> user.reset,
         password |-> IF want.password # seen.password THEN want.password ELSE user.password,
         version |-> IF want.version # seen.version THEN want.version ELSE user.version,
         company |-> IF want.company # seen.company THEN want.company ELSE user.company]
  BY <1>1, <1>2 DEF Saved
<1> QED
  BY <1>3 DEF User, Copy

\* How a call begins, with or without a copy of the account.
LEMMA BeginType ==
  ASSUME TypeOK, NEW c \in Calls, NEW kind \in Kinds, NEW pc \in Steps,
         Begin(c, kind, pc)
  PROVE  /\ call' \in [Calls -> Call]
         /\ call'[c].pc = pc
         /\ \A d \in Calls \ {c} : call'[d] = call[d]
<1> DEFINE n == [Idle EXCEPT !.pc = pc, !.kind = kind]
<1>1. n \in Call /\ n.pc = pc
  BY IdleType DEF Call
<1> QED
  BY <1>1 DEF Begin, TypeOK, Call

LEMMA LoadType ==
  ASSUME TypeOK, NEW c \in Calls, NEW kind \in Kinds, NEW pc \in Steps,
         Load(c, kind, pc)
  PROVE  /\ call' \in [Calls -> Call]
         /\ call'[c].pc = pc
         /\ call'[c].seen.version = user.version
         /\ call'[c].seen.password = user.password
         /\ \A d \in Calls \ {c} : call'[d] = call[d]
<1> DEFINE n == [Idle EXCEPT !.pc = pc, !.kind = kind, !.seen = Loaded]
<1>1. n \in Call /\ n.pc = pc /\ n.seen = Loaded
  BY IdleType, LoadedType DEF Call, TypeOK
<1> QED
  BY <1>1, LoadedType DEF Load, TypeOK, Call

LEMMA GoesType ==
  ASSUME TypeOK, NEW c \in Calls, NEW pc \in Steps, Goes(c, pc)
  PROVE  /\ call' \in [Calls -> Call]
         /\ call'[c].pc = pc
         /\ call'[c].seen = call[c].seen
         /\ \A d \in Calls \ {c} : call'[d] = call[d]
<1> DEFINE n == [call[c] EXCEPT !.pc = pc]
<1>1. n \in Call /\ n.pc = pc /\ n.seen = call[c].seen
  BY DEF Call, TypeOK
<1> QED
  BY <1>1 DEF Goes, TypeOK, Call

LEMMA EndsType ==
  ASSUME TypeOK, NEW c \in Calls, Ends(c)
  PROVE  /\ call' \in [Calls -> Call]
         /\ call'[c].pc = "idle"
         /\ \A d \in Calls \ {c} : call'[d] = call[d]
BY IdleType DEF Ends, TypeOK, Call

-----------------------------------------------------------------------------
(* Type correctness *)

LEMMA TypeInit == Init => TypeOK
<1> SUFFICES ASSUME Init
             PROVE  TypeOK
  OBVIOUS
<1>1. user \in User
  BY DEF Init, NewUser, User
<1>2. call \in [Calls -> Call]
  BY IdleType DEF Init
<1>3. ends \in 0..MaxEnds /\ troubles \in 0..MaxTroubles
  BY BoundsAssumption DEF Init
<1> QED
  BY <1>1, <1>2, <1>3 DEF Init, TypeOK, Call

LEMMA TypeStep ==
  ASSUME TypeOK, NEW c \in Calls,
         CodeStep(c) \/ VerifyStep(c) \/ SessionStep(c) \/ EndStep(c) \/ CallDies(c)
  PROVE  TypeOK'
<1> USE DEF Steps, Kinds
<1>1. CASE StoreCode(c)
  <2>1. PICK code \in Unused :
           /\ user' = [user EXCEPT !.otp = code]
           /\ call' = [call EXCEPT ![c] = [Idle EXCEPT !.pc = "mail", !.code = code]]
    BY <1>1 DEF StoreCode
  <2>2. code \in Codes
    BY DEF Unused
  <2>3. user' \in User
    BY <2>1, <2>2 DEF TypeOK, User
  <2>4. [Idle EXCEPT !.pc = "mail", !.code = code] \in Call
    BY <2>2, IdleType DEF Call
  <2>5. call' \in [Calls -> Call]
    BY <2>1, <2>4 DEF TypeOK, Call
  <2> QED
    BY <1>1, <2>3, <2>5 DEF StoreCode, TypeOK, Call
<1>2. CASE Mail(c)
  <2>1. call' \in [Calls -> Call]
    BY <1>2, EndsType DEF Mail
  <2> QED
    BY <1>2, <2>1 DEF Mail, TypeOK, Call
<1>3. CASE MailFails(c)
  <2>1. call' \in [Calls -> Call]
    BY <1>3, GoesType DEF MailFails
  <2> QED
    BY <1>3, <2>1, BoundsAssumption DEF MailFails, TypeOK, Call
<1>4. CASE TakeBack(c)
  <2>1. call' \in [Calls -> Call]
    BY <1>4, EndsType DEF TakeBack
  <2>2. user' \in User
    BY <1>4 DEF TakeBack, TypeOK, User
  <2> QED
    BY <1>4, <2>1, <2>2 DEF TakeBack, TypeOK, Call
<1>5. CASE VerifyRight(c)
  <2>1. call' \in [Calls -> Call]
    BY <1>5, LoadType DEF VerifyRight
  <2> QED
    BY <1>5, <2>1 DEF VerifyRight, TypeOK, Call
<1>6. CASE VerifyWrong(c)
  <2>1. call' \in [Calls -> Call]
    BY <1>6, BeginType DEF VerifyWrong
  <2>2. tries' \in Nat
    BY <1>6 DEF VerifyWrong, TypeOK
  <2> QED
    BY <1>6, <2>1, <2>2 DEF VerifyWrong, TypeOK, Call
<1>7. CASE VerifyCount(c)
  <2>1. call' \in [Calls -> Call]
    BY <1>7, GoesType, EndsType DEF VerifyCount
  <2>2. user' \in User
    <3>1. user.attempts + 1 \in Nat
      BY DEF TypeOK, User
    <3> QED
      BY <1>7, <3>1 DEF VerifyCount, TypeOK, User
  <2> QED
    BY <1>7, <2>1, <2>2 DEF VerifyCount, TypeOK, Call
<1>8. CASE VerifyClear(c)
  <2>1. call' \in [Calls -> Call]
    BY <1>8, EndsType DEF VerifyClear
  <2>2. user' \in User
    BY <1>8 DEF VerifyClear, TypeOK, User
  <2> QED
    BY <1>8, <2>1, <2>2 DEF VerifyClear, TypeOK, Call
<1>9. CASE VerifyAccept(c)
  <2> DEFINE seen == call[c].seen
             want == [seen EXCEPT !.attempts = 0]
  <2>1. call[c] \in Call /\ seen \in Copy /\ want \in Copy
    BY DEF TypeOK, Call, Copy
  <2>2. Saved(seen, want) \in User
    BY <2>1, SavedType DEF TypeOK
  <2>3. user' = [Saved(seen, want) EXCEPT !.verified = TRUE, !.otp = NoCode]
    BY <1>9 DEF VerifyAccept
  <2>4. user' \in User
    BY <2>2, <2>3 DEF User
  <2>5. [call[c] EXCEPT !.pc = "find", !.seen = want] \in Call
    BY <2>1 DEF Call
  <2>6. call' = [call EXCEPT ![c] = [call[c] EXCEPT !.pc = "find", !.seen = want]]
    BY <1>9 DEF VerifyAccept, TypeOK
  <2>7. call' \in [Calls -> Call]
    BY <2>5, <2>6 DEF TypeOK, Call
  <2> QED
    BY <1>9, <2>4, <2>7 DEF VerifyAccept, TypeOK, Call
<1>10. CASE LoginRead(c)
  <2>1. call' \in [Calls -> Call]
    BY <1>10, LoadType DEF LoginRead
  <2> QED
    BY <1>10, <2>1 DEF LoginRead, TypeOK, Call
<1>11. CASE FindCompany(c)
  <2>1. call' \in [Calls -> Call]
    BY <1>11, GoesType DEF FindCompany, Joined
  <2> QED
    BY <1>11, <2>1 DEF FindCompany, TypeOK, Call
<1>12. CASE CreateCompany(c)
  <2>1. call' \in [Calls -> Call]
    BY <1>12, GoesType DEF CreateCompany, Joined
  <2> QED
    BY <1>12, <2>1 DEF CreateCompany, TypeOK, Call
<1>13. CASE LinkCompany(c)
  <2> DEFINE seen == call[c].seen
             want == [seen EXCEPT !.company = TRUE]
  <2>1. call[c] \in Call /\ seen \in Copy /\ want \in Copy
    BY DEF TypeOK, Call, Copy
  <2>2. user' \in User
    BY <1>13, <2>1, SavedType DEF LinkCompany, TypeOK
  <2>3. call' \in [Calls -> Call]
    BY <1>13, GoesType DEF LinkCompany
  <2> QED
    BY <1>13, <2>2, <2>3 DEF LinkCompany, TypeOK, Call
<1>14. CASE OpenSession(c)
  <2>1. call' \in [Calls -> Call]
    BY <1>14, EndsType DEF OpenSession
  <2>2. [version |-> call[c].seen.version, password |-> call[c].seen.password] \in Token
    BY DEF TypeOK, Copy, Token
  <2>3. tokens' \subseteq Token
    BY <1>14, <2>2 DEF OpenSession, TypeOK
  <2> QED
    BY <1>14, <2>1, <2>3 DEF OpenSession, TypeOK, Call
<1>15. ASSUME NEW kind \in {"change", "logout"}, Enter(c, kind)
       PROVE  TypeOK'
  <2>1. call' \in [Calls -> Call]
    BY <1>15, BeginType DEF Enter
  <2>2. ends' \in 0..MaxEnds
    BY <1>15, BoundsAssumption DEF Enter, TypeOK
  <2> QED
    BY <1>15, <2>1, <2>2 DEF Enter, TypeOK, Call
<1>16. CASE ChangeRead(c)
  <2>1. call[c] \in Call /\ Loaded \in Copy /\ ends \in Nat
    BY LoadedType, BoundsAssumption DEF TypeOK, Call
  <2>2. [call[c] EXCEPT !.pc = "save", !.seen = Loaded, !.password = ends] \in Call
    BY <2>1 DEF Call
  <2>3. call' = [call EXCEPT ![c] = [call[c] EXCEPT !.pc = "save", !.seen = Loaded, !.password = ends]]
    BY <1>16 DEF ChangeRead, TypeOK
  <2>4. call' \in [Calls -> Call]
    BY <2>2, <2>3 DEF TypeOK, Call
  <2> QED
    BY <1>16, <2>4 DEF ChangeRead, TypeOK, Call
<1>17. CASE ForgotPassword(c)
  <2>1. user' \in User
    BY <1>17 DEF ForgotPassword, TypeOK, User
  <2> QED
    BY <1>17, <2>1 DEF ForgotPassword, TypeOK, Call
<1>18. CASE ResetCodeRead(c)
  <2>1. call' \in [Calls -> Call]
    BY <1>18, BeginType DEF ResetCodeRead
  <2> QED
    BY <1>18, <2>1 DEF ResetCodeRead, TypeOK, Call
<1>19. CASE ResetGrant(c)
  <2>1. call' \in [Calls -> Call]
    BY <1>19, EndsType DEF ResetGrant
  <2>2. user' \in User
    BY <1>19 DEF ResetGrant, TypeOK, User
  <2> QED
    BY <1>19, <2>1, <2>2 DEF ResetGrant, TypeOK, Call
<1>20. CASE ResetRead(c)
  <2> DEFINE n == [Idle EXCEPT !.pc = "save", !.kind = "reset", !.seen = Loaded, !.password = ends + 1]
  <2>1. Loaded \in Copy /\ ends + 1 \in Nat
    BY LoadedType, BoundsAssumption DEF TypeOK
  <2>2. n \in Call
    BY <2>1, IdleType DEF Call
  <2>3. call' = [call EXCEPT ![c] = n]
    BY <1>20 DEF ResetRead
  <2>4. call' \in [Calls -> Call]
    BY <2>2, <2>3 DEF TypeOK, Call
  <2>5. ends' \in 0..MaxEnds
    BY <1>20, BoundsAssumption DEF ResetRead, TypeOK
  <2> QED
    BY <1>20, <2>4, <2>5 DEF ResetRead, TypeOK, Call
<1>21. CASE SavePassword(c)
  <2> DEFINE seen == call[c].seen
             want == [seen EXCEPT !.password = call[c].password, !.version = seen.version + 1]
  <2>1. call[c] \in Call /\ seen \in Copy /\ seen.version + 1 \in Nat /\ call[c].password \in Nat
    BY DEF TypeOK, Call, Copy
  <2>2. want \in Copy
    BY <2>1 DEF Copy
  <2>3. Saved(seen, want) \in User
    BY <2>1, <2>2, SavedType DEF TypeOK
  <2>4. user' = [Saved(seen, want) EXCEPT !.reset = IF call[c].kind = "reset" THEN "none" ELSE @]
    BY <1>21 DEF SavePassword
  <2>5. user' \in User
    BY <2>3, <2>4 DEF User
  <2>6. call' \in [Calls -> Call]
    BY <1>21, EndsType DEF SavePassword
  <2>7. user.version \in Nat
    BY DEF TypeOK, User
  <2>8. ended' \subseteq Nat /\ crossed' \subseteq {"end", "company"}
    BY <1>21, <2>7 DEF SavePassword, Crossing, TypeOK
  <2> QED
    BY <1>21, <2>5, <2>6, <2>8 DEF SavePassword, TypeOK, Call
<1>22. CASE Logout(c)
  <2>1. call' \in [Calls -> Call]
    BY <1>22, EndsType DEF Logout
  <2>2. user.version \in Nat /\ user.version + 1 \in Nat
    BY DEF TypeOK, User
  <2>3. user' \in User
    BY <1>22, <2>2 DEF Logout, TypeOK, User
  <2>4. ended' \subseteq Nat /\ crossed' \subseteq {"end", "company"}
    BY <1>22, <2>2 DEF Logout, Crossing, TypeOK
  <2> QED
    BY <1>22, <2>1, <2>3, <2>4 DEF Logout, TypeOK, Call
<1>23. CASE CallDies(c)
  <2>1. call' \in [Calls -> Call]
    BY <1>23, EndsType DEF CallDies
  <2> QED
    BY <1>23, <2>1, BoundsAssumption DEF CallDies, TypeOK, Call
<1> QED
  BY <1>1, <1>2, <1>3, <1>4, <1>5, <1>6, <1>7, <1>8, <1>9, <1>10, <1>11, <1>12,
     <1>13, <1>14, <1>15, <1>16, <1>17, <1>18, <1>19, <1>20, <1>21, <1>22, <1>23
     DEF CodeStep, VerifyStep, SessionStep, EndStep

LEMMA TypeNext == TypeOK /\ [Next]_vars => TypeOK'
<1>1. ASSUME TypeOK, Next PROVE TypeOK'
  BY <1>1, TypeStep DEF Next
<1>2. ASSUME TypeOK, UNCHANGED vars PROVE TypeOK'
  BY <1>2 DEF vars, TypeOK
<1> QED
  BY <1>1, <1>2

\* Documents, copies, sessions and counts keep their shapes.
THEOREM TypeCorrect == Spec => []TypeOK
BY TypeInit, TypeNext, PTL DEF Spec

-----------------------------------------------------------------------------
(* Sessions *)

Loading == {"accept", "find", "create", "link", "open"}

\* A session, or the copy a call may open one from, is of the account's
\* version and password, or of an older version.
Current(x) == x.version <= user.version /\ (x.version = user.version => x.password = user.password)

CopiesInv ==
    \A d \in Calls :
      /\ call[d].pc \in Loading => Current(call[d].seen)
      /\ call[d].pc = "save" => call[d].seen.version = user.version

SessionInv ==
    "end" \notin crossed =>
      /\ \A v \in ended : v < user.version
      /\ \A t \in tokens : Current(t)
      /\ CopiesInv

\* A call that goes on with the copy it holds, or with one just loaded, and
\* leaves version and password alone.
LEMMA QuietStep ==
  ASSUME SessionInv, NEW c \in Calls,
         user'.version = user.version, user'.password = user.password,
         ended' = ended, tokens' = tokens, "end" \in crossed' <=> "end" \in crossed,
         \A d \in Calls \ {c} : call'[d] = call[d],
         "end" \notin crossed =>
           /\ call'[c].pc \in Loading => Current(call'[c].seen)
           /\ call'[c].pc = "save" => call'[c].seen.version = user.version
  PROVE  SessionInv'
BY DEF SessionInv, CopiesInv, Current

\* A write of a new version, when no other call is about to save one.
LEMMA VersionStep ==
  ASSUME TypeOK, SessionInv, NEW c \in Calls,
         user'.version = user.version + 1,
         ended' = ended \cup {user.version}, tokens' = tokens,
         Crossing(c), Ends(c)
  PROVE  SessionInv'
<1> SUFFICES ASSUME "end" \notin crossed'
             PROVE  /\ \A v \in ended' : v < user'.version
                    /\ \A t \in tokens' : Current(t)'
                    /\ CopiesInv'
  BY DEF SessionInv
<1>1. "end" \notin crossed /\ \A d \in Calls \ {c} : call[d].pc # "save"
  BY DEF Crossing
<1>2. user.version \in Nat
  BY DEF TypeOK, User
<1>3. \A v \in ended' : v < user'.version
  BY <1>1, <1>2 DEF SessionInv, TypeOK
<1>4. \A t \in tokens' : Current(t)'
  <2> SUFFICES ASSUME NEW t \in tokens
               PROVE  t.version <= user.version + 1 /\ t.version # user.version + 1
    BY DEF Current
  <2>1. t.version \in Nat /\ t.version <= user.version
    BY <1>1 DEF SessionInv, Current, TypeOK, Token
  <2> QED
    BY <1>2, <2>1
<1>5. CopiesInv'
  <2> SUFFICES ASSUME NEW d \in Calls
               PROVE  /\ call'[d].pc \in Loading => Current(call[d].seen)'
                      /\ call'[d].pc = "save" => call'[d].seen.version = user'.version
    BY DEF CopiesInv, Current
  <2>1. CASE d = c
    BY <2>1, EndsType DEF Loading
  <2>2. CASE d # c
    <3>1. call'[d] = call[d] /\ call[d].pc # "save"
      BY <1>1, <2>2, EndsType
    <3>2. call[d].seen.version \in Nat
      BY DEF TypeOK, Copy
    <3>3. call[d].pc \in Loading => call[d].seen.version <= user.version
      BY <1>1 DEF SessionInv, CopiesInv, Current
    <3> QED
      BY <1>2, <3>1, <3>2, <3>3 DEF Current
  <2> QED
    BY <2>1, <2>2
<1> QED
  BY <1>3, <1>4, <1>5

LEMMA SessionInit == Init => SessionInv
<1> SUFFICES ASSUME Init
             PROVE  SessionInv
  OBVIOUS
<1>1. \A d \in Calls : call[d].pc = "idle"
  BY IdleType DEF Init
<1> QED
  BY <1>1 DEF Init, SessionInv, CopiesInv, Loading

LEMMA SessionStepKeeps ==
  ASSUME TypeOK, SessionInv, NEW c \in Calls,
         CodeStep(c) \/ VerifyStep(c) \/ SessionStep(c) \/ EndStep(c) \/ CallDies(c)
  PROVE  SessionInv'
<1> USE DEF Steps, Kinds, Loading
<1>0. /\ user.version \in Nat
      /\ DOMAIN user = {"verified", "otp", "attempts", "reset", "password", "version", "company"}
  BY DEF TypeOK, User
<1>i. \A n \in {Idle} : n.pc = "idle"
  BY IdleType
<1>1. CASE StoreCode(c)
  <2>1. PICK code \in Unused :
           /\ user' = [user EXCEPT !.otp = code]
           /\ call' = [call EXCEPT ![c] = [Idle EXCEPT !.pc = "mail", !.code = code]]
    BY <1>1 DEF StoreCode
  <2>2. [Idle EXCEPT !.pc = "mail", !.code = code].pc = "mail"
    BY DEF Idle
  <2>3. call'[c].pc = "mail" /\ \A d \in Calls \ {c} : call'[d] = call[d]
    BY <2>1, <2>2 DEF TypeOK
  <2>4. user'.version = user.version /\ user'.password = user.password
    BY <1>0, <2>1 DEF TypeOK, User
  <2> QED
    BY <1>1, <2>3, <2>4, QuietStep DEF StoreCode
<1>2. CASE Mail(c)
  BY <1>2, EndsType, QuietStep DEF Mail
<1>3. CASE MailFails(c)
  BY <1>3, GoesType, QuietStep DEF MailFails
<1>4. CASE TakeBack(c)
  <2>1. user'.version = user.version /\ user'.password = user.password
    BY <1>4 DEF TakeBack, TypeOK, User
  <2> QED
    BY <1>4, <2>1, EndsType, QuietStep DEF TakeBack
<1>5. CASE VerifyRight(c)
  <2>1. Current(call'[c].seen)
    BY <1>0, <1>5, LoadType DEF VerifyRight, Current
  <2> QED
    BY <1>5, <2>1, LoadType, QuietStep DEF VerifyRight
<1>6. CASE VerifyWrong(c)
  BY <1>6, BeginType, QuietStep DEF VerifyWrong
<1>7. CASE VerifyCount(c)
  <2>1. user'.version = user.version /\ user'.password = user.password
    BY <1>7 DEF VerifyCount, TypeOK, User
  <2>2. call'[c].pc \in {"clear", "idle"} /\ \A d \in Calls \ {c} : call'[d] = call[d]
    BY <1>7, GoesType, EndsType DEF VerifyCount
  <2> QED
    BY <1>7, <2>1, <2>2, QuietStep DEF VerifyCount
<1>8. CASE VerifyClear(c)
  <2>1. user'.version = user.version /\ user'.password = user.password
    BY <1>8 DEF VerifyClear, TypeOK, User
  <2> QED
    BY <1>8, <2>1, EndsType, QuietStep DEF VerifyClear
<1>9. CASE VerifyAccept(c)
  <2> DEFINE seen == call[c].seen
             want == [seen EXCEPT !.attempts = 0]
  <2>1. seen \in Copy /\ want \in Copy /\ want.version = seen.version /\ want.password = seen.password
    BY DEF TypeOK, Copy
  <2>2. Saved(seen, want) \in User
        /\ Saved(seen, want).version = user.version /\ Saved(seen, want).password = user.password
    BY <2>1, SavedType DEF TypeOK
  <2>3. user' = [Saved(seen, want) EXCEPT !.verified = TRUE, !.otp = NoCode]
    BY <1>9 DEF VerifyAccept
  <2>4. user'.version = user.version /\ user'.password = user.password
    BY <2>2, <2>3 DEF User
  <2>5. call'[c].pc = "find" /\ call'[c].seen = want /\ \A d \in Calls \ {c} : call'[d] = call[d]
    BY <1>9 DEF VerifyAccept, TypeOK
  <2>6. "end" \notin crossed => Current(call'[c].seen)
    BY <1>9, <2>1, <2>5 DEF VerifyAccept, SessionInv, CopiesInv, Current
  <2> QED
    BY <1>9, <2>4, <2>5, <2>6, QuietStep DEF VerifyAccept
<1>10. CASE LoginRead(c)
  <2>1. Current(call'[c].seen)
    BY <1>0, <1>10, LoadType DEF LoginRead, Current
  <2> QED
    BY <1>10, <2>1, LoadType, QuietStep DEF LoginRead
<1>11. CASE FindCompany(c)
  <2>1. "end" \notin crossed => Current(call[c].seen)
    BY <1>11 DEF FindCompany, SessionInv, CopiesInv
  <2>2. /\ call'[c].pc \in {"create", "link", "open"} /\ call'[c].seen = call[c].seen
        /\ \A d \in Calls \ {c} : call'[d] = call[d]
    BY <1>11, GoesType DEF FindCompany, Joined
  <2> QED
    BY <1>11, <2>1, <2>2, QuietStep DEF FindCompany
<1>12. CASE CreateCompany(c)
  <2>1. "end" \notin crossed => Current(call[c].seen)
    BY <1>12 DEF CreateCompany, SessionInv, CopiesInv
  <2>2. /\ call'[c].pc \in {"link", "open"} /\ call'[c].seen = call[c].seen
        /\ \A d \in Calls \ {c} : call'[d] = call[d]
    BY <1>12, GoesType DEF CreateCompany, Joined
  <2> QED
    BY <1>12, <2>1, <2>2, QuietStep DEF CreateCompany
<1>13. CASE LinkCompany(c)
  <2> DEFINE seen == call[c].seen
             want == [seen EXCEPT !.company = TRUE]
  <2>1. seen \in Copy /\ want \in Copy /\ want.version = seen.version /\ want.password = seen.password
    BY DEF TypeOK, Copy
  <2>2. user'.version = user.version /\ user'.password = user.password
    BY <1>13, <2>1, SavedType DEF LinkCompany, TypeOK
  <2>3. "end" \notin crossed => Current(call[c].seen)
    BY <1>13 DEF LinkCompany, SessionInv, CopiesInv
  <2>4. call'[c].pc = "open" /\ call'[c].seen = call[c].seen
    BY <1>13, GoesType DEF LinkCompany
  <2>5. \A d \in Calls \ {c} : call'[d] = call[d]
    BY <1>13, GoesType DEF LinkCompany
  <2>6. tokens' = tokens /\ ended' = ended /\ crossed' = crossed
    BY <1>13 DEF LinkCompany
  <2>7. "end" \notin crossed => (call'[c].pc \in Loading => Current(call'[c].seen))
    BY <2>3, <2>4
  <2>8. call'[c].pc # "save"
    BY <2>4
  <2> HIDE DEF seen, want
  <2> QED
    BY <2>2, <2>5, <2>6, <2>7, <2>8, QuietStep
<1>14. CASE OpenSession(c)
  <2> DEFINE t == [version |-> call[c].seen.version, password |-> call[c].seen.password]
  <2>1. "end" \notin crossed => Current(t)
    BY <1>14 DEF OpenSession, SessionInv, CopiesInv, Current
  <2>2. call'[c].pc = "idle" /\ \A d \in Calls \ {c} : call'[d] = call[d]
    BY <1>14, EndsType DEF OpenSession
  <2>3. tokens' = tokens \cup {t} /\ user' = user /\ ended' = ended /\ crossed' = crossed
    BY <1>14 DEF OpenSession
  <2> HIDE DEF t
  <2> QED
    BY <2>1, <2>2, <2>3 DEF SessionInv, CopiesInv, Current
<1>15. ASSUME NEW kind \in {"change", "logout"}, Enter(c, kind)
       PROVE  SessionInv'
  BY <1>15, BeginType, QuietStep DEF Enter
<1>16. CASE ChangeRead(c)
  <2>1. /\ call'[c].pc = "save" /\ call'[c].seen = Loaded
        /\ \A d \in Calls \ {c} : call'[d] = call[d]
    BY <1>16 DEF ChangeRead, TypeOK
  <2>2. call'[c].seen.version = user.version
    BY <2>1, LoadedType DEF TypeOK
  <2> QED
    BY <1>16, <2>1, <2>2, QuietStep DEF ChangeRead
<1>17. CASE ForgotPassword(c)
  <2>1. user'.version = user.version /\ user'.password = user.password
    BY <1>17 DEF ForgotPassword, TypeOK, User
  <2> QED
    BY <1>17, <2>1, QuietStep DEF ForgotPassword
<1>18. CASE ResetCodeRead(c)
  BY <1>18, BeginType, QuietStep DEF ResetCodeRead
<1>19. CASE ResetGrant(c)
  <2>1. user'.version = user.version /\ user'.password = user.password
    BY <1>19 DEF ResetGrant, TypeOK, User
  <2> QED
    BY <1>19, <2>1, EndsType, QuietStep DEF ResetGrant
<1>20. CASE ResetRead(c)
  <2> DEFINE n == [Idle EXCEPT !.pc = "save", !.kind = "reset", !.seen = Loaded, !.password = ends + 1]
  <2>1. n.pc = "save" /\ n.seen = Loaded
    BY DEF Idle
  <2>2. call' = [call EXCEPT ![c] = n]
    BY <1>20 DEF ResetRead
  <2> HIDE DEF n
  <2>3. /\ call'[c].pc = "save" /\ call'[c].seen = Loaded
        /\ \A d \in Calls \ {c} : call'[d] = call[d]
    BY <2>1, <2>2 DEF TypeOK
  <2>4. call'[c].seen.version = user.version
    BY <2>3, LoadedType DEF TypeOK
  <2> QED
    BY <1>20, <2>3, <2>4, QuietStep DEF ResetRead
<1>21. CASE SavePassword(c)
  <2> DEFINE seen == call[c].seen
             want == [seen EXCEPT !.password = call[c].password, !.version = seen.version + 1]
  <2>0. CASE "end" \in crossed
    BY <1>21, <2>0 DEF SavePassword, Crossing, SessionInv
  <2>1. CASE "end" \notin crossed
    <3>1. seen \in Copy /\ seen.version + 1 \in Nat /\ call[c].password \in Nat
      BY DEF TypeOK, Copy
    <3>2. want \in Copy /\ want.version = seen.version + 1
      BY <3>1 DEF Copy
    <3>3. seen.version = user.version
      BY <1>21, <2>1 DEF SavePassword, SessionInv, CopiesInv
    <3>4. Saved(seen, want) \in User /\ Saved(seen, want).version = user.version + 1
      BY <1>0, <3>1, <3>2, <3>3, SavedType DEF TypeOK
    <3>5. user' = [Saved(seen, want) EXCEPT !.reset = IF call[c].kind = "reset" THEN "none" ELSE @]
      BY <1>21 DEF SavePassword
    <3>6. user'.version = user.version + 1
      BY <3>4, <3>5 DEF User
    <3> QED
      BY <1>21, <3>6, VersionStep DEF SavePassword
  <2> QED
    BY <2>0, <2>1
<1>22. CASE Logout(c)
  <2>1. user'.version = user.version + 1
    BY <1>22 DEF Logout, TypeOK, User
  <2> QED
    BY <1>22, <2>1, VersionStep DEF Logout
<1>23. CASE CallDies(c)
  BY <1>23, EndsType, QuietStep DEF CallDies
<1> QED
  BY <1>1, <1>2, <1>3, <1>4, <1>5, <1>6, <1>7, <1>8, <1>9, <1>10, <1>11, <1>12,
     <1>13, <1>14, <1>15, <1>16, <1>17, <1>18, <1>19, <1>20, <1>21, <1>22, <1>23
     DEF CodeStep, VerifyStep, SessionStep, EndStep

LEMMA SessionNext == TypeOK /\ SessionInv /\ [Next]_vars => SessionInv'
<1>1. ASSUME TypeOK, SessionInv, Next PROVE SessionInv'
  BY <1>1, SessionStepKeeps DEF Next
<1>2. ASSUME SessionInv, UNCHANGED vars PROVE SessionInv'
  BY <1>2 DEF vars, SessionInv, CopiesInv, Current
<1> QED
  BY <1>1, <1>2

LEMMA SessionAlways == Spec => []SessionInv
BY TypeInit, TypeNext, SessionInit, SessionNext, PTL DEF Spec

\* A session that was ended by a logout or a new password never becomes good
\* again, for any number of calls, unless two that end sessions overlapped.
THEOREM EndedForGood == Spec => []SessionsStayEnded
<1>1. TypeOK /\ SessionInv => SessionsStayEnded
  BY DEF TypeOK, User, SessionInv, SessionsStayEnded
<1> QED
  BY <1>1, TypeCorrect, SessionAlways, PTL

\* A session that is good was opened under the password there is now, however
\* sign-ins and changes of the password interleave, with the same exception.
THEOREM OldPasswordDead == Spec => []OldPasswordSessionsEnd
<1>1. SessionInv => OldPasswordSessionsEnd
  BY DEF SessionInv, OldPasswordSessionsEnd, Current
<1> QED
  BY <1>1, SessionAlways, PTL

-----------------------------------------------------------------------------
(* The owner company *)

CompanyInv ==
    "company" \notin crossed =>
      /\ companies <= 1
      /\ \A d \in Calls : call[d].pc = "create" => companies = 0

LEMMA CompanyStep ==
  ASSUME TypeOK, CompanyInv, NEW c \in Calls,
         CodeStep(c) \/ VerifyStep(c) \/ SessionStep(c) \/ EndStep(c) \/ CallDies(c)
  PROVE  CompanyInv'
<1> USE DEF Steps, Kinds
<1>1. CASE CreateCompany(c)
  <2> SUFFICES ASSUME "company" \notin crossed'
               PROVE  companies' <= 1 /\ \A d \in Calls : call'[d].pc # "create"
    BY DEF CompanyInv
  <2>1. "company" \notin crossed /\ \A d \in Calls \ {c} : call[d].pc # "create"
    BY <1>1 DEF CreateCompany
  <2>2. companies = 0
    BY <1>1, <2>1 DEF CreateCompany, CompanyInv
  <2>3. companies' = 1
    BY <1>1, <2>2 DEF CreateCompany
  <2>4. call'[c].pc # "create" /\ \A d \in Calls \ {c} : call'[d] = call[d]
    BY <1>1, GoesType DEF CreateCompany, Joined
  <2> QED
    BY <2>1, <2>3, <2>4
<1>2. CASE FindCompany(c)
  <2>1. call'[c].pc = "create" => companies = 0
    BY <1>2, GoesType DEF FindCompany, Joined
  <2>2. \A d \in Calls \ {c} : call'[d] = call[d]
    BY <1>2, GoesType DEF FindCompany, Joined
  <2> QED
    BY <1>2, <2>1, <2>2 DEF FindCompany, CompanyInv
<1>3. ASSUME companies' = companies, "company" \in crossed' <=> "company" \in crossed,
             call'[c].pc # "create", \A d \in Calls \ {c} : call'[d] = call[d]
      PROVE  CompanyInv'
  BY <1>3 DEF CompanyInv
<1>4. CASE CodeStep(c)
  <2>1. call'[c].pc # "create" /\ \A d \in Calls \ {c} : call'[d] = call[d]
    <3>1. CASE StoreCode(c)
      BY <3>1 DEF StoreCode, TypeOK, Idle
    <3>2. CASE Mail(c) \/ TakeBack(c)
      BY <3>2, EndsType DEF Mail, TakeBack
    <3>3. CASE MailFails(c)
      BY <3>3, GoesType DEF MailFails
    <3> QED
      BY <1>4, <3>1, <3>2, <3>3 DEF CodeStep
  <2>2. companies' = companies /\ crossed' = crossed
    BY <1>4 DEF CodeStep, StoreCode, Mail, MailFails, TakeBack
  <2> QED
    BY <1>3, <2>1, <2>2
<1>5. CASE VerifyStep(c)
  <2>1. call'[c].pc # "create" /\ \A d \in Calls \ {c} : call'[d] = call[d]
    <3>1. CASE VerifyRight(c)
      BY <3>1, LoadType DEF VerifyRight
    <3>2. CASE VerifyWrong(c)
      BY <3>2, BeginType DEF VerifyWrong
    <3>3. CASE VerifyCount(c)
      BY <3>3, GoesType, EndsType DEF VerifyCount
    <3>4. CASE VerifyClear(c)
      BY <3>4, EndsType DEF VerifyClear
    <3>5. CASE VerifyAccept(c)
      BY <3>5 DEF VerifyAccept, TypeOK
    <3> QED
      BY <1>5, <3>1, <3>2, <3>3, <3>4, <3>5 DEF VerifyStep
  <2>2. companies' = companies /\ crossed' = crossed
    BY <1>5 DEF VerifyStep, VerifyRight, VerifyWrong, VerifyCount, VerifyClear, VerifyAccept
  <2> QED
    BY <1>3, <2>1, <2>2
<1>6. CASE LoginRead(c) \/ LinkCompany(c) \/ OpenSession(c)
  <2>1. call'[c].pc # "create" /\ \A d \in Calls \ {c} : call'[d] = call[d]
    <3>1. CASE LoginRead(c)
      BY <3>1, LoadType DEF LoginRead
    <3>2. CASE LinkCompany(c)
      BY <3>2, GoesType DEF LinkCompany
    <3>3. CASE OpenSession(c)
      BY <3>3, EndsType DEF OpenSession
    <3> QED
      BY <1>6, <3>1, <3>2, <3>3
  <2>2. companies' = companies /\ crossed' = crossed
    BY <1>6 DEF LoginRead, LinkCompany, OpenSession
  <2> QED
    BY <1>3, <2>1, <2>2
<1>7. CASE EndStep(c)
  <2>1. CASE ForgotPassword(c)
    BY <2>1 DEF ForgotPassword, CompanyInv
  <2>2. CASE ~ForgotPassword(c)
    <3>1. call'[c].pc # "create" /\ \A d \in Calls \ {c} : call'[d] = call[d]
      <4>1. ASSUME NEW kind \in {"change", "logout"}, Enter(c, kind)
            PROVE  call'[c].pc # "create" /\ \A d \in Calls \ {c} : call'[d] = call[d]
        BY <4>1, BeginType DEF Enter
      <4>2. CASE ChangeRead(c)
        BY <4>2 DEF ChangeRead, TypeOK
      <4>3. CASE ResetCodeRead(c)
        BY <4>3, BeginType DEF ResetCodeRead
      <4>4. CASE ResetRead(c)
        BY <4>4 DEF ResetRead, TypeOK, Idle
      <4>5. CASE ResetGrant(c) \/ SavePassword(c) \/ Logout(c)
        BY <4>5, EndsType DEF ResetGrant, SavePassword, Logout
      <4> QED
        BY <1>7, <2>2, <4>1, <4>2, <4>3, <4>4, <4>5 DEF EndStep
    <3>2. companies' = companies /\ ("company" \in crossed' <=> "company" \in crossed)
      BY <1>7 DEF EndStep, Enter, ChangeRead, ForgotPassword, ResetCodeRead, ResetGrant,
                  ResetRead, SavePassword, Logout, Crossing
    <3> QED
      BY <1>3, <3>1, <3>2
  <2> QED
    BY <2>1, <2>2
<1>8. CASE CallDies(c)
  BY <1>3, <1>8, EndsType DEF CallDies
<1> QED
  BY <1>1, <1>2, <1>4, <1>5, <1>6, <1>7, <1>8 DEF SessionStep

LEMMA CompanyAlways == Spec => []CompanyInv
<1>1. Init => CompanyInv
  BY DEF Init, CompanyInv
<1>2. ASSUME TypeOK, CompanyInv, Next PROVE CompanyInv'
  BY <1>2, CompanyStep DEF Next
<1>3. ASSUME CompanyInv, UNCHANGED vars PROVE CompanyInv'
  BY <1>3 DEF vars, CompanyInv
<1>4. TypeOK /\ CompanyInv /\ [Next]_vars => CompanyInv'
  BY <1>2, <1>3
<1> QED
  BY <1>1, <1>4, TypeCorrect, PTL DEF Spec

\* An owner gets one company, however many sign-ins die on the way to it,
\* unless two found none at the same time.
THEOREM OneCompany == Spec => []OneOwnerCompany
<1>1. CompanyInv => OneOwnerCompany
  BY DEF CompanyInv, OneOwnerCompany
<1> QED
  BY <1>1, CompanyAlways, PTL

-----------------------------------------------------------------------------
(* Wrong answers *)

At(pc) == {d \in Calls : call[d].pc = pc}

\* How the number of calls at a step changes when one call moves.
LEMMA AtType ==
  ASSUME NEW pc
  PROVE  IsFiniteSet(At(pc)) /\ Cardinality(At(pc)) \in Nat
<1>1. At(pc) \in SUBSET Calls
  BY DEF At
<1>2. IsFiniteSet(At(pc))
  BY <1>1, CallsAssumption, FS_Subset
<1> QED
  BY <1>2, FS_CardinalityType

LEMMA AtMoves ==
  ASSUME NEW c \in Calls, NEW pc, \A d \in Calls \ {c} : call'[d] = call[d]
  PROVE  Cardinality(At(pc)') = Cardinality(At(pc))
             + (IF call'[c].pc = pc /\ call[c].pc # pc THEN 1 ELSE 0)
             - (IF call'[c].pc # pc /\ call[c].pc = pc THEN 1 ELSE 0)
<1>0. IsFiniteSet(At(pc)) /\ Cardinality(At(pc)) \in Nat
  BY AtType
<1>1. CASE call'[c].pc = pc /\ call[c].pc # pc
  <2>1. At(pc)' = At(pc) \cup {c} /\ c \notin At(pc)
    BY <1>1 DEF At
  <2>2. Cardinality(At(pc) \cup {c}) = Cardinality(At(pc)) + 1
    BY <1>0, <2>1, FS_AddElement
  <2> QED
    BY <1>0, <1>1, <2>1, <2>2
<1>2. CASE call'[c].pc # pc /\ call[c].pc = pc
  <2>1. At(pc)' = At(pc) \ {c} /\ c \in At(pc)
    BY <1>2 DEF At
  <2>2. Cardinality(At(pc) \ {c}) = Cardinality(At(pc)) - 1
    BY <1>0, <2>1, FS_RemoveElement
  <2> QED
    BY <1>0, <1>2, <2>1, <2>2
<1>3. CASE call'[c].pc = pc <=> call[c].pc = pc
  <2>1. At(pc)' = At(pc)
    BY <1>3 DEF At
  <2> QED
    BY <1>0, <1>3, <2>1
<1> QED
  BY <1>1, <1>2, <1>3

\* Calls that died while they counted (a) or withdrew the code (b) account for
\* the wrong answers the attempts miss.
Missed(a, b) ==
    /\ a + b <= troubles
    /\ user.otp # NoCode => tries <= user.attempts + Cardinality(At("count")) + a
    /\ user.attempts < MaxAttempts + Cardinality(At("clear")) + b

GuessInv == \E a, b \in Nat : Missed(a, b)

\* A step that moves no call to or from the count.
LEMMA MissedStep ==
  ASSUME TypeOK, NEW c \in Calls, GuessInv,
         \A d \in Calls \ {c} : call'[d] = call[d],
         call[c].pc \notin {"count", "clear"}, call'[c].pc \notin {"count", "clear"},
         user'.attempts \in {0, user.attempts}, user'.attempts \in Nat,
         troubles' \in {troubles, troubles + 1},
         user'.otp # NoCode =>
           \/ tries' = 0
           \/ tries' = tries /\ user'.otp = user.otp /\ user'.attempts = user.attempts
  PROVE  GuessInv'
<1>1. PICK a \in Nat, b \in Nat : Missed(a, b)
  BY DEF GuessInv
<1>2. /\ Cardinality(At("count")') = Cardinality(At("count"))
      /\ Cardinality(At("clear")') = Cardinality(At("clear"))
  BY AtMoves, AtType
<1>3. /\ user.attempts \in Nat /\ tries \in Nat /\ troubles \in Nat
      /\ Cardinality(At("count")) \in Nat /\ Cardinality(At("clear")) \in Nat
      /\ MaxAttempts \in Nat \ {0}
  BY AtType, AttemptsAssumption, BoundsAssumption DEF TypeOK, User
<1>4. a + b <= troubles'
  BY <1>1, <1>3 DEF Missed
<1>5. user'.otp # NoCode => tries' <= user'.attempts + Cardinality(At("count")') + a
  BY <1>1, <1>2, <1>3 DEF Missed
<1>6. user'.attempts < MaxAttempts + Cardinality(At("clear")') + b
  BY <1>1, <1>2, <1>3 DEF Missed
<1>7. Missed(a, b)'
  BY <1>4, <1>5, <1>6 DEF Missed
<1> QED
  BY <1>7 DEF GuessInv

LEMMA GuessStep ==
  ASSUME TypeOK, GuessInv, NEW c \in Calls,
         CodeStep(c) \/ VerifyStep(c) \/ SessionStep(c) \/ EndStep(c) \/ CallDies(c)
  PROVE  GuessInv'
<1> USE DEF Steps, Kinds
<1>0. PICK a \in Nat, b \in Nat : Missed(a, b)
  BY DEF GuessInv
<1>n. /\ user.attempts \in Nat /\ tries \in Nat /\ troubles \in Nat
      /\ Cardinality(At("count")) \in Nat /\ Cardinality(At("clear")) \in Nat
      /\ MaxAttempts \in Nat \ {0}
  BY AtType, AttemptsAssumption, BoundsAssumption DEF TypeOK, User
<1>1. CASE StoreCode(c)
  <2>1. PICK code \in Unused :
           /\ user' = [user EXCEPT !.otp = code]
           /\ call' = [call EXCEPT ![c] = [Idle EXCEPT !.pc = "mail", !.code = code]]
    BY <1>1 DEF StoreCode
  <2>2. call'[c].pc = "mail" /\ \A d \in Calls \ {c} : call'[d] = call[d]
    BY <2>1 DEF TypeOK, Idle
  <2>3. user'.attempts = user.attempts
    BY <2>1 DEF TypeOK, User
  <2> QED
    BY <1>1, <1>n, <2>2, <2>3, MissedStep DEF StoreCode
<1>2. CASE Mail(c)
  BY <1>2, <1>n, EndsType, MissedStep DEF Mail
<1>3. CASE MailFails(c)
  BY <1>3, <1>n, GoesType, MissedStep DEF MailFails
<1>4. CASE TakeBack(c)
  <2>1. user'.attempts = user.attempts /\ user'.otp = NoCode
    BY <1>4 DEF TakeBack, TypeOK, User
  <2> QED
    BY <1>4, <1>n, <2>1, EndsType, MissedStep DEF TakeBack
<1>5. CASE VerifyRight(c)
  BY <1>5, <1>n, LoadType, MissedStep DEF VerifyRight, Load
<1>6. CASE VerifyWrong(c)
  <2>1. call[c].pc = "idle" /\ call'[c].pc = "count" /\ \A d \in Calls \ {c} : call'[d] = call[d]
    BY <1>6, BeginType DEF VerifyWrong, Begin
  <2>2. Cardinality(At("count")') = Cardinality(At("count")) + 1
    BY <1>n, <2>1, AtMoves
  <2>3. Cardinality(At("clear")') = Cardinality(At("clear"))
    BY <1>n, <2>1, AtMoves
  <2>4. user' = user /\ troubles' = troubles /\ tries' = IF user.otp # NoCode THEN tries + 1 ELSE tries
    BY <1>6 DEF VerifyWrong
  <2>5. Missed(a, b)'
    BY <1>0, <1>n, <2>2, <2>3, <2>4 DEF Missed
  <2> QED
    BY <2>5 DEF GuessInv
<1>7. CASE VerifyCount(c)
  <2>1. /\ call[c].pc = "count" /\ \A d \in Calls \ {c} : call'[d] = call[d]
        /\ call'[c].pc = IF user.attempts + 1 >= MaxAttempts THEN "clear" ELSE "idle"
    BY <1>7, GoesType, EndsType DEF VerifyCount
  <2>2. Cardinality(At("count")') = Cardinality(At("count")) - 1
    BY <1>n, <2>1, AtMoves
  <2>3. Cardinality(At("clear")') =
          Cardinality(At("clear")) + IF user.attempts + 1 >= MaxAttempts THEN 1 ELSE 0
    BY <1>n, <2>1, AtMoves
  <2>4. user'.attempts = user.attempts + 1 /\ user'.otp = user.otp
    BY <1>7 DEF VerifyCount, TypeOK, User
  <2>5. troubles' = troubles /\ tries' = tries
    BY <1>7 DEF VerifyCount
  <2>6. Missed(a, b)'
    BY <1>0, <1>n, <2>2, <2>3, <2>4, <2>5 DEF Missed
  <2> QED
    BY <2>6 DEF GuessInv
<1>8. CASE VerifyClear(c)
  <2>1. user'.attempts = 0 /\ user'.otp = NoCode /\ troubles' = troubles
    BY <1>8 DEF VerifyClear, TypeOK, User
  <2>2. Cardinality(At("clear")') \in Nat
    <3>1. At("clear")' \in SUBSET Calls
      BY DEF At
    <3>2. IsFiniteSet(At("clear")')
      BY <3>1, CallsAssumption, FS_Subset
    <3> QED
      BY <3>2, FS_CardinalityType
  <2>3. a + b <= troubles'
    BY <1>0, <2>1 DEF Missed
  <2>4. user'.attempts < MaxAttempts + Cardinality(At("clear")') + b
    BY <1>n, <2>1, <2>2
  <2>5. Missed(a, b)'
    BY <2>1, <2>3, <2>4 DEF Missed
  <2> QED
    BY <2>5 DEF GuessInv
<1>9. CASE VerifyAccept(c)
  <2> DEFINE seen == call[c].seen
             want == [seen EXCEPT !.attempts = 0]
  <2>1. seen \in Copy /\ want \in Copy /\ want.attempts = 0
    BY DEF TypeOK, Copy
  <2>2. Saved(seen, want) \in User /\ Saved(seen, want).attempts \in {0, user.attempts}
    BY <2>1, SavedType DEF TypeOK, Saved, User, Copy
  <2>3. user' = [Saved(seen, want) EXCEPT !.verified = TRUE, !.otp = NoCode]
    BY <1>9 DEF VerifyAccept
  <2>4. user'.attempts \in {0, user.attempts} /\ user'.otp = NoCode
    BY <2>2, <2>3 DEF User
  <2>5. call[c].pc = "accept" /\ call'[c].pc = "find" /\ \A d \in Calls \ {c} : call'[d] = call[d]
    BY <1>9 DEF VerifyAccept, TypeOK
  <2>6. troubles' = troubles
    BY <1>9 DEF VerifyAccept
  <2> QED
    BY <1>n, <2>4, <2>5, <2>6, MissedStep
<1>10. CASE LoginRead(c)
  BY <1>10, <1>n, LoadType, MissedStep DEF LoginRead, Load
<1>11. CASE FindCompany(c)
  <2>1. call'[c].pc \in {"create", "link", "open"} /\ \A d \in Calls \ {c} : call'[d] = call[d]
    BY <1>11, GoesType DEF FindCompany, Joined
  <2> QED
    BY <1>11, <1>n, <2>1, MissedStep DEF FindCompany
<1>12. CASE CreateCompany(c)
  <2>1. call'[c].pc \in {"link", "open"} /\ \A d \in Calls \ {c} : call'[d] = call[d]
    BY <1>12, GoesType DEF CreateCompany, Joined
  <2> QED
    BY <1>12, <1>n, <2>1, MissedStep DEF CreateCompany
<1>13. CASE LinkCompany(c)
  <2>1. user'.attempts = user.attempts /\ user'.otp = user.otp
    BY <1>13 DEF LinkCompany, Saved, TypeOK, User, Copy
  <2> QED
    BY <1>13, <1>n, <2>1, GoesType, MissedStep DEF LinkCompany
<1>14. CASE OpenSession(c)
  BY <1>14, <1>n, EndsType, MissedStep DEF OpenSession
<1>15. ASSUME NEW kind \in {"change", "logout"}, Enter(c, kind)
       PROVE  GuessInv'
  BY <1>15, <1>n, BeginType, MissedStep DEF Enter, Begin
<1>16. CASE ChangeRead(c)
  <2>1. call[c].pc = "change" /\ call'[c].pc = "save" /\ \A d \in Calls \ {c} : call'[d] = call[d]
    BY <1>16 DEF ChangeRead, TypeOK
  <2> QED
    BY <1>16, <1>n, <2>1, MissedStep DEF ChangeRead
<1>17. CASE ForgotPassword(c)
  <2>1. user'.attempts = user.attempts /\ user'.otp = user.otp
    BY <1>17 DEF ForgotPassword, TypeOK, User
  <2> QED
    BY <1>17, <1>n, <2>1, MissedStep DEF ForgotPassword
<1>18. CASE ResetCodeRead(c)
  BY <1>18, <1>n, BeginType, MissedStep DEF ResetCodeRead, Begin
<1>19. CASE ResetGrant(c)
  <2>1. user'.attempts = user.attempts /\ user'.otp = user.otp
    BY <1>19 DEF ResetGrant, TypeOK, User
  <2> QED
    BY <1>19, <1>n, <2>1, EndsType, MissedStep DEF ResetGrant
<1>20. CASE ResetRead(c)
  <2>1. call[c].pc = "idle" /\ call'[c].pc = "save" /\ \A d \in Calls \ {c} : call'[d] = call[d]
    BY <1>20 DEF ResetRead, TypeOK, Idle
  <2> QED
    BY <1>20, <1>n, <2>1, MissedStep DEF ResetRead
<1>21. CASE SavePassword(c)
  <2>1. user'.attempts = user.attempts /\ user'.otp = user.otp
    BY <1>21 DEF SavePassword, Saved, TypeOK, User, Copy
  <2> QED
    BY <1>21, <1>n, <2>1, EndsType, MissedStep DEF SavePassword
<1>22. CASE Logout(c)
  <2>1. user'.attempts = user.attempts /\ user'.otp = user.otp
    BY <1>22 DEF Logout, TypeOK, User
  <2> QED
    BY <1>22, <1>n, <2>1, EndsType, MissedStep DEF Logout
<1>23. CASE CallDies(c)
  <2>1. /\ call[c].pc # "idle" /\ call'[c].pc = "idle"
        /\ \A d \in Calls \ {c} : call'[d] = call[d]
    BY <1>23, EndsType DEF CallDies
  <2>2. user' = user /\ tries' = tries /\ troubles' = troubles + 1
    BY <1>23 DEF CallDies
  <2>3. CASE call[c].pc = "count"
    <3>1. Cardinality(At("count")') = Cardinality(At("count")) - 1
      BY <1>n, <2>1, <2>3, AtMoves
    <3>2. Cardinality(At("clear")') = Cardinality(At("clear"))
      BY <1>n, <2>1, <2>3, AtMoves
    <3>3. Missed(a + 1, b)'
      BY <1>0, <1>n, <2>2, <3>1, <3>2 DEF Missed
    <3> QED
      BY <3>3 DEF GuessInv
  <2>4. CASE call[c].pc = "clear"
    <3>1. Cardinality(At("count")') = Cardinality(At("count"))
      BY <1>n, <2>1, <2>4, AtMoves
    <3>2. Cardinality(At("clear")') = Cardinality(At("clear")) - 1
      BY <1>n, <2>1, <2>4, AtMoves
    <3>3. Missed(a, b + 1)'
      BY <1>0, <1>n, <2>2, <3>1, <3>2 DEF Missed
    <3> QED
      BY <3>3 DEF GuessInv
  <2>5. CASE call[c].pc \notin {"count", "clear"}
    BY <1>n, <2>1, <2>2, <2>5, MissedStep
  <2> QED
    BY <2>3, <2>4, <2>5
<1> QED
  BY <1>1, <1>2, <1>3, <1>4, <1>5, <1>6, <1>7, <1>8, <1>9, <1>10, <1>11, <1>12, <1>13,
     <1>14, <1>15, <1>16, <1>17, <1>18, <1>19, <1>20, <1>21, <1>22, <1>23
     DEF CodeStep, VerifyStep, SessionStep, EndStep

LEMMA GuessInit == Init => GuessInv
<1> SUFFICES ASSUME Init
             PROVE  GuessInv
  OBVIOUS
<1>1. user.attempts = 0 /\ tries = 0 /\ troubles = 0
  BY DEF Init, NewUser
<1>2. Cardinality(At("count")) \in Nat /\ Cardinality(At("clear")) \in Nat
  BY AtType
<1>3. Missed(0, 0)
  BY <1>1, <1>2, AttemptsAssumption DEF Missed
<1> QED
  BY <1>3 DEF GuessInv

\* However many calls answer at once, and whatever codes are sent or withdrawn
\* meanwhile, a code survives fewer wrong answers than are allowed, but for
\* those whose calls are still counting or died over it.
THEOREM GuessesFew == Spec => []GuessesBounded
<1>1. ASSUME TypeOK, GuessInv, Next PROVE GuessInv'
  BY <1>1, GuessStep DEF Next
<1>2. ASSUME GuessInv, UNCHANGED vars PROVE GuessInv'
  BY <1>2 DEF vars, GuessInv, Missed, At
<1>3. TypeOK /\ GuessInv /\ [Next]_vars => GuessInv'
  BY <1>1, <1>2
<1>4. ASSUME TypeOK, GuessInv PROVE GuessesBounded
  <2> DEFINE both == {c \in Calls : call[c].pc \in {"count", "clear"}}
  <2>1. PICK a \in Nat, b \in Nat : Missed(a, b)
    BY <1>4 DEF GuessInv
  <2>2. both = At("count") \cup At("clear") /\ At("count") \cap At("clear") = {}
    BY DEF At
  <2>3. Cardinality(both) = Cardinality(At("count")) + Cardinality(At("clear"))
    <3>1. IsFiniteSet(At("count")) /\ IsFiniteSet(At("clear"))
      BY AtType
    <3>2. Cardinality(At("count") \cup At("clear")) = Cardinality(At("count"))
             + Cardinality(At("clear")) - Cardinality(At("count") \cap At("clear"))
      BY <3>1, FS_Union
    <3>3. Cardinality({}) = 0
      BY FS_EmptySet
    <3>4. Cardinality(At("count")) \in Nat /\ Cardinality(At("clear")) \in Nat
      BY AtType
    <3>5. Cardinality(both) = Cardinality(At("count") \cup At("clear"))
      BY <2>2
    <3>6. Cardinality(At("count") \cap At("clear")) = 0
      BY <2>2, <3>3
    <3> HIDE DEF both
    <3> QED
      BY <3>2, <3>4, <3>5, <3>6
  <2>4. /\ user.attempts \in Nat /\ tries \in Nat /\ troubles \in Nat
        /\ Cardinality(At("count")) \in Nat /\ Cardinality(At("clear")) \in Nat
        /\ MaxAttempts \in Nat
    BY <1>4, AtType, AttemptsAssumption, BoundsAssumption DEF TypeOK, User
  <2> HIDE DEF both
  <2>5. user.otp # NoCode => tries < MaxAttempts + troubles + Cardinality(both)
    BY <2>1, <2>3, <2>4 DEF Missed
  <2> QED
    BY <2>5 DEF GuessesBounded, both
<1> QED
  BY <1>3, <1>4, GuessInit, TypeCorrect, PTL DEF Spec

=============================================================================
