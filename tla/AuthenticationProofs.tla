------------------------ MODULE AuthenticationProofs ------------------------
(***************************************************************************)
(* The safety properties of Authentication, for every set of emails and     *)
(* requests, whatever they overlap with and wherever they stop.             *)
(***************************************************************************)
EXTENDS Authentication, TLAPS

\* Every handler moves its own request only.
LEMMA AccountType ==
    ASSUME AccountTypeOK, NEW r \in Requests, AccountStep(r)
    PROVE  AccountTypeOK'
<1> USE AccountAssumption DEF AccountTypeOK, Labels, UserIds, Goto, Note, UserOf,
        Exists, Found, InsertUser, accountVars
<1>1. CASE CreateUser(r)
  BY <1>1 DEF CreateUser
<1>2. CASE ReadForSetup(r)
  BY <1>2 DEF ReadForSetup
<1>3. CASE StoreSecret(r)
  BY <1>3 DEF StoreSecret
<1>4. CASE ReadForDisable(r)
  BY <1>4 DEF ReadForDisable
<1>5. CASE RemoveSecret(r)
  BY <1>5 DEF RemoveSecret
<1>6. CASE ReadForLogin(r)
  BY <1>6 DEF ReadForLogin
<1>7. CASE ReadForGoogle(r)
  BY <1>7 DEF ReadForGoogle
<1>8. CASE InsertGoogleUser(r)
  BY <1>8 DEF InsertGoogleUser
<1> QED
  BY <1>1, <1>2, <1>3, <1>4, <1>5, <1>6, <1>7, <1>8 DEF AccountStep

\* What the upsert and the clock leave of a row.
LEMMA RowFacts ==
    ASSUME NEW r \in Requests
    PROVE  /\ NewRow(r) \in OtpRow
           /\ NewRow(r).id = r
           /\ NewRow(r).code = r
           /\ NewRow(r).email = EmailOf[r]
           /\ NewRow(r).type = TypeFor(r)
           /\ \A row \in OtpRow :
                /\ row.id \in Requests
                /\ row.code \in Requests
                /\ Renewed(row, r) \in OtpRow
                /\ Renewed(row, r).id = row.id
                /\ Renewed(row, r).code = r
                /\ Renewed(row, r).email = row.email
                /\ Renewed(row, r).type = row.type
                /\ Lapsed(row) \in OtpRow
                /\ Lapsed(row).id = row.id
                /\ Lapsed(row).code = row.code
                /\ Lapsed(row).email = row.email
                /\ Lapsed(row).type = row.type
<1>1. /\ NewRow(r) \in OtpRow /\ NewRow(r).id = r /\ NewRow(r).code = r
      /\ NewRow(r).email = EmailOf[r] /\ NewRow(r).type = TypeFor(r)
  BY AccountAssumption DEF NewRow, OtpRow, TypeFor, OtpTypes
<1>2. ASSUME NEW row \in OtpRow
      PROVE  /\ row.id \in Requests
             /\ row.code \in Requests
             /\ Renewed(row, r) \in OtpRow
             /\ Renewed(row, r).id = row.id
             /\ Renewed(row, r).code = r
             /\ Renewed(row, r).email = row.email
             /\ Renewed(row, r).type = row.type
             /\ Lapsed(row) \in OtpRow
             /\ Lapsed(row).id = row.id
             /\ Lapsed(row).code = row.code
             /\ Lapsed(row).email = row.email
             /\ Lapsed(row).type = row.type
  BY DEF Renewed, Lapsed, OtpRow
<1> QED
  BY <1>1, <1>2

LEMMA OtpType ==
    ASSUME AccountTypeOK, OtpTypeOK, NEW r \in Requests, OtpStep(r)
    PROVE  AccountTypeOK' /\ OtpTypeOK'
<1> USE AccountAssumption DEF AccountTypeOK, OtpTypeOK, Labels, UserIds, Goto, Note,
        UserOf, accountVars, otpVars, Outcome
<1>1. CASE CheckEmail(r)
  BY <1>1 DEF CheckEmail
<1>2. CASE UpsertOtpCode(r)
  <2>1. otpCodes' \in SUBSET OtpRow
    BY <1>2, RowFacts DEF UpsertOtpCode, RowsOf
  <2>2. otpId' \in [Requests -> Requests \cup {None}]
    BY <1>2, RowFacts DEF UpsertOtpCode, RowsOf, Remember
  <2> QED
    BY <1>2, <2>1, <2>2 DEF UpsertOtpCode
<1>3. CASE MailAnswers(r)
  BY <1>3 DEF MailAnswers
<1>4. CASE DropOtpCode(r)
  BY <1>4 DEF DropOtpCode
<1>5. CASE VerifyTotp(r)
  BY <1>5 DEF VerifyTotp
<1>6. CASE FindAndValidateOtpCode(r)
  <2>1. PICK row \in RowsOf(r) :
          /\ Remember(r, row.id)
          /\ \E l \in Labels : Goto(r, l)
    BY <1>6 DEF FindAndValidateOtpCode
  <2>2. row.id \in Requests
    BY DEF RowsOf, OtpRow
  <2> QED
    BY <1>6, <2>1, <2>2 DEF FindAndValidateOtpCode, Remember
<1>7. CASE ReadForReset(r)
  BY <1>7 DEF ReadForReset
<1>8. CASE ConsumeOtpCode(r)
  BY <1>8 DEF ConsumeOtpCode
<1>9. CASE SpendOtpCode(r)
  BY <1>9 DEF SpendOtpCode
<1>10. CASE WriteUser(r)
  BY <1>10 DEF WriteUser, InsertUser
<1>11. CASE AnswerReset(r)
  BY <1>11 DEF AnswerReset
<1> QED
  BY <1>1, <1>2, <1>3, <1>4, <1>5, <1>6, <1>7, <1>8, <1>9, <1>10, <1>11 DEF OtpStep

LEMMA SessionType ==
    ASSUME AccountTypeOK, SessionTypeOK, NEW r \in Requests, SessionStep(r)
    PROVE  AccountTypeOK' /\ SessionTypeOK'
<1> USE AccountAssumption DEF AccountTypeOK, SessionTypeOK, Labels, UserIds, Goto,
        accountVars, sessionVars, tableVars, localVars
<1>1. CASE CreateDevice(r)
  BY <1>1 DEF CreateDevice
<1>2. CASE CreateRefreshToken(r)
  BY <1>2 DEF CreateRefreshToken
<1>3. CASE FindRefreshToken(r)
  BY <1>3 DEF FindRefreshToken, ReadToken, Given
<1>4. CASE InsertNextToken(r)
  BY <1>4 DEF InsertNextToken
<1>5. CASE DeleteRefreshToken(r)
  BY <1>5 DEF DeleteRefreshToken
<1>6. CASE AnswerRefresh(r)
  BY <1>6 DEF AnswerRefresh
<1>7. CASE FindTokenToLogOut(r)
  BY <1>7 DEF FindTokenToLogOut, ReadToken, Given
<1>8. CASE LogOutWithoutToken(r)
  BY <1>8 DEF LogOutWithoutToken
<1>9. CASE DeactivateDevice(r)
  BY <1>9 DEF DeactivateDevice
<1>10. CASE AnswerLogout(r)
  BY <1>10 DEF AnswerLogout
<1>11. CASE DeleteUser(r)
  BY <1>11 DEF DeleteUser
<1> QED
  BY <1>1, <1>2, <1>3, <1>4, <1>5, <1>6, <1>7, <1>8, <1>9, <1>10, <1>11 DEF SessionStep

LEMMA TypeStep ==
    ASSUME TypeOK, [Next]_authVars
    PROVE  TypeOK'
<1> USE DEF TypeOK
<1>1. CASE UNCHANGED authVars
  BY <1>1 DEF authVars, AccountTypeOK, OtpTypeOK, SessionTypeOK
<1>2. ASSUME NEW r \in Requests, RequestStep(r)
      PROVE  TypeOK'
  <2>1. CASE AccountStep(r) /\ UNCHANGED <<otpVars, sessionVars>>
    BY <2>1, AccountType DEF otpVars, sessionVars, OtpTypeOK, SessionTypeOK
  <2>2. CASE OtpStep(r) /\ UNCHANGED sessionVars
    BY <2>2, OtpType DEF sessionVars, SessionTypeOK
  <2>3. CASE SessionStep(r) /\ UNCHANGED otpVars
    BY <2>3, SessionType DEF otpVars, OtpTypeOK
  <2>4. CASE Abort(r)
    BY <2>4 DEF Abort, Goto, accountVars, otpVars, sessionVars, AccountTypeOK,
       OtpTypeOK, SessionTypeOK, Labels
  <2> QED
    BY <1>2, <2>1, <2>2, <2>3, <2>4 DEF RequestStep
<1>3. CASE OtpExpires /\ UNCHANGED sessionVars
  <2>1. otpCodes' \in SUBSET OtpRow
    <3>1. \A row \in OtpRow : Lapsed(row) \in OtpRow
      BY DEF Lapsed, OtpRow
    <3> QED
      BY <1>3, <3>1 DEF OtpExpires, OtpTypeOK
  <2> QED
    BY <1>3, <2>1 DEF OtpExpires, sessionVars, accountVars, AccountTypeOK, OtpTypeOK,
       SessionTypeOK
<1>4. CASE (TokenExpires \/ RemoveRefreshTokens) /\ UNCHANGED otpVars
  BY <1>4 DEF TokenExpires, RemoveRefreshTokens, otpVars, accountVars, localVars,
     AccountTypeOK, OtpTypeOK, SessionTypeOK
<1> QED
  BY <1>1, <1>2, <1>3, <1>4 DEF Next, ClockStep, CronStep, Open

-----------------------------------------------------------------------------
(***************************************************************************)
(* Moves of a request that leave the invariant of the codes, or that of the *)
(* sessions, alone.                                                         *)
(***************************************************************************)
CodeNeutral(r, l) ==
    /\ l \in Labels \ {"unsent", "start", "consuming", "validated"}
    /\ l = "generated" => pc[r] = "start"
    /\ l = "needsCode" => OpOf[r] \in {"login", "disable2fa"}
    /\ l = "writing" => OpOf[r] = "setup2fa"

SessionNeutral(r, l) ==
    /\ l \in Labels \ {"unsent", "signing", "rotating", "rejecting", "loggingOut"}
    /\ l = "answered" => OpOf[r] \notin {"login", "google", "refresh"}
    /\ pc[r] \in {"signing", "rotating", "rejecting", "loggingOut"} => l = "failed"

LEMMA AccountMoves ==
    ASSUME NEW r \in Requests, AccountStep(r)
    PROVE  \E l \in Labels : Goto(r, l) /\ CodeNeutral(r, l) /\ SessionNeutral(r, l)
<1> USE DEF Labels, CodeNeutral, SessionNeutral
<1>1. CASE CreateUser(r)
  BY <1>1 DEF CreateUser
<1>2. CASE ReadForSetup(r)
  BY <1>2 DEF ReadForSetup
<1>3. CASE StoreSecret(r)
  BY <1>3 DEF StoreSecret
<1>4. CASE ReadForDisable(r)
  BY <1>4 DEF ReadForDisable
<1>5. CASE RemoveSecret(r)
  BY <1>5 DEF RemoveSecret
<1>6. CASE ReadForLogin(r)
  BY <1>6 DEF ReadForLogin
<1>7. CASE ReadForGoogle(r)
  BY <1>7 DEF ReadForGoogle
<1>8. CASE InsertGoogleUser(r)
  BY <1>8 DEF InsertGoogleUser
<1> QED
  BY <1>1, <1>2, <1>3, <1>4, <1>5, <1>6, <1>7, <1>8 DEF AccountStep

LEMMA OtpMoves ==
    ASSUME NEW r \in Requests, OtpStep(r)
    PROVE  \/ UNCHANGED pc
           \/ \E l \in Labels : Goto(r, l) /\ SessionNeutral(r, l)
<1> USE DEF Labels, SessionNeutral
<1>1. CASE CheckEmail(r)
  BY <1>1 DEF CheckEmail
<1>2. CASE UpsertOtpCode(r)
  BY <1>2 DEF UpsertOtpCode
<1>3. CASE MailAnswers(r)
  BY <1>3 DEF MailAnswers
<1>4. CASE DropOtpCode(r)
  BY <1>4 DEF DropOtpCode
<1>5. CASE VerifyTotp(r)
  BY <1>5 DEF VerifyTotp
<1>6. CASE FindAndValidateOtpCode(r)
  BY <1>6 DEF FindAndValidateOtpCode, AsksForCode
<1>7. CASE ReadForReset(r)
  BY <1>7 DEF ReadForReset
<1>8. CASE ConsumeOtpCode(r)
  BY <1>8 DEF ConsumeOtpCode
<1>9. CASE SpendOtpCode(r) \/ WriteUser(r)
  BY <1>9 DEF SpendOtpCode, WriteUser
<1>10. CASE AnswerReset(r)
  BY <1>10 DEF AnswerReset, Resets
<1> QED
  BY <1>1, <1>2, <1>3, <1>4, <1>5, <1>6, <1>7, <1>8, <1>9, <1>10 DEF OtpStep

LEMMA SessionMoves ==
    ASSUME NEW r \in Requests, SessionStep(r)
    PROVE  \/ UNCHANGED pc
           \/ \E l \in Labels : Goto(r, l) /\ CodeNeutral(r, l)
<1> USE DEF Labels, CodeNeutral
<1>1. CASE CreateDevice(r) \/ CreateRefreshToken(r)
  BY <1>1 DEF CreateDevice, CreateRefreshToken
<1>2. CASE FindRefreshToken(r) \/ FindTokenToLogOut(r)
  BY <1>2 DEF FindRefreshToken, FindTokenToLogOut, ReadToken
<1>3. CASE InsertNextToken(r) \/ DeleteRefreshToken(r) \/ DeactivateDevice(r)
  BY <1>3 DEF InsertNextToken, DeleteRefreshToken, DeactivateDevice
<1>4. CASE AnswerRefresh(r) \/ LogOutWithoutToken(r) \/ AnswerLogout(r) \/ DeleteUser(r)
  BY <1>4 DEF AnswerRefresh, LogOutWithoutToken, AnswerLogout, DeleteUser
<1> QED
  BY <1>1, <1>2, <1>3, <1>4 DEF SessionStep

-----------------------------------------------------------------------------
(***************************************************************************)
(* The codes.                                                               *)
(***************************************************************************)
LEMMA CodeFrame ==
    ASSUME TypeOK, CodeInv, UNCHANGED otpVars, NEW r \in Requests,
           \/ UNCHANGED pc
           \/ \E l \in Labels : Goto(r, l) /\ CodeNeutral(r, l)
    PROVE  CodeInv'
<1> USE AccountAssumption DEF TypeOK, AccountTypeOK, OtpTypeOK, CodeInv, otpVars
<1>1. \A x \in Requests : Stored(x) => Stored(x)'
  BY DEF Goto, CodeNeutral, Stored
<1>2. \A x \in Requests : HoldsCode(x)' => HoldsCode(x)
  BY DEF Goto, CodeNeutral, HoldsCode, Resets
<1>3. CodeLabels'
  BY DEF CodeLabels, Goto, CodeNeutral
<1>4. RowsKnown'
  BY <1>1 DEF RowsKnown, OtpRow
<1>5. HeldKnown'
  BY <1>1, <1>2 DEF HeldKnown, KnowsRow
<1>6. SpentGone' /\ OneSpender'
  BY DEF SpentGone, OneSpender
<1> QED
  BY <1>3, <1>4, <1>5, <1>6

\* Deleting rows, and marking what came of it.
LEMMA CodeDeleted ==
    ASSUME TypeOK, CodeInv, NEW r \in Requests,
           otpCodes' = otpCodes \ DeletedBy(r),
           UNCHANGED <<otpId, written>>,
           \/ UNCHANGED <<spent, pc>>
           \/ /\ HoldsCode(r)
              /\ \/ spent' = [spent EXCEPT ![r] = "lost"] /\ spent[r] = "open"
                 \/ spent' = [spent EXCEPT ![r] = "done"] /\ DeletedBy(r) # {}
              /\ UNCHANGED pc \/ Goto(r, "admitted")
           \/ UNCHANGED spent /\ Goto(r, "failed")
    PROVE  CodeInv'
<1> USE AccountAssumption DEF TypeOK, AccountTypeOK, OtpTypeOK, CodeInv, Goto
<1>1. \A x \in Requests : Stored(x) => Stored(x)'
  BY DEF Stored
<1>2. \A x \in Requests : HoldsCode(x)' => HoldsCode(x)
  BY DEF HoldsCode, Resets, Outcome
<1>3. CodeLabels'
  BY DEF CodeLabels, HoldsCode, Resets
<1>4. RowsKnown'
  BY <1>1 DEF RowsKnown, OtpRow
<1>5. HeldKnown'
  BY <1>1, <1>2 DEF HeldKnown, KnowsRow
<1>6. ASSUME NEW x \in Requests, spent[x] = "done", DeletedBy(r) # {}, HoldsCode(r)
      PROVE  CodeOf[x] # CodeOf[r]
  <2>1. HoldsCode(x)
    BY <1>6 DEF HoldsCode
  <2> QED
    BY <1>6, <2>1 DEF HeldKnown, KnowsRow, SpentGone, DeletedBy
<1>7. SpentGone'
  BY DEF SpentGone, DeletedBy, OtpRow, Outcome
<1>8. OneSpender'
  BY <1>6 DEF OneSpender, Outcome
<1> QED
  BY <1>3, <1>4, <1>5, <1>7, <1>8

\* The upsert: the code is new, and so is the id if it inserts.
LEMMA CodeUpserted ==
    ASSUME TypeOK, CodeInv, NEW r \in Requests, UpsertOtpCode(r)
    PROVE  CodeInv'
<1> USE AccountAssumption DEF TypeOK, AccountTypeOK, OtpTypeOK, CodeInv, Goto
<1>0. PICK id \in Requests, row \in OtpRow :
        /\ OpOf[r] = "sendOtp" /\ pc[r] = "generated"
        /\ pc' = [pc EXCEPT ![r] = "stored"]
        /\ otpId' = [otpId EXCEPT ![r] = id]
        /\ row.id = id /\ row.code = r
        /\ row.email = EmailOf[r] /\ row.type = TypeFor(r)
        /\ otpCodes' \subseteq otpCodes \cup {row}
        /\ id = r \/ \E old \in otpCodes : old.id = id
        /\ UNCHANGED <<spent, written>>
  <2>1. CASE RowsOf(r) = {}
    BY <2>1, RowFacts DEF UpsertOtpCode, Remember
  <2>2. ASSUME NEW old \in RowsOf(r), Remember(r, old.id),
               otpCodes' = (otpCodes \ {old}) \cup {Renewed(old, r)}
        PROVE  /\ old \in otpCodes
               /\ old.id \in Requests
               /\ Renewed(old, r) \in OtpRow
               /\ Renewed(old, r).id = old.id
               /\ Renewed(old, r).code = r
               /\ Renewed(old, r).email = EmailOf[r]
               /\ Renewed(old, r).type = TypeFor(r)
               /\ otpCodes' \subseteq otpCodes \cup {Renewed(old, r)}
    BY <2>2, RowFacts DEF RowsOf
  <2> QED
    BY <2>1, <2>2 DEF UpsertOtpCode, Remember
<1>1. \A x \in Requests : Stored(x) => Stored(x)' /\ x # r
  BY <1>0 DEF Stored
<1>2. Stored(r)' /\ Stored(id)'
  BY <1>0, <1>1 DEF Stored, RowsKnown
<1>3. \A x \in Requests : HoldsCode(x)' => HoldsCode(x)
  BY <1>0 DEF HoldsCode, Resets
<1>4. CodeLabels'
  BY <1>0 DEF CodeLabels
<1>5. RowsKnown'
  BY <1>0, <1>1, <1>2 DEF RowsKnown, OtpRow
<1>6. HeldKnown'
  <2>1. ASSUME NEW x \in Requests, HoldsCode(x), x # r
        PROVE  KnowsRow(x)'
    BY <1>0, <1>1, <2>1 DEF HeldKnown, KnowsRow
  <2>2. ~HoldsCode(r)
    BY <1>0 DEF HoldsCode, Resets, CodeLabels
  <2> QED
    BY <1>3, <2>1, <2>2 DEF HeldKnown
<1>7. SpentGone'
  <2>1. SUFFICES ASSUME NEW x \in Requests, spent[x] = "done", NEW new \in otpCodes'
                 PROVE  new.id # otpId'[x]
    BY <1>0 DEF SpentGone
  <2>2. HoldsCode(x)
    BY <2>1 DEF HoldsCode
  <2>3. x # r
    BY <1>0, <2>1 DEF CodeLabels
  <2> QED
    BY <1>0, <1>1, <2>1, <2>2, <2>3 DEF HeldKnown, KnowsRow, SpentGone
<1>8. OneSpender'
  BY <1>0 DEF OneSpender
<1> QED
  BY <1>4, <1>5, <1>6, <1>7, <1>8

\* The validation: the id is that of the row the code is in.
LEMMA CodeFound ==
    ASSUME TypeOK, CodeInv, NEW r \in Requests, FindAndValidateOtpCode(r)
    PROVE  CodeInv'
<1> USE AccountAssumption DEF TypeOK, AccountTypeOK, OtpTypeOK, CodeInv, Goto
<1>0. PICK row \in otpCodes :
        /\ row \in OtpRow
        /\ row.code = CodeOf[r]
        /\ row.email = EmailOf[r] /\ row.type = TypeFor(r)
        /\ otpId' = [otpId EXCEPT ![r] = row.id]
        /\ UNCHANGED <<otpCodes, spent, written>>
        /\ \E l \in {"expired", "writing", "validated", "consuming"} :
              /\ pc' = [pc EXCEPT ![r] = l]
              /\ l = "consuming" => OpOf[r] \notin {"register", "forgotPassword"}
              /\ l = "validated" => OpOf[r] = "forgotPassword"
  BY DEF FindAndValidateOtpCode, RowsOf, Remember
<1>1. OpOf[r] \in {"register", "forgotPassword", "login", "disable2fa"}
  BY DEF FindAndValidateOtpCode, AsksForCode, CodeLabels
<1>2. \A x \in Requests : Stored(x) => Stored(x)' /\ x # r
  BY <1>0, <1>1 DEF Stored
<1>3. \A x \in Requests : x # r => (HoldsCode(x)' => HoldsCode(x))
  BY <1>0 DEF HoldsCode, Resets
<1>4. /\ row.id \in Requests
      /\ row.code \in Requests
      /\ Stored(row.id)
      /\ Stored(row.code)
      /\ otpId[row.code] = row.id
      /\ row.email = EmailOf[row.code]
      /\ row.type = TypeFor(row.code)
  BY <1>0 DEF RowsKnown, OtpRow
<1>5. CodeLabels'
  BY <1>0, <1>1 DEF CodeLabels
<1>6. RowsKnown'
  BY <1>0, <1>2 DEF RowsKnown, OtpRow
<1>7. HeldKnown'
  <2>1. ASSUME NEW x \in Requests, x # r, HoldsCode(x)
        PROVE  KnowsRow(x)'
    BY <1>0, <1>2, <2>1 DEF HeldKnown, KnowsRow
  <2>2. KnowsRow(r)'
    BY <1>0, <1>2, <1>4 DEF KnowsRow
  <2> QED
    BY <1>3, <2>1, <2>2 DEF HeldKnown
<1>8. spent[r] # "done"
  BY <1>0, <1>4 DEF HoldsCode, HeldKnown, KnowsRow, SpentGone
<1>9. SpentGone' /\ OneSpender'
  BY <1>0, <1>8 DEF SpentGone, OneSpender
<1> QED
  BY <1>5, <1>6, <1>7, <1>9

LEMMA CodeStep ==
    ASSUME TypeOK, CodeInv, [Next]_authVars
    PROVE  CodeInv'
<1>1. CASE UNCHANGED authVars
  BY <1>1 DEF authVars, CodeInv, CodeLabels, RowsKnown, HeldKnown, KnowsRow, SpentGone,
     OneSpender, Stored, HoldsCode, Resets
<1>2. ASSUME NEW r \in Requests, RequestStep(r)
      PROVE  CodeInv'
  <2>1. CASE AccountStep(r) /\ UNCHANGED <<otpVars, sessionVars>>
    BY <2>1, AccountMoves, CodeFrame
  <2>2. CASE SessionStep(r) /\ UNCHANGED otpVars
    BY <2>2, SessionMoves, CodeFrame
  <2>3. CASE Abort(r)
    BY <2>3, CodeFrame DEF Abort, CodeNeutral, Labels
  <2>4. CASE OtpStep(r)
    <3>1. CASE CheckEmail(r)
      BY <3>1, CodeFrame DEF CheckEmail, CodeNeutral, Labels
    <3>2. CASE UpsertOtpCode(r)
      BY <3>2, CodeUpserted
    <3>3. CASE MailAnswers(r)
      BY <3>3, CodeFrame DEF MailAnswers, CodeNeutral, Labels
    <3>4. CASE DropOtpCode(r)
      BY <3>4, CodeDeleted DEF DropOtpCode
    <3>5. CASE VerifyTotp(r)
      BY <3>5, CodeFrame DEF VerifyTotp, CodeNeutral, Labels
    <3>6. CASE FindAndValidateOtpCode(r)
      BY <3>6, CodeFound
    <3>7. CASE ReadForReset(r)
      <4> USE <3>7 DEF ReadForReset, TypeOK, AccountTypeOK, OtpTypeOK, CodeInv, Goto,
              otpVars
      <4>1. \A x \in Requests : Stored(x) => Stored(x)'
        BY DEF Stored
      <4>2. \A x \in Requests : HoldsCode(x)' => HoldsCode(x)
        BY DEF HoldsCode, Resets
      <4>3. RowsKnown' /\ HeldKnown'
        BY <4>1, <4>2 DEF RowsKnown, OtpRow, HeldKnown, KnowsRow
      <4> QED
        BY <4>3 DEF CodeLabels, SpentGone, OneSpender
    <3>8. CASE ConsumeOtpCode(r)
      BY <3>8, CodeDeleted DEF ConsumeOtpCode, HoldsCode
    <3>9. CASE SpendOtpCode(r)
      BY <3>9, CodeDeleted DEF SpendOtpCode, HoldsCode
    <3>10. CASE WriteUser(r)
      <4>1. /\ UNCHANGED <<otpCodes, otpId, spent, pc>>
            /\ Resets(r)
            /\ \E v \in Outcome : written' = [written EXCEPT ![r] = v]
        BY <3>10 DEF WriteUser, Outcome
      <4>2. \A x \in Requests : HoldsCode(x)' => HoldsCode(x)
        BY <4>1 DEF HoldsCode, Resets, TypeOK, OtpTypeOK
      <4>3. HeldKnown'
        BY <4>1, <4>2 DEF CodeInv, HeldKnown, KnowsRow, Stored
      <4>4. CodeLabels'
        BY <4>1 DEF CodeInv, CodeLabels, Resets, TypeOK, OtpTypeOK
      <4> QED
        BY <4>1, <4>3, <4>4 DEF CodeInv, RowsKnown, SpentGone, OneSpender, Stored
    <3>11. CASE AnswerReset(r)
      BY <3>11, CodeFrame DEF AnswerReset, CodeNeutral, Labels
    <3> QED
      BY <2>4, <3>1, <3>2, <3>3, <3>4, <3>5, <3>6, <3>7, <3>8, <3>9, <3>10, <3>11
      DEF OtpStep
  <2> QED
    BY <1>2, <2>1, <2>2, <2>3, <2>4 DEF RequestStep
<1>3. CASE OtpExpires
  <2> USE DEF TypeOK, OtpTypeOK, CodeInv
  <2>1. PICK row \in otpCodes :
          /\ otpCodes' = (otpCodes \ {row}) \cup {Lapsed(row)}
          /\ UNCHANGED <<pc, otpId, spent, written>>
    BY <1>3 DEF OtpExpires
  <2>2. /\ Lapsed(row).id = row.id /\ Lapsed(row).code = row.code
        /\ Lapsed(row).email = row.email /\ Lapsed(row).type = row.type
    BY DEF Lapsed, OtpRow
  <2>3. RowsKnown'
    BY <2>1, <2>2 DEF RowsKnown, Stored
  <2>4. SpentGone'
    BY <2>1, <2>2 DEF SpentGone
  <2> QED
    BY <2>1, <2>3, <2>4 DEF CodeLabels, HeldKnown, KnowsRow, OneSpender, Stored,
       HoldsCode, Resets
<1>4. CASE (TokenExpires \/ RemoveRefreshTokens) /\ UNCHANGED otpVars
  <2>1. UNCHANGED <<otpCodes, otpId, spent, written, pc>>
    BY <1>4 DEF TokenExpires, RemoveRefreshTokens, otpVars
  <2> QED
    BY <2>1 DEF CodeInv, CodeLabels, RowsKnown, HeldKnown, KnowsRow, SpentGone,
       OneSpender, Stored, HoldsCode, Resets
<1> QED
  BY <1>1, <1>2, <1>3, <1>4 DEF Next, ClockStep, CronStep, Open

-----------------------------------------------------------------------------
(***************************************************************************)
(* The sessions.                                                            *)
(***************************************************************************)
\* Steps that move no request into or out of a session and add no token.
LEMMA SessionFrame ==
    ASSUME TypeOK, SessionInv, NEW r \in Open,
           UNCHANGED <<deviceOf, presented, dropped>>,
           tokens' \subseteq tokens,
           \/ UNCHANGED pc
           \/ \E l \in Labels : Goto(r, l) /\ SessionNeutral(r, l)
    PROVE  SessionInv'
<1> USE AccountAssumption DEF TypeOK, AccountTypeOK, SessionTypeOK, SessionInv, Open
<1>1. Given' = Given
  BY DEF Given, LogsIn, Goto, SessionNeutral
<1>2. \A x \in Requests : Claim(x)' => Claim(x)
  BY <1>1 DEF Claim, LiveTokens, Goto, SessionNeutral
<1>3. SessionLabels'
  BY DEF SessionLabels, LogsIn, Goto, SessionNeutral
<1>4. DevicesKnown'
  BY <1>1 DEF DevicesKnown, LogsIn, Goto, SessionNeutral
<1>5. PresentedKnown'
  BY <1>1 DEF PresentedKnown, Goto, SessionNeutral
<1>6. OneClaimPerDevice' /\ LoggedOutUnclaimed'
  BY <1>2 DEF OneClaimPerDevice, LoggedOutUnclaimed
<1> QED
  BY <1>3, <1>4, <1>5, <1>6

\* A login makes a device: nobody has a claim on it yet.
LEMMA DeviceMade ==
    ASSUME TypeOK, SessionInv, NEW r \in Requests, CreateDevice(r)
    PROVE  SessionInv'
<1> USE AccountAssumption DEF TypeOK, AccountTypeOK, SessionTypeOK, SessionInv,
        CreateDevice, Goto
<1>1. Given' = Given
  BY DEF Given, LogsIn
<1>2. deviceOf[r] = None
  BY DEF DevicesKnown
<1>3. \A x \in Requests : deviceOf[x] # r
  BY <1>2 DEF DevicesKnown
<1>4. \A x \in Requests : Claim(x)' => Claim(x) \/ x = r
  BY <1>1 DEF Claim, LiveTokens
<1>5. SessionLabels'
  BY DEF SessionLabels, LogsIn
<1>6. DevicesKnown'
  BY <1>1, <1>2, <1>3 DEF DevicesKnown, LogsIn
<1>7. r \notin Given
  BY DEF Given
<1>8. PresentedKnown'
  BY <1>1, <1>7 DEF PresentedKnown, SessionLabels
<1>9. OneClaimPerDevice'
  BY <1>3, <1>4 DEF OneClaimPerDevice
<1>10. LoggedOutUnclaimed'
  BY <1>3, <1>4 DEF LoggedOutUnclaimed, LogsIn
<1> QED
  BY <1>5, <1>6, <1>8, <1>9, <1>10

\* The claim passes from the request to its token.
LEMMA SessionGiven ==
    ASSUME TypeOK, SessionInv, NEW r \in Requests,
           CreateRefreshToken(r) \/ AnswerRefresh(r)
    PROVE  SessionInv'
<1> USE AccountAssumption DEF TypeOK, AccountTypeOK, SessionTypeOK, SessionInv,
        localVars, sessionVars, Goto
<1>0. /\ pc' = [pc EXCEPT ![r] = "answered"]
      /\ Claim(r)
      /\ LogsIn(r) \/ OpOf[r] = "refresh"
      /\ pc[r] \in {"signing", "rotating"}
      /\ UNCHANGED <<deviceOf, presented, dropped>>
      /\ tokens' \subseteq tokens \cup {r}
  BY DEF CreateRefreshToken, AnswerRefresh, Claim, SessionLabels
<1>1. Given' = Given \cup {r}
  BY <1>0 DEF Given, LogsIn
<1>2. \A x \in Requests : Claim(x)' => Claim(x)
  BY <1>0, <1>1 DEF Claim, LiveTokens
<1>3. SessionLabels'
  BY <1>0 DEF SessionLabels, LogsIn
<1>4. deviceOf[r] # None
  BY <1>0 DEF DevicesKnown, PresentedKnown, Given
<1>5. DevicesKnown'
  BY <1>0, <1>1, <1>4 DEF DevicesKnown, LogsIn
<1>6. PresentedKnown'
  BY <1>0, <1>1 DEF PresentedKnown
<1>7. OneClaimPerDevice' /\ LoggedOutUnclaimed'
  BY <1>0, <1>2 DEF OneClaimPerDevice, LoggedOutUnclaimed
<1> QED
  BY <1>3, <1>5, <1>6, <1>7

\* A refresh or a logout takes up a token.
LEMMA TokenRead ==
    ASSUME TypeOK, SessionInv, NEW r \in Requests,
           FindRefreshToken(r) \/ FindTokenToLogOut(r)
    PROVE  SessionInv'
<1> USE AccountAssumption DEF TypeOK, AccountTypeOK, SessionTypeOK, SessionInv,
        tableVars, Goto
<1>0. PICK t \in Given :
        /\ pc[r] = "start"
        /\ \E l \in {"rotating", "rejecting", "loggingOut"} :
              /\ pc' = [pc EXCEPT ![r] = l]
              /\ OpOf[r] = IF l = "loggingOut" THEN "logout" ELSE "refresh"
        /\ presented' = [presented EXCEPT ![r] = t]
        /\ deviceOf' = [deviceOf EXCEPT ![r] = deviceOf[t]]
        /\ UNCHANGED <<tokens, dropped>>
  BY DEF FindRefreshToken, FindTokenToLogOut, ReadToken
<1>1. Given' = Given /\ r \notin Given
  BY <1>0 DEF Given, LogsIn
<1>2. dropped[r] = "open"
  BY <1>0 DEF SessionLabels
<1>3. \A x \in Requests : Claim(x)' => Claim(x) /\ x # r
  BY <1>0, <1>1, <1>2 DEF Claim, LiveTokens
<1>4. SessionLabels'
  BY <1>0 DEF SessionLabels, LogsIn
<1>5. t \in Requests /\ t # r /\ deviceOf[t] # None
  BY <1>0, <1>1 DEF Given, DevicesKnown
<1>6. ~LogsIn(r)
  BY <1>0 DEF LogsIn
<1>7. DevicesKnown'
  <2>1. \A x \in Requests : deviceOf[x] # None => deviceOf[x] # r
    BY <1>0, <1>6 DEF DevicesKnown
  <2> QED
    BY <1>0, <1>1, <1>5, <1>6, <2>1 DEF DevicesKnown, LogsIn
<1>8. PresentedKnown'
  BY <1>0, <1>1, <1>2, <1>5 DEF PresentedKnown
<1>9. OneClaimPerDevice' /\ LoggedOutUnclaimed'
  BY <1>0, <1>2, <1>3 DEF OneClaimPerDevice, LoggedOutUnclaimed
<1> QED
  BY <1>4, <1>7, <1>8, <1>9

\* The claim passes from the token to the refresh that deletes it, and ends with
\* a logout that does.
LEMMA TokenDeleted ==
    ASSUME TypeOK, SessionInv, NEW r \in Requests, DeleteRefreshToken(r)
    PROVE  SessionInv'
<1> USE AccountAssumption DEF TypeOK, AccountTypeOK, SessionTypeOK, SessionInv
<1> DEFINE t == presented[r]
<1>0. /\ pc[r] \in {"rotating", "rejecting", "loggingOut"}
      /\ dropped[r] = "open"
      /\ tokens' = tokens \ {t}
      /\ dropped' = [dropped EXCEPT ![r] = IF t \in tokens THEN "done" ELSE "lost"]
      /\ UNCHANGED <<pc, deviceOf, presented>>
  BY DEF DeleteRefreshToken, Rotates, Removed
<1>1. t \in Given /\ deviceOf[r] = deviceOf[t] /\ t \in Requests /\ t # r
  BY <1>0 DEF PresentedKnown, Given
<1>2. Given' = Given
  BY <1>0 DEF Given, LogsIn
<1>3. SessionLabels' /\ DevicesKnown' /\ PresentedKnown'
  BY <1>0, <1>2 DEF SessionLabels, LogsIn, DevicesKnown, PresentedKnown
<1>4. \A x \in Requests : Claim(x)' /\ x # r => Claim(x) /\ x # t
  BY <1>0, <1>1, <1>2 DEF Claim, LiveTokens, Given
<1>5. CASE t \notin tokens
  <2>1. \A x \in Requests : Claim(x)' => Claim(x)
    BY <1>0, <1>2, <1>5 DEF Claim, LiveTokens
  <2>2. \A x \in Requests : dropped'[x] = "done" => dropped[x] = "done"
    BY <1>0, <1>5
  <2> QED
    BY <1>0, <1>3, <2>1, <2>2 DEF OneClaimPerDevice, LoggedOutUnclaimed
<1>6. CASE t \in tokens
  <2>1. Claim(t)
    BY <1>1, <1>6 DEF Claim, LiveTokens
  <2>2. \A x \in Requests : Claim(x)' /\ x # r => deviceOf[x] # deviceOf[r]
    BY <1>1, <1>4, <2>1 DEF OneClaimPerDevice
  <2>3. OneClaimPerDevice'
    BY <1>0, <1>4, <2>2 DEF OneClaimPerDevice
  <2>4. OpOf[r] = "logout" => ~Claim(r)'
    BY <1>0 DEF Claim, LiveTokens, Given, LogsIn, SessionLabels
  <2>5. ASSUME NEW x \in Requests, NEW c \in Requests, OpOf[x] = "logout",
               dropped'[x] = "done", Claim(c)'
        PROVE  deviceOf'[c] # deviceOf'[x]
    <3>1. CASE x = r
      BY <1>0, <2>2, <2>4, <2>5, <3>1
    <3>2. CASE x # r /\ c # r
      BY <1>0, <1>4, <2>5, <3>2 DEF LoggedOutUnclaimed
    <3>3. CASE x # r /\ c = r
      BY <1>0, <1>1, <2>1, <2>5, <3>3 DEF LoggedOutUnclaimed
    <3> QED
      BY <3>1, <3>2, <3>3
  <2>6. LoggedOutUnclaimed'
    BY <2>5 DEF LoggedOutUnclaimed
  <2> QED
    BY <1>3, <2>3, <2>6
<1> QED
  BY <1>5, <1>6

LEMMA SessionStepInv ==
    ASSUME TypeOK, SessionInv, [Next]_authVars
    PROVE  SessionInv'
<1>1. CASE UNCHANGED authVars
  BY <1>1 DEF authVars, SessionInv, SessionLabels, DevicesKnown, PresentedKnown,
     OneClaimPerDevice, LoggedOutUnclaimed, Claim, LiveTokens, Given, LogsIn
<1>2. ASSUME NEW r \in Open, RequestStep(r)
      PROVE  SessionInv'
  <2>0. r \in Requests
    BY DEF Open
  <2> USE <2>0 DEF sessionVars, tableVars, localVars
  <2>1. CASE AccountStep(r) /\ UNCHANGED <<otpVars, sessionVars>>
    BY <2>1, AccountMoves, SessionFrame
  <2>2. CASE OtpStep(r) /\ UNCHANGED sessionVars
    BY <2>2, OtpMoves, SessionFrame
  <2>3. CASE Abort(r)
    BY <2>3, SessionFrame DEF Abort, SessionNeutral, Labels
  <2>4. CASE SessionStep(r)
    <3>1. CASE CreateDevice(r)
      BY <3>1, DeviceMade
    <3>2. CASE CreateRefreshToken(r) \/ AnswerRefresh(r)
      BY <3>2, SessionGiven
    <3>3. CASE FindRefreshToken(r) \/ FindTokenToLogOut(r)
      BY <3>3, TokenRead
    <3>4. CASE DeleteRefreshToken(r)
      BY <3>4, TokenDeleted
    <3>5. CASE InsertNextToken(r)
      <4> USE AccountAssumption DEF TypeOK, AccountTypeOK, SessionTypeOK, SessionInv
      <4>1. /\ UNCHANGED <<pc, deviceOf, presented, dropped>>
            /\ tokens' \subseteq tokens \cup {r}
            /\ pc[r] # "answered"
        BY <3>5 DEF InsertNextToken, Rotates
      <4>2. Given' = Given /\ r \notin Given
        BY <4>1 DEF Given, LogsIn
      <4>3. \A x \in Requests : Claim(x)' => Claim(x)
        BY <4>1, <4>2 DEF Claim, LiveTokens
      <4> QED
        BY <4>1, <4>2, <4>3 DEF SessionLabels, LogsIn, DevicesKnown, PresentedKnown,
           OneClaimPerDevice, LoggedOutUnclaimed
    <3>6. CASE LogOutWithoutToken(r)
      BY <3>6, SessionFrame DEF LogOutWithoutToken, SessionNeutral, Labels
    <3>7. CASE DeactivateDevice(r)
      BY <3>7, SessionFrame DEF DeactivateDevice
    <3>8. CASE DeleteUser(r)
      BY <3>8, SessionFrame DEF DeleteUser, SessionNeutral, Labels
    <3>9. CASE AnswerLogout(r)
      <4> USE AccountAssumption DEF TypeOK, AccountTypeOK, SessionTypeOK, SessionInv
      <4>1. /\ UNCHANGED <<tokens, deviceOf, presented, dropped>>
            /\ pc' = [pc EXCEPT ![r] = "answered"]
            /\ pc[r] = "loggingOut"
            /\ OpOf[r] = "logout"
        BY <3>9 DEF AnswerLogout, Goto, SessionLabels
      <4>2. Given' = Given
        BY <4>1 DEF Given, LogsIn
      <4>3. \A x \in Requests : Claim(x)' => Claim(x)
        BY <4>1, <4>2 DEF Claim, LiveTokens
      <4>4. SessionLabels' /\ DevicesKnown' /\ PresentedKnown'
        BY <4>1, <4>2 DEF SessionLabels, LogsIn, DevicesKnown, PresentedKnown
      <4> QED
        BY <4>1, <4>3, <4>4 DEF OneClaimPerDevice, LoggedOutUnclaimed
    <3> QED
      BY <2>4, <3>1, <3>2, <3>3, <3>4, <3>5, <3>6, <3>7, <3>8, <3>9 DEF SessionStep
  <2> QED
    BY <1>2, <2>1, <2>2, <2>3, <2>4 DEF RequestStep
<1>3. CASE ClockStep \/ CronStep
  <2>1. UNCHANGED <<pc, deviceOf, presented, dropped>> /\ tokens' \subseteq tokens
    BY <1>3 DEF ClockStep, CronStep, OtpExpires, TokenExpires, RemoveRefreshTokens,
       sessionVars, localVars
  <2>2. Given' = Given
    BY <2>1 DEF Given, LogsIn
  <2>3. \A x \in Requests : Claim(x)' => Claim(x)
    BY <2>1, <2>2 DEF Claim, LiveTokens
  <2> QED
    BY <2>1, <2>2, <2>3 DEF SessionInv, SessionLabels, LogsIn, DevicesKnown,
       PresentedKnown, OneClaimPerDevice, LoggedOutUnclaimed
<1> QED
  BY <1>1, <1>2, <1>3 DEF Next

-----------------------------------------------------------------------------
(***************************************************************************)
(* The refinement: what the steps do to the claims.                         *)
(***************************************************************************)
LEMMA ClaimantsAre ==
    /\ Claimants \in [TokenMakers -> SUBSET TokenMakers]
    /\ \A d, x \in TokenMakers : x \in Claimants[d] <=> Claim(x) /\ deviceOf[x] = d
BY DEF Claimants

LEMMA ClaimantsAreNext ==
    /\ Claimants' \in [TokenMakers -> SUBSET TokenMakers]
    /\ \A d, x \in TokenMakers : x \in Claimants'[d] <=> Claim(x)' /\ deviceOf'[x] = d
BY DEF Claimants, TokenMakers, LogsIn

\* Claims may end and none is made; one request may have spent its chance.
ClaimsOnlyEnd ==
    /\ \A x \in Requests : Claim(x)' => Claim(x) /\ deviceOf'[x] = deviceOf[x]
    /\ Claimed' = Claimed \/ \E h \in TokenMakers : Claimed' = Claimed \cup {h}

LEMMA ClaimsEnd ==
    ASSUME OneClaimPerDevice, ClaimsOnlyEnd
    PROVE  Device!EndSessions
<1> USE DEF ClaimsOnlyEnd
<1>1. TokenMakers \subseteq Requests
  BY DEF TokenMakers
<1>2. ASSUME NEW d \in TokenMakers, Claimants'[d] # {}
      PROVE  Claimants'[d] = Claimants[d]
  <2>1. Claimants'[d] \subseteq Claimants[d]
    BY <1>1, ClaimantsAre, ClaimantsAreNext
  <2>2. \A x, y \in Claimants[d] : x = y
    BY <1>1, ClaimantsAre DEF OneClaimPerDevice
  <2> QED
    BY <1>2, <2>1, <2>2
<1> QED
  BY <1>2, ClaimantsAreNext DEF Device!EndSessions

\* A step that writes neither the device nor the deletion of a request leaves
\* those who have claimed alone.
LEMMA ClaimedKept ==
    ASSUME UNCHANGED <<deviceOf, dropped>>
    PROVE  Claimed' = Claimed
BY DEF Claimed, TokenMakers, LogsIn

\* The steps that are not about sessions end a claim at most.
LEMMA FrameEnds ==
    ASSUME TypeOK, NEW r \in Open,
           UNCHANGED <<deviceOf, dropped>>,
           tokens' \subseteq tokens,
           \/ UNCHANGED pc
           \/ \E l \in Labels : Goto(r, l) /\ SessionNeutral(r, l)
    PROVE  ClaimsOnlyEnd
<1> USE AccountAssumption DEF TypeOK, AccountTypeOK, SessionTypeOK, Open
<1>1. Given' = Given
  BY DEF Given, LogsIn, Goto, SessionNeutral
<1>2. \A x \in Requests : Claim(x)' => Claim(x)
  BY <1>1 DEF Claim, LiveTokens, Goto, SessionNeutral
<1> QED
  BY <1>2, ClaimedKept DEF ClaimsOnlyEnd

\* A login opens the session of the device it makes.
LEMMA LoginOpens ==
    ASSUME TypeOK, SessionInv, NEW r \in Requests, CreateDevice(r)
    PROVE  Device!OpenSession(r) /\ r \in TokenMakers
<1> USE AccountAssumption DEF TypeOK, AccountTypeOK, SessionTypeOK, SessionInv
<1>1. /\ LogsIn(r) /\ r \in TokenMakers
      /\ pc' = [pc EXCEPT ![r] = "signing"]
      /\ pc[r] = "admitted"
      /\ deviceOf' = [deviceOf EXCEPT ![r] = r]
      /\ UNCHANGED <<tokens, dropped>>
  BY DEF CreateDevice, Goto, TokenMakers
<1>2. deviceOf[r] = None /\ OpOf[r] # "refresh"
  BY <1>1 DEF DevicesKnown, LogsIn
<1>3. \A x \in Requests : deviceOf[x] # r
  BY <1>2 DEF DevicesKnown
<1>4. Given' = Given
  BY <1>1 DEF Given, LogsIn
<1>5. \A x \in Requests : x # r => (Claim(x)' <=> Claim(x))
  BY <1>1, <1>4 DEF Claim, LiveTokens
<1>6. Claim(r)'
  BY <1>1 DEF Claim
<1>7. TokenMakers \subseteq Requests /\ None \notin TokenMakers
  BY DEF TokenMakers
<1>8. Claimants' = [Claimants EXCEPT ![r] = {r}]
  <2>1. \A x \in TokenMakers : x \in Claimants'[r] <=> x = r
    BY <1>1, <1>3, <1>6, <1>7, ClaimantsAreNext
  <2>2. \A d, x \in TokenMakers : d # r => (x \in Claimants'[d] <=> x \in Claimants[d])
    BY <1>1, <1>2, <1>5, <1>7, ClaimantsAre, ClaimantsAreNext
  <2>3. Claimants'[r] = {r}
    BY <1>1, <2>1, ClaimantsAreNext
  <2>4. ASSUME NEW d \in TokenMakers, d # r
        PROVE  Claimants'[d] = Claimants[d]
    <3>1. Claimants'[d] \subseteq TokenMakers /\ Claimants[d] \subseteq TokenMakers
      BY ClaimantsAre, ClaimantsAreNext
    <3>2. Claimants'[d] \subseteq Claimants[d]
      BY <2>2, <2>4, <3>1
    <3>3. Claimants[d] \subseteq Claimants'[d]
      BY <2>2, <2>4, <3>1
    <3> QED
      BY ONLY <3>2, <3>3
  <2> QED
    BY <1>1, <2>3, <2>4, ClaimantsAre, ClaimantsAreNext
<1>9. r \notin Claimed
  BY <1>2 DEF Claimed
<1>10. Claimed' = Claimed \cup {r}
  BY <1>1, <1>7 DEF Claimed, TokenMakers, LogsIn
<1> QED
  BY <1>1, <1>8, <1>9, <1>10 DEF Device!OpenSession


\* A login's session goes to its token, a refresh's to the next one, if it is
\* still there.
LEMMA AnswerEnds ==
    ASSUME TypeOK, SessionInv, NEW r \in Requests,
           CreateRefreshToken(r) \/ AnswerRefresh(r)
    PROVE  ClaimsOnlyEnd
<1> USE AccountAssumption DEF TypeOK, AccountTypeOK, SessionTypeOK, SessionInv,
        localVars, sessionVars, Goto
<1>1. /\ pc' = [pc EXCEPT ![r] = "answered"]
      /\ Claim(r)
      /\ LogsIn(r) \/ OpOf[r] = "refresh"
      /\ UNCHANGED <<deviceOf, dropped>>
      /\ tokens' \subseteq tokens \cup {r}
  BY DEF CreateRefreshToken, AnswerRefresh, Claim, SessionLabels
<1>2. Given' = Given \cup {r}
  BY <1>1 DEF Given, LogsIn
<1>3. \A x \in Requests : Claim(x)' => Claim(x)
  BY <1>1, <1>2 DEF Claim, LiveTokens
<1> QED
  BY <1>1, <1>3, ClaimedKept DEF ClaimsOnlyEnd

\* The request that presents a token has no claim of its own yet.
LEMMA ReadEnds ==
    ASSUME TypeOK, SessionInv, NEW r \in Requests,
           FindRefreshToken(r) \/ FindTokenToLogOut(r)
    PROVE  ClaimsOnlyEnd
<1> USE AccountAssumption DEF TypeOK, AccountTypeOK, SessionTypeOK, SessionInv,
        tableVars, Goto
<1>0. PICK t \in Given :
        /\ pc[r] = "start"
        /\ \E l \in {"rotating", "rejecting", "loggingOut"} :
              /\ pc' = [pc EXCEPT ![r] = l]
              /\ OpOf[r] = IF l = "loggingOut" THEN "logout" ELSE "refresh"
        /\ deviceOf' = [deviceOf EXCEPT ![r] = deviceOf[t]]
        /\ UNCHANGED <<tokens, dropped>>
  BY DEF FindRefreshToken, FindTokenToLogOut, ReadToken
<1>1. Given' = Given /\ r \notin Given
  BY <1>0 DEF Given, LogsIn
<1>2. dropped[r] = "open"
  BY <1>0 DEF SessionLabels
<1>3. \A x \in Requests : Claim(x)' => Claim(x) /\ x # r
  BY <1>0, <1>1, <1>2 DEF Claim, LiveTokens
<1>4. t \in Requests /\ deviceOf[t] # None /\ ~LogsIn(r)
  BY <1>0 DEF Given, DevicesKnown, LogsIn
<1>5. deviceOf[r] # r /\ deviceOf[t] # r
  BY <1>4 DEF DevicesKnown
<1>6. \A x \in Requests : deviceOf'[x] = x <=> deviceOf[x] = x
  BY <1>0, <1>5
<1>7. Claimed' = Claimed
  BY <1>0, <1>6 DEF Claimed, TokenMakers, LogsIn
<1> QED
  BY <1>0, <1>3, <1>7 DEF ClaimsOnlyEnd

\* A refresh that deletes the token takes the session over, unless the token
\* was past its time; a logout ends the session.
LEMMA DeletionPasses ==
    ASSUME TypeOK, SessionInv, NEW r \in Requests, DeleteRefreshToken(r)
    PROVE  \/ ClaimsOnlyEnd
           \/ \E d, new \in TokenMakers : Device!PassSession(d, new)
<1> USE AccountAssumption DEF TypeOK, AccountTypeOK, SessionTypeOK, SessionInv
<1> DEFINE t == presented[r]
           d == deviceOf[r]
<1>0. /\ pc[r] \in {"rotating", "rejecting", "loggingOut"}
      /\ dropped[r] = "open"
      /\ tokens' = tokens \ {t}
      /\ dropped' = [dropped EXCEPT ![r] = IF t \in tokens THEN "done" ELSE "lost"]
      /\ UNCHANGED <<pc, deviceOf, presented>>
  BY DEF DeleteRefreshToken, Rotates, Removed
<1>1. t \in Given /\ d = deviceOf[t] /\ t \in Requests /\ t # r
  BY <1>0 DEF PresentedKnown, Given
<1>2. Given' = Given /\ r \notin Given
  BY <1>0 DEF Given, LogsIn
<1>3. \A x \in Requests : x # r => (Claim(x)' <=> Claim(x) /\ x # t)
  BY <1>0, <1>1, <1>2 DEF Claim, LiveTokens, Given
<1>4. TokenMakers \subseteq Requests
  BY DEF TokenMakers
<1>5. CASE t \notin tokens \/ pc[r] # "rotating"
  <2>1. ~Claim(r)'
    BY <1>0, <1>2, <1>5 DEF Claim, LiveTokens
  <2>2. Claimed' = Claimed \/ \E h \in TokenMakers : Claimed' = Claimed \cup {h}
    <3>1. OpOf[r] = "refresh" => r \in TokenMakers
      BY DEF TokenMakers
    <3>2. \A x \in Requests : x # r => dropped'[x] = dropped[x]
      BY <1>0
    <3>3. CASE OpOf[r] = "refresh" /\ dropped'[r] = "done"
      BY <1>0, <3>1, <3>2, <3>3 DEF Claimed, TokenMakers, LogsIn
    <3>4. CASE ~(OpOf[r] = "refresh" /\ dropped'[r] = "done")
      BY <1>0, <3>2, <3>4 DEF Claimed, TokenMakers, LogsIn
    <3> QED
      BY <3>3, <3>4
  <2> QED
    BY <1>0, <1>3, <2>1, <2>2 DEF ClaimsOnlyEnd
<1>6. CASE t \in tokens /\ pc[r] = "rotating"
  <2>1. /\ OpOf[r] = "refresh" /\ r \in TokenMakers
        /\ t \in TokenMakers
        /\ Claim(t) /\ Claim(r)'
    BY <1>0, <1>1, <1>6 DEF SessionLabels, TokenMakers, Given, Claim, LiveTokens
  <2>2. d \in TokenMakers /\ d # r
    BY <1>1, <2>1 DEF DevicesKnown, TokenMakers, LogsIn
  <2>3. Claimants[d] = {t}
    <3>1. \A x \in Claimants[d] : x = t
      BY <1>1, <1>4, <2>1, <2>2, ClaimantsAre DEF OneClaimPerDevice
    <3>2. t \in Claimants[d]
      BY <1>1, <2>1, <2>2, ClaimantsAre
    <3> QED
      BY <3>1, <3>2
  <2>4. Claimants'[d] = {r}
    <3>1. \A x \in Claimants'[d] : x = r
      <4> SUFFICES ASSUME NEW x \in Claimants'[d], x # r PROVE FALSE
        OBVIOUS
      <4>1. x \in TokenMakers /\ Claim(x)' /\ deviceOf'[x] = d
        BY <2>2, ClaimantsAreNext
      <4>2. Claim(x) /\ x # t /\ deviceOf[x] = d
        BY <1>0, <1>3, <1>4, <4>1
      <4> QED
        BY <1>1, <1>4, <2>1, <4>1, <4>2 DEF OneClaimPerDevice
    <3>2. r \in Claimants'[d]
      BY <1>0, <2>1, <2>2, ClaimantsAreNext
    <3> QED
      BY <3>1, <3>2
  <2>5. ASSUME NEW e \in TokenMakers, e # d
        PROVE  Claimants'[e] = Claimants[e]
    <3>1. ASSUME NEW x \in TokenMakers
          PROVE  x \in Claimants'[e] <=> x \in Claimants[e]
      <4>1. CASE x = r
        <5>1. deviceOf[x] # e /\ deviceOf'[x] # e
          BY <1>0, <2>5, <4>1
        <5> QED
          BY <2>5, <5>1, ClaimantsAre, ClaimantsAreNext
      <4>2. CASE x = t
        <5>1. deviceOf[x] # e /\ deviceOf'[x] # e
          BY <1>0, <1>1, <2>5, <4>2
        <5> QED
          BY <2>5, <5>1, ClaimantsAre, ClaimantsAreNext
      <4>3. CASE x # r /\ x # t
        <5>1. (Claim(x)' <=> Claim(x)) /\ deviceOf'[x] = deviceOf[x]
          BY <1>0, <1>3, <1>4, <4>3
        <5> QED
          BY <2>5, <5>1, ClaimantsAre, ClaimantsAreNext
      <4> QED
        BY <4>1, <4>2, <4>3
    <3>2. Claimants'[e] \subseteq TokenMakers /\ Claimants[e] \subseteq TokenMakers
      BY <2>5, ClaimantsAre, ClaimantsAreNext
    <3>3. Claimants'[e] \subseteq Claimants[e]
      BY <3>1, <3>2
    <3>4. Claimants[e] \subseteq Claimants'[e]
      BY <3>1, <3>2
    <3> QED
      BY ONLY <3>3, <3>4
  <2>6. Claimants' = [Claimants EXCEPT ![d] = {r}]
    BY <2>2, <2>4, <2>5, ClaimantsAre, ClaimantsAreNext
  <2>7. r \notin Claimed
    BY <1>0, <2>1, <2>2 DEF Claimed
  <2>8. Claimed' = Claimed \cup {r}
    <3>1. \A x \in Requests : x # r => dropped'[x] = dropped[x]
      BY <1>0
    <3>2. dropped'[r] = "done"
      BY <1>0, <1>6
    <3> QED
      BY <1>0, <2>1, <3>1, <3>2 DEF Claimed, TokenMakers, LogsIn
  <2>9. Device!PassSession(d, r)
    BY <2>1, <2>3, <2>6, <2>7, <2>8 DEF Device!PassSession
  <2> QED
    BY <2>1, <2>2, <2>9
<1> QED
  BY <1>5, <1>6

\* Every step opens a session, passes one on, ends some, or leaves all alone.
LEMMA DeviceStep ==
    ASSUME TypeOK, SessionInv, [Next]_authVars
    PROVE  \/ ClaimsOnlyEnd
           \/ \E d \in TokenMakers : Device!OpenSession(d)
           \/ \E d, new \in TokenMakers : Device!PassSession(d, new)
<1>1. CASE UNCHANGED authVars
  <2>1. UNCHANGED <<tokens, pc, deviceOf, dropped>>
    BY <1>1 DEF authVars
  <2>2. \A x \in Requests : Claim(x)' => Claim(x)
    BY <2>1 DEF Claim, LiveTokens, Given, LogsIn
  <2> QED
    BY <2>1, <2>2, ClaimedKept DEF ClaimsOnlyEnd
<1>2. ASSUME NEW r \in Open, RequestStep(r)
      PROVE  \/ ClaimsOnlyEnd
             \/ \E d \in TokenMakers : Device!OpenSession(d)
             \/ \E d, new \in TokenMakers : Device!PassSession(d, new)
  <2>0. r \in Requests
    BY DEF Open
  <2> USE <2>0 DEF sessionVars, tableVars, localVars
  <2>1. CASE AccountStep(r) /\ UNCHANGED <<otpVars, sessionVars>>
    BY <2>1, AccountMoves, FrameEnds
  <2>2. CASE OtpStep(r) /\ UNCHANGED sessionVars
    BY <2>2, OtpMoves, FrameEnds
  <2>3. CASE Abort(r)
    BY <2>3, FrameEnds DEF Abort, SessionNeutral, Labels
  <2>4. CASE SessionStep(r)
    <3>1. CASE CreateDevice(r)
      BY <3>1, LoginOpens
    <3>2. CASE CreateRefreshToken(r) \/ AnswerRefresh(r)
      BY <3>2, AnswerEnds
    <3>3. CASE FindRefreshToken(r) \/ FindTokenToLogOut(r)
      BY <3>3, ReadEnds
    <3>4. CASE DeleteRefreshToken(r)
      BY <3>4, DeletionPasses
    <3>5. CASE InsertNextToken(r)
      <4>1. /\ UNCHANGED <<pc, deviceOf, dropped>>
            /\ tokens' \subseteq tokens \cup {r}
            /\ pc[r] # "answered"
        BY <3>5 DEF InsertNextToken, Rotates
      <4>2. Given' = Given /\ r \notin Given
        BY <4>1 DEF Given, LogsIn
      <4>3. \A x \in Requests : Claim(x)' => Claim(x)
        BY <4>1, <4>2 DEF Claim, LiveTokens
      <4> QED
        BY <4>1, <4>3, ClaimedKept DEF ClaimsOnlyEnd
    <3>6. CASE LogOutWithoutToken(r)
      BY <3>6, FrameEnds DEF LogOutWithoutToken, SessionNeutral, Labels
    <3>7. CASE DeactivateDevice(r)
      BY <3>7, FrameEnds DEF DeactivateDevice
    <3>8. CASE DeleteUser(r)
      BY <3>8, FrameEnds DEF DeleteUser, SessionNeutral, Labels
    <3>9. CASE AnswerLogout(r)
      <4> USE AccountAssumption DEF TypeOK, AccountTypeOK, SessionInv
      <4>1. /\ UNCHANGED <<tokens, deviceOf, dropped>>
            /\ pc' = [pc EXCEPT ![r] = "answered"]
            /\ OpOf[r] = "logout"
        BY <3>9 DEF AnswerLogout, Goto, SessionLabels
      <4>2. Given' = Given
        BY <4>1 DEF Given, LogsIn
      <4>3. \A x \in Requests : Claim(x)' => Claim(x)
        BY <4>1, <4>2 DEF Claim, LiveTokens
      <4> QED
        BY <4>1, <4>3, ClaimedKept DEF ClaimsOnlyEnd
    <3> QED
      BY <2>4, <3>1, <3>2, <3>3, <3>4, <3>5, <3>6, <3>7, <3>8, <3>9 DEF SessionStep
  <2> QED
    BY <1>2, <2>1, <2>2, <2>3, <2>4 DEF RequestStep
<1>3. CASE ClockStep \/ CronStep
  <2>1. UNCHANGED <<pc, deviceOf, dropped>> /\ tokens' \subseteq tokens
    BY <1>3 DEF ClockStep, CronStep, OtpExpires, TokenExpires, RemoveRefreshTokens,
       sessionVars, localVars
  <2>2. \A x \in Requests : Claim(x)' => Claim(x)
    BY <2>1 DEF Claim, LiveTokens, Given, LogsIn
  <2> QED
    BY <2>1, <2>2, ClaimedKept DEF ClaimsOnlyEnd
<1> QED
  BY <1>1, <1>2, <1>3 DEF Next

-----------------------------------------------------------------------------
(***************************************************************************)
(* What the requests that took effect leave behind.                         *)
(***************************************************************************)

\* An answer is only changed by a request under way.
LEMMA AnswersStay ==
    ASSUME TypeOK, [Next]_authVars, NEW d \in Requests, pc[d] = "answered"
    PROVE  pc'[d] = "answered"
<1> USE DEF Goto
<1>0. pc \in [Requests -> Labels]
  BY DEF TypeOK, AccountTypeOK
<1>1. ASSUME NEW x \in Open, RequestStep(x)
      PROVE  pc'[d] = "answered"
  <2>1. x \in Requests /\ x # d
    BY DEF Open
  <2>2. UNCHANGED pc \/ \E l \in Labels : Goto(x, l)
    BY <1>1, <2>1, AccountMoves, OtpMoves, SessionMoves DEF RequestStep, Abort, Labels
  <2> QED
    BY <1>0, <2>1, <2>2
<1>2. CASE ClockStep \/ CronStep \/ UNCHANGED authVars
  BY <1>2 DEF ClockStep, CronStep, OtpExpires, TokenExpires, RemoveRefreshTokens,
     authVars
<1> QED
  BY <1>1, <1>2 DEF Next

\* register and forgotPassword are answered once their code is deleted.
LEMMA AnswersSpent ==
    ASSUME TypeOK, CodeInv, SessionInv, [Next]_authVars, NEW r \in Requests,
           OpOf[r] \in {"register", "forgotPassword"},
           pc[r] = "answered" => spent[r] = "done", pc'[r] = "answered"
    PROVE  spent'[r] = "done"
<1> USE DEF Goto
<1>0. /\ pc \in [Requests -> Labels]
      /\ spent \in [Requests -> Outcome]
  BY DEF TypeOK, AccountTypeOK, OtpTypeOK
<1>1. ASSUME spent[r] = "done"
      PROVE  spent'[r] = "done"
  <2>1. ASSUME NEW x \in Requests, OtpStep(x)
        PROVE  spent'[r] = "done"
    <3>1. CASE ConsumeOtpCode(x) \/ SpendOtpCode(x)
      BY <1>0, <1>1, <3>1 DEF ConsumeOtpCode, SpendOtpCode
    <3>2. CASE ~(ConsumeOtpCode(x) \/ SpendOtpCode(x))
      BY <1>1, <2>1, <3>2 DEF OtpStep, CheckEmail, UpsertOtpCode, MailAnswers,
         DropOtpCode, VerifyTotp, FindAndValidateOtpCode, ReadForReset, WriteUser,
         AnswerReset, otpVars
    <3> QED
      BY <3>1, <3>2
  <2>2. UNCHANGED spent \/ \E x \in Requests : OtpStep(x)
    BY DEF Next, Open, RequestStep, Abort, ClockStep, CronStep, OtpExpires, otpVars,
       authVars
  <2> QED
    BY <1>1, <2>1, <2>2
<1>2. CASE pc[r] = "answered"
  BY <1>1, <1>2
<1>3. CASE pc[r] # "answered"
  <2>1. ASSUME NEW x \in Requests, x # r, RequestStep(x)
        PROVE  pc'[r] = pc[r]
    <3>1. UNCHANGED pc \/ \E l \in Labels : Goto(x, l)
      BY <2>1, AccountMoves, OtpMoves, SessionMoves DEF RequestStep, Abort, Labels
    <3> QED
      BY <1>0, <2>1, <3>1
  <2>2. ~AccountStep(r)
    BY <1>0, <1>3 DEF AccountStep, CreateUser, ReadForSetup, StoreSecret,
       ReadForDisable, RemoveSecret, ReadForLogin, ReadForGoogle, InsertGoogleUser
  <2>3. ~SessionStep(r)
    BY <1>0, <1>3 DEF SessionStep, CreateDevice, CreateRefreshToken,
       FindRefreshToken, FindTokenToLogOut, ReadToken, LogOutWithoutToken,
       InsertNextToken, DeleteRefreshToken, AnswerRefresh, DeactivateDevice,
       AnswerLogout, DeleteUser, LogsIn, Rotates, SessionInv, SessionLabels
  <2>4. ~Abort(r)
    BY <1>0 DEF Abort
  <2>5. ASSUME OtpStep(r)
        PROVE  AnswerReset(r)
    BY <1>0, <1>3, <2>5 DEF OtpStep, CheckEmail, UpsertOtpCode, MailAnswers,
       DropOtpCode, VerifyTotp, FindAndValidateOtpCode, ReadForReset,
       ConsumeOtpCode, SpendOtpCode, WriteUser, Resets
  <2>6. pc'[r] = pc[r] \/ RequestStep(r)
    BY <2>1 DEF Next, Open, ClockStep, CronStep, OtpExpires, TokenExpires,
       RemoveRefreshTokens, authVars
  <2>7. AnswerReset(r)
    BY <1>3, <2>2, <2>3, <2>4, <2>5, <2>6 DEF RequestStep
  <2> QED
    BY <1>1, <2>7 DEF AnswerReset
<1> QED
  BY <1>2, <1>3

\* A user is replaced only when there is none, and goes only by deleteUser.
LEMMA AccountWriters ==
    ASSUME TypeOK, [Next]_authVars, NEW e \in Emails, account[e] # None,
           account'[e] # account[e]
    PROVE  UserDeleted(e)'
<1>0. account \in [Emails -> UserIds \cup {None}] /\ pc \in [Requests -> Labels]
  BY DEF TypeOK, AccountTypeOK
<1>1. ASSUME NEW x \in Requests, InsertUser(x)
      PROVE  FALSE
  BY <1>0, <1>1, AccountAssumption DEF InsertUser, Exists, UserOf
<1>2. ASSUME NEW x \in Requests, AccountStep(x)
      PROVE  UNCHANGED account \/ InsertUser(x)
  BY <1>2 DEF AccountStep, CreateUser, ReadForSetup, StoreSecret, ReadForDisable,
     RemoveSecret, ReadForLogin, ReadForGoogle, InsertGoogleUser, accountVars
<1>3. ASSUME NEW x \in Requests, OtpStep(x)
      PROVE  UNCHANGED account \/ InsertUser(x)
  BY <1>3 DEF OtpStep, CheckEmail, UpsertOtpCode, MailAnswers, DropOtpCode,
     VerifyTotp, FindAndValidateOtpCode, ReadForReset, ConsumeOtpCode,
     SpendOtpCode, WriteUser, AnswerReset, accountVars
<1>4. ASSUME NEW x \in Requests, SessionStep(x), ~DeleteUser(x)
      PROVE  UNCHANGED account
  BY <1>4 DEF SessionStep, CreateDevice, CreateRefreshToken, FindRefreshToken,
     FindTokenToLogOut, ReadToken, LogOutWithoutToken, InsertNextToken,
     DeleteRefreshToken, AnswerRefresh, DeactivateDevice, AnswerLogout, accountVars
<1>5. ASSUME NEW x \in Requests, DeleteUser(x)
      PROVE  UserDeleted(e)'
  BY <1>0, <1>5, AccountAssumption DEF DeleteUser, UserDeleted, Goto
<1>6. CASE ClockStep \/ CronStep \/ UNCHANGED authVars
  BY <1>6 DEF ClockStep, CronStep, OtpExpires, TokenExpires, RemoveRefreshTokens,
     accountVars, authVars
<1> QED
  BY <1>1, <1>2, <1>3, <1>4, <1>5, <1>6 DEF Next, Open, RequestStep, Abort, accountVars

LEMMA EffectStep ==
    ASSUME TypeOK, CodeInv, SessionInv, EffectInv, [Next]_authVars
    PROVE  EffectInv'
<1>0. /\ account \in [Emails -> UserIds \cup {None}]
      /\ written \in [Requests -> Outcome]
      /\ \A x \in Requests : x # None /\ EmailOf[x] \in Emails
  BY AccountAssumption DEF TypeOK, AccountTypeOK, OtpTypeOK
<1>1. \A e \in Emails : UserDeleted(e) => UserDeleted(e)'
  BY AnswersStay DEF UserDeleted
<1>2. ASSUME NEW r \in Requests, OpOf[r] \in {"register", "forgotPassword"},
             pc'[r] = "answered"
      PROVE  spent'[r] = "done"
  BY <1>2, AnswersSpent DEF EffectInv
<1>3. ASSUME NEW r \in Requests, OpOf[r] = "register", written[r] = "done"
      PROVE  account'[EmailOf[r]] = r \/ UserDeleted(EmailOf[r])'
  <2>1. account[EmailOf[r]] = r \/ UserDeleted(EmailOf[r])
    BY <1>3 DEF EffectInv, UserOf
  <2> QED
    BY <1>0, <1>1, <2>1, AccountWriters
<1>4. ASSUME NEW r \in Requests, OpOf[r] = "register", written[r] # "done",
             written'[r] = "done"
      PROVE  account'[EmailOf[r]] = r
  <2>1. PICK x \in Requests : WriteUser(x)
    BY <1>4 DEF Next, Open, RequestStep, Abort, OtpStep, CheckEmail, UpsertOtpCode,
       MailAnswers, DropOtpCode, VerifyTotp, FindAndValidateOtpCode, ReadForReset,
       ConsumeOtpCode, SpendOtpCode, AnswerReset, ClockStep, CronStep, OtpExpires,
       otpVars, authVars
  <2>2. x = r
    BY <1>0, <1>4, <2>1 DEF WriteUser
  <2> QED
    BY <1>0, <1>4, <2>1, <2>2 DEF WriteUser, InsertUser
<1> QED
  BY <1>2, <1>3, <1>4 DEF EffectInv, UserOf

-----------------------------------------------------------------------------
\* The invariant holds in every reachable state.
LEMMA Invariance == Spec => []AuthInv
<1>1. Init => AuthInv
  <2> SUFFICES ASSUME Init PROVE AuthInv
    OBVIOUS
  <2> USE AccountAssumption DEF Init, AccountInit, OtpInit, SessionInit
  <2>1. TypeOK
    BY DEF TypeOK, AccountTypeOK, OtpTypeOK, SessionTypeOK, UserIds, Labels, Outcome
  <2>2. \A r \in Requests : pc[r] \in {"start", "unsent"}
    OBVIOUS
  <2>3. CodeInv
    BY <2>2 DEF CodeInv, CodeLabels, RowsKnown, HeldKnown, HoldsCode, Resets, SpentGone,
       OneSpender
  <2>4. SessionInv
    BY <2>2 DEF SessionInv, SessionLabels, DevicesKnown, PresentedKnown,
       OneClaimPerDevice, LoggedOutUnclaimed, Claim, LiveTokens, Given
  <2>5. EffectInv
    BY <2>2 DEF EffectInv
  <2> QED
    BY <2>1, <2>3, <2>4, <2>5 DEF AuthInv
<1>2. AuthInv /\ [Next]_authVars => AuthInv'
  BY TypeStep, CodeStep, SessionStepInv, EffectStep DEF AuthInv
<1> QED
  BY <1>1, <1>2, PTL DEF Spec

\* Whatever overlaps or fails, tables and requests keep their types.
THEOREM TypeCorrect == Spec => []TypeOK
<1>1. AuthInv => TypeOK
  BY DEF AuthInv
<1> QED
  BY <1>1, Invariance, PTL

\* Requests that took effect with one code are of one kind: codes are looked up
\* by email and type.
LEMMA EffectHolds ==
    ASSUME AuthInv, NEW r \in Requests, TookEffect(r)
    PROVE  /\ HoldsCode(r) /\ KnowsRow(r)
           /\ OpOf[r] \in {"register", "forgotPassword", "login", "disable2fa"}
<1>1. HoldsCode(r)
  BY DEF TookEffect, HoldsCode
<1>2. OpOf[r] \in {"register", "forgotPassword", "login", "disable2fa"}
  BY DEF AuthInv, CodeInv, CodeLabels, TookEffect
<1> QED
  BY <1>1, <1>2 DEF AuthInv, CodeInv, HeldKnown

LEMMA EffectServesOnce == AuthInv => CodeServesOneRequest
<1> SUFFICES ASSUME AuthInv, NEW q \in Requests, NEW r \in Requests,
                    q # r, CodeOf[q] = CodeOf[r], TookEffect(q), TookEffect(r)
             PROVE  \/ /\ OpOf[q] = "forgotPassword" /\ OpOf[r] = "forgotPassword"
                       /\ ~(pc[q] = "answered" /\ pc[r] = "answered")
                    \/ /\ OpOf[q] = "register" /\ OpOf[r] = "register"
                       /\ UserDeleted(EmailOf[r])
  BY DEF CodeServesOneRequest
<1>1. ~(spent[q] = "done" /\ spent[r] = "done")
  BY DEF AuthInv, CodeInv, OneSpender
<1>2. EmailOf[q] = EmailOf[r] /\ TypeFor(q) = TypeFor(r)
  BY EffectHolds DEF KnowsRow
<1>3. OpOf[q] = OpOf[r]
  BY <1>2, EffectHolds DEF TypeFor
<1>4. CASE OpOf[q] \in {"login", "disable2fa"}
  BY <1>1, <1>3, <1>4 DEF TookEffect
<1>5. CASE OpOf[q] = "forgotPassword"
  BY <1>1, <1>3, <1>5 DEF AuthInv, EffectInv
<1>6. CASE OpOf[q] = "register"
  <2>1. written[q] = "done" /\ written[r] = "done"
    BY <1>3, <1>6 DEF TookEffect
  <2> QED
    BY <1>2, <1>3, <1>6, <2>1 DEF AuthInv, EffectInv, UserOf
<1> QED
  BY <1>4, <1>5, <1>6, EffectHolds

\* _findAndValidateOtpCode and the deletion by id, two steps in which a new code
\* may take over the row, let one login or disable2fa through; the writes that
\* run beside the deletion let one register through unless its user is deleted,
\* and of the forgotPassword they let through one at most is told of success.
THEOREM CodesServeOnce == Spec => []CodeServesOneRequest
BY Invariance, EffectServesOnce, PTL

\* No step of a request that still asks for a code that was spent, but to fail.
LEMMA AskStep ==
    ASSUME AuthInv, [Next]_authVars, NEW q \in Requests, NEW r \in Requests,
           spent[q] = "done", CodeOf[q] = CodeOf[r], AsksForCode(r)
    PROVE  pc'[r] \in {pc[r], "failed"}
<1> USE DEF Goto
<1>0. /\ pc \in [Requests -> Labels]
      /\ KnowsRow(q) /\ CodeOf[r] # Totp
      /\ CodeLabels /\ RowsKnown /\ SpentGone
  BY AccountAssumption
     DEF AuthInv, TypeOK, AccountTypeOK, CodeInv, HeldKnown, HoldsCode, KnowsRow
<1>1. \/ pc[r] = "needsCode" /\ OpOf[r] \in {"login", "disable2fa"}
      \/ pc[r] = "start" /\ OpOf[r] \in {"register", "forgotPassword"}
  BY <1>0 DEF AsksForCode, CodeLabels
<1>2. ASSUME NEW x \in Requests, x # r, RequestStep(x)
      PROVE  pc'[r] = pc[r]
  <2>1. UNCHANGED pc \/ \E l \in Labels : Goto(x, l)
    BY <1>2, AccountMoves, OtpMoves, SessionMoves DEF RequestStep, Abort, Labels
  <2> QED
    BY <1>0, <1>2, <2>1
<1>3. ASSUME AccountStep(r)
      PROVE  FALSE
  BY <1>1, <1>3 DEF AccountStep, CreateUser, ReadForSetup, StoreSecret,
     ReadForDisable, RemoveSecret, ReadForLogin, ReadForGoogle, InsertGoogleUser
<1>4. ASSUME SessionStep(r)
      PROVE  pc'[r] = pc[r]
  BY <1>1, <1>4 DEF SessionStep, CreateDevice, CreateRefreshToken,
     FindRefreshToken, FindTokenToLogOut, ReadToken, LogOutWithoutToken,
     InsertNextToken, DeleteRefreshToken, AnswerRefresh, DeactivateDevice,
     AnswerLogout, DeleteUser, LogsIn, Rotates
<1>5. ~FindAndValidateOtpCode(r)
  <2>1. ASSUME NEW row \in RowsOf(r), row.code = CodeOf[r]
        PROVE  FALSE
    BY <1>0, <2>1 DEF RowsOf, RowsKnown, KnowsRow, SpentGone
  <2> QED
    BY <2>1 DEF FindAndValidateOtpCode
<1>6. ASSUME OtpStep(r)
      PROVE  FALSE
  BY <1>0, <1>1, <1>5, <1>6 DEF OtpStep, CheckEmail, UpsertOtpCode, MailAnswers,
     DropOtpCode, VerifyTotp, ReadForReset, ConsumeOtpCode, SpendOtpCode,
     WriteUser, AnswerReset, Resets
<1>7. ASSUME Abort(r)
      PROVE  pc'[r] = "failed"
  BY <1>0, <1>7 DEF Abort
<1>8. ASSUME RequestStep(r)
      PROVE  pc'[r] \in {pc[r], "failed"}
  BY <1>3, <1>4, <1>6, <1>7, <1>8 DEF RequestStep
<1>9. CASE ClockStep \/ CronStep \/ UNCHANGED authVars
  BY <1>9 DEF ClockStep, CronStep, OtpExpires, TokenExpires, RemoveRefreshTokens,
     authVars
<1> QED
  BY <1>2, <1>8, <1>9 DEF Next, Open

\* From the moment a request has deleted its code, no other that presents the
\* code gets past _findAndValidateOtpCode, whichever code the row holds next.
THEOREM SpentCodesRefused == Spec => SpentCodeRefused
<1>1. AuthInv /\ [Next]_authVars =>
        [\A q, r \in Requests :
            (spent[q] = "done" /\ CodeOf[q] = CodeOf[r] /\ AsksForCode(r))
                => pc'[r] \in {pc[r], "failed"}]_authVars
  BY AskStep
<1> QED
  BY <1>1, Invariance, PTL DEF Spec, SpentCodeRefused

\* Of the refresh tokens clients were given for a device, one at most works:
\* refreshToken answers only the request that deleted the old one.
THEOREM SingleSession == Spec => []OneSessionPerDevice
<1>1. AuthInv => OneSessionPerDevice
  BY DEF AuthInv, TypeOK, SessionTypeOK, SessionInv, OneClaimPerDevice,
     OneSessionPerDevice, Claim, LiveTokens
<1> QED
  BY <1>1, Invariance, PTL

\* Once logout has deleted a token no refresh, however long under way, gives a
\* client a token that works on the device.
THEOREM LogoutIsFinal == Spec => []LogoutEndsSession
<1>1. AuthInv => LogoutEndsSession
  BY DEF AuthInv, TypeOK, SessionTypeOK, SessionInv, LoggedOutUnclaimed,
     LogoutEndsSession, Claim, LiveTokens
<1> QED
  BY <1>1, Invariance, PTL

\* Login, refresh, logout, deletions and the midnight job, side by side and
\* wherever they stop, implement the session as one right that is opened once,
\* passed on to a fresh holder and ended for good.
THEOREM DeviceSessionRefinement == Spec => ImplementsDeviceSession
<1>1. Init => Device!DeviceSessionInit
  <2> SUFFICES ASSUME Init PROVE Device!DeviceSessionInit
    OBVIOUS
  <2> USE AccountAssumption DEF Init, AccountInit, SessionInit
  <2>1. TokenMakers \subseteq Requests
    BY DEF TokenMakers
  <2>2. \A r \in TokenMakers : ~Claim(r)
    BY <2>1 DEF Claim, LiveTokens
  <2>3. \A d \in TokenMakers : Claimants[d] = {}
    BY <2>2, ClaimantsAre
  <2>4. Claimants = [d \in TokenMakers |-> {}]
    BY <2>3, ClaimantsAre
  <2>5. Claimed = {}
    BY <2>1 DEF Claimed
  <2> QED
    BY <2>4, <2>5 DEF Device!DeviceSessionInit
<1>2. AuthInv /\ [Next]_authVars
        => [Device!DeviceSessionNext]_(Device!deviceSessionVars)
  <2> SUFFICES ASSUME AuthInv, [Next]_authVars PROVE Device!DeviceSessionNext
    OBVIOUS
  <2> QED
    BY DeviceStep, ClaimsEnd DEF AuthInv, SessionInv, Device!DeviceSessionNext
<1> QED
  BY <1>1, <1>2, Invariance, PTL
     DEF Spec, ImplementsDeviceSession, Device!DeviceSessionSpec

=============================================================================
