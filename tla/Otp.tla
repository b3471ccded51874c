-------------------------------- MODULE Otp --------------------------------
(***************************************************************************)
(* One-time codes: sendOtp stores and mails them, register, forgotPassword, *)
(* login and disable2fa ask for them (AuthService, AuthRepository).         *)
(*                                                                          *)
(* There is one row per email and type.  Sending again updates the row in   *)
(* place, so that its id survives; every deletion is by id and throws when  *)
(* the id is gone.  A code is named after the sendOtp request that made it, *)
(* a row's id after the one that inserted it.                               *)
(***************************************************************************)
EXTENDS Account

VARIABLES
    otpCodes,  \* the OtpCode table
    otpId,     \* the id a request has got with the row it read or wrote
    spent,     \* what came of a request's deletion of the code it presented
    written    \* ... of the write that runs beside the deletion

otpVars == <<otpCodes, otpId, spent, written>>

OtpRow == [id : Requests, email : Emails, type : OtpTypes, code : Requests,
           expired : BOOLEAN]

Outcome == {"open", "done", "lost"}

OtpTypeOK ==
    /\ otpCodes \in SUBSET OtpRow
    /\ otpId \in [Requests -> Requests \cup {None}]
    /\ spent \in [Requests -> Outcome]
    /\ written \in [Requests -> Outcome]

OtpInit ==
    /\ otpCodes = {}
    /\ otpId = [r \in Requests |-> None]
    /\ spent = [r \in Requests |-> "open"]
    /\ written = [r \in Requests |-> "open"]

\* EnumOtpCode, as each handler asks for it.
TypeFor(r) ==
    CASE OpOf[r] = "register" -> "REGISTER"
      [] OpOf[r] = "login" -> "LOGIN"
      [] OpOf[r] = "forgotPassword" -> "FORGOT_PASSWORD"
      [] OpOf[r] = "disable2fa" -> "DISABLE_2FA"
      [] OTHER -> TypeOf[r]

\* where: { email_type }
RowsOf(r) == {row \in otpCodes : row.email = EmailOf[r] /\ row.type = TypeFor(r)}

Remember(r, id) == otpId' = [otpId EXCEPT ![r] = id]

\* Mutant of DeletedBy: the deletion is by email and type.
DeletedByKey(r) == RowsOf(r)

\* deleteOtpCode({ id })
DeletedBy(r) == {row \in otpCodes : row.id = otpId[r]}

-----------------------------------------------------------------------------
\* sendOtp looks whether the email has a user.
CheckEmail(r) ==
    /\ OpOf[r] = "sendOtp"
    /\ pc[r] = "start"
    /\ TypeOf[r] = "REGISTER" => ~Exists(r)
    /\ TypeOf[r] = "FORGOT_PASSWORD" => Exists(r)
    /\ Goto(r, "generated")
    /\ UNCHANGED <<accountVars, userId, otpVars>>

Renewed(row, r) == [row EXCEPT !.code = r, !.expired = FALSE]

NewRow(r) == [id |-> r, email |-> EmailOf[r], type |-> TypeFor(r), code |-> r,
              expired |-> FALSE]

\* createOtpCode is an upsert: an old row gets the new code and keeps its id.
UpsertOtpCode(r) ==
    /\ OpOf[r] = "sendOtp"
    /\ pc[r] = "generated"
    /\ \/ \E row \in RowsOf(r) :
            /\ otpCodes' = (otpCodes \ {row}) \cup {Renewed(row, r)}
            /\ Remember(r, row.id)
       \/ /\ RowsOf(r) = {}
          /\ otpCodes' = otpCodes \cup {NewRow(r)}
          /\ Remember(r, r)
    /\ Goto(r, "stored")
    /\ UNCHANGED <<accountVars, userId, spent, written>>

\* The mail service accepts the code, or reports an error.  sendOtp starts the
\* mail beside the upsert and waits for both; the mail touches no table and its
\* answer is not looked at before the row is stored, so it is taken after it.
MailAnswers(r) ==
    /\ OpOf[r] = "sendOtp"
    /\ pc[r] = "stored"
    /\ Goto(r, "answered") \/ Goto(r, "mailRefused")
    /\ UNCHANGED <<accountVars, userId, otpVars>>

\* A code that was not mailed, has expired or belongs to no user is deleted,
\* and the request fails.
DropOtpCode(r) ==
    /\ pc[r] \in {"mailRefused", "expired", "unknown"}
    /\ otpCodes' = otpCodes \ DeletedBy(r)
    /\ Goto(r, "failed")
    /\ UNCHANGED <<accountVars, userId, otpId, spent, written>>

-----------------------------------------------------------------------------
AsksForCode(r) ==
    \/ pc[r] = "needsCode"
    \/ pc[r] = "start" /\ OpOf[r] \in {"register", "forgotPassword"}

\* _validateTOTPCodeOrEmailOtpCode with a TOTP code that is right.
VerifyTotp(r) ==
    /\ pc[r] = "needsCode"
    /\ CodeOf[r] = Totp
    /\ Goto(r, "admitted")
    /\ UNCHANGED <<accountVars, userId, otpVars>>

\* _findAndValidateOtpCode: the row is there and holds the code presented.
FindAndValidateOtpCode(r) ==
    /\ AsksForCode(r)
    /\ \E row \in RowsOf(r) :
        /\ row.code = CodeOf[r]
        /\ Remember(r, row.id)
        /\ Goto(r, CASE row.expired -> "expired"
                     [] OpOf[r] = "register" /\ ~row.expired -> "writing"
                     [] OpOf[r] = "forgotPassword" /\ ~row.expired -> "validated"
                     [] OTHER -> "consuming")
    /\ UNCHANGED <<accountVars, userId, otpCodes, spent, written>>

\* forgotPassword looks for the user once the code is right.
ReadForReset(r) ==
    /\ pc[r] = "validated"
    /\ Note(r)
    /\ Goto(r, IF Exists(r) THEN "writing" ELSE "unknown")
    /\ UNCHANGED <<accountVars, otpVars>>

\* Mutant of ConsumeOtpCode: the code is left for the clock to expire.
ConsumeOtpCodeLater(r) ==
    /\ pc[r] = "consuming"
    /\ DeletedBy(r) # {}
    /\ spent' = [spent EXCEPT ![r] = "done"]
    /\ Goto(r, "admitted")
    /\ UNCHANGED <<accountVars, userId, otpCodes, otpId, written>>

\* login and disable2fa delete the code and go on only if that succeeded.
ConsumeOtpCode(r) ==
    /\ pc[r] = "consuming"
    /\ DeletedBy(r) # {}
    /\ otpCodes' = otpCodes \ DeletedBy(r)
    /\ spent' = [spent EXCEPT ![r] = "done"]
    /\ Goto(r, "admitted")
    /\ UNCHANGED <<accountVars, userId, otpId, written>>

Resets(r) == pc[r] = "writing" /\ OpOf[r] \in {"register", "forgotPassword"}

\* register and forgotPassword run the deletion and the write of the user in
\* one Promise.all: in either order, each whether or not the other fails.
SpendOtpCode(r) ==
    /\ Resets(r)
    /\ spent[r] = "open"
    /\ otpCodes' = otpCodes \ DeletedBy(r)
    /\ spent' = [spent EXCEPT ![r] = IF DeletedBy(r) = {} THEN "lost" ELSE "done"]
    /\ UNCHANGED <<accountVars, userId, otpId, written, pc>>

WriteUser(r) ==
    /\ Resets(r)
    /\ written[r] = "open"
    /\ \/ /\ OpOf[r] = "register"
          /\ InsertUser(r)
          /\ written' = [written EXCEPT ![r] = "done"]
       \/ /\ OpOf[r] = "forgotPassword"
          /\ Found(r)
          /\ written' = [written EXCEPT ![r] = "done"]
          /\ UNCHANGED <<accountVars, userId>>
       \/ /\ IF OpOf[r] = "register" THEN Exists(r) ELSE ~Found(r)
          /\ written' = [written EXCEPT ![r] = "lost"]
          /\ UNCHANGED <<accountVars, userId>>
    /\ UNCHANGED <<otpCodes, otpId, spent, pc>>

\* Promise.all resolves when both have succeeded.
AnswerReset(r) ==
    /\ Resets(r)
    /\ spent[r] = "done"
    /\ written[r] = "done"
    /\ Goto(r, "answered")
    /\ UNCHANGED <<accountVars, userId, otpVars>>

OtpStep(r) ==
    \/ CheckEmail(r) \/ UpsertOtpCode(r) \/ MailAnswers(r) \/ DropOtpCode(r)
    \/ VerifyTotp(r) \/ FindAndValidateOtpCode(r) \/ ReadForReset(r)
    \/ ConsumeOtpCode(r)
    \/ SpendOtpCode(r) \/ WriteUser(r) \/ AnswerReset(r)

Lapsed(row) == [row EXCEPT !.expired = TRUE]

\* The five minutes of a code pass.
OtpExpires ==
    \E row \in otpCodes :
        /\ ~row.expired
        /\ otpCodes' = (otpCodes \ {row}) \cup {Lapsed(row)}
        /\ UNCHANGED <<accountVars, userId, pc, otpId, spent, written>>

=============================================================================
