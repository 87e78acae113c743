------------------------------ MODULE Accounts ------------------------------
(***************************************************************************)
(* Accounts: AuthService's sign-up, e-mail codes, sign-ins and passwords,  *)
(* and UserService's creation, suspension, deletion and restoration.       *)
(*                                                                         *)
(* users has one row per address (a unique index, deleted rows included).  *)
(* A method reads the row, awaits, and writes in a transaction.  Its first *)
(* write locks the row until the commit, so the writes and the commit are  *)
(* one action; the mail is queued before the commit and goes out even if   *)
(* the transaction rolls back.  A code is a number never used before.      *)
(*                                                                         *)
(* Left out: the exchange with Google, Apple and TikTok (a sign-in arrives *)
(* with an address they vouch for), profile columns, what tokens hold, and *)
(* the expiry of codes (a code refused changes nothing).                   *)
(***************************************************************************)
EXTENDS Naturals, FiniteSets

CONSTANTS
  Email, Server,    \* addresses; requests under way at a time
  NoEmail,
  MaxRows,          \* bound: rows ever inserted
  MaxCodes          \* bound: codes ever made

ASSUME AccountsAssumption ==
  /\ NoEmail \notin Email
  /\ MaxRows \in Nat /\ MaxCodes \in Nat

VARIABLES
  acct,     \* acct[e]: the row of users with address e, id 0 if there is none
  rows,     \* rows inserted so far
  issued,   \* issued[c]: the row code c was made for, and what it was mailed to do
  call      \* call[s]: the method server s runs

accountVars == <<acct, rows, issued, call>>

Gone == [id |-> 0, verified |-> FALSE, otp |-> 0, reset |-> 0, pwd |-> FALSE,
         apple |-> FALSE, deleted |-> FALSE, active |-> TRUE]
Idle == [pc |-> "idle", e |-> NoEmail, id |-> 0, otp |-> 0, active |-> TRUE, apple |-> FALSE]

Codes == 1 .. MaxCodes
Unused == [id |-> 0, to |-> NoEmail, verifies |-> FALSE]
Made == {c \in Codes : issued[c] # Unused}
NewCode == CHOOSE c \in Codes : c \notin Made

AccountsInit ==
  /\ acct = [e \in Email |-> Gone]
  /\ rows = 0
  /\ issued = [c \in Codes |-> Unused]
  /\ call = [s \in Server |-> Idle]

\* findOne({ where: { email } }) does not see deleted rows unless it says withDeleted.
Exists(e) == acct[e].id # 0
Visible(e) == Exists(e) /\ ~acct[e].deleted

Reads(s, method, e, apple) ==
  /\ call[s].pc = "idle"
  /\ call' = [call EXCEPT ![s] = [pc |-> method, e |-> e, id |-> acct[e].id,
                otp |-> acct[e].otp, active |-> acct[e].active, apple |-> apple]]
  /\ UNCHANGED <<acct, rows, issued>>

Done(s) == call' = [call EXCEPT ![s] = Idle]
Running(s, method) == call[s].pc = method

\* A code made for row id and mailed to e.
Mails(e, id, verifies) ==
  /\ Made # Codes
  /\ issued' = [issued EXCEPT ![NewCode] = [id |-> id, to |-> e, verifies |-> verifies]]

\* An insert with a new id, unless the unique index on the address refuses it.
Inserts(e, row) ==
  /\ rows < MaxRows
  /\ rows' = rows + 1
  /\ acct' = [acct EXCEPT ![e] = [row EXCEPT !.id = rows + 1]]

\* An update of the row with this id: none, if it has been replaced.
Updates(e, id, row) ==
  acct' = IF acct[e].id = id /\ id # 0 THEN [acct EXCEPT ![e] = row] ELSE acct

(***************************************************************************)
(* Sign-up and the verification code                                       *)
(***************************************************************************)
SignUp(s, e) ==
  /\ ~(Exists(e) /\ (acct[e].deleted \/ acct[e].verified))
  /\ Reads(s, "signUp", e, FALSE)

\* Mutant: the account that was read is deleted whether it is verified by now or not.
SignUpReplaces(s) ==
  /\ Running(s, "signUp")
  /\ Mails(call[s].e, rows + 1, TRUE)
  /\ Inserts(call[s].e, [Gone EXCEPT !.pwd = TRUE, !.otp = NewCode])
  /\ Done(s)

\* delete({ id, email, verified: false }), save and the mail.  Where a row remains, the
\* insert fails and the transaction with it, before the mail.
SignUpWrites(s) ==
  /\ Running(s, "signUp")
  /\ LET e == call[s].e
         deletes == acct[e].id = call[s].id /\ ~acct[e].verified
     IN IF Exists(e) /\ ~deletes
        THEN UNCHANGED <<acct, rows, issued>>
        ELSE /\ Mails(e, rows + 1, TRUE)
             /\ Inserts(e, [Gone EXCEPT !.pwd = TRUE, !.otp = NewCode])
  /\ Done(s)

VerifySignUpEmailOtp(s, e) ==
  /\ Visible(e) /\ acct[e].otp # 0
  /\ Reads(s, "verify", e, FALSE)

\* Mutant: the update goes by the address.
VerifyByAddress(s) ==
  /\ Running(s, "verify")
  /\ acct' = [acct EXCEPT ![call[s].e].verified = TRUE, ![call[s].e].otp = call[s].otp]
  /\ Done(s)
  /\ UNCHANGED <<rows, issued>>

\* save(user) writes the columns it selected back: verified, and the code and the status
\* as they were read.  A row that is gone is inserted again, which the index refuses.
VerifySaves(s) ==
  /\ Running(s, "verify")
  /\ LET e == call[s].e
     IN Updates(e, call[s].id, [acct[e] EXCEPT !.verified = TRUE, !.otp = call[s].otp,
                                  !.active = call[s].active])
  /\ Done(s)
  /\ UNCHANGED <<rows, issued>>

ResendVerifyOtp(s, e) == Visible(e) /\ Reads(s, "resend", e, FALSE)

ResendWrites(s) ==
  /\ Running(s, "resend")
  /\ LET e == call[s].e
     IN /\ Mails(e, call[s].id, TRUE)
        /\ Updates(e, call[s].id, [acct[e] EXCEPT !.otp = NewCode])
  /\ Done(s)
  /\ UNCHANGED rows

(***************************************************************************)
(* Sign-ins                                                                *)
(***************************************************************************)
\* For an unverified account login updates the code, mails it and throws, which rolls
\* the update back.  A verified one gets a token, which changes nothing here.
LoginUnverified(s, e) ==
  /\ Visible(e) /\ ~acct[e].verified
  /\ Reads(s, "login", e, FALSE)

LoginThrows(s) ==
  /\ Running(s, "login")
  /\ Mails(call[s].e, call[s].id, TRUE)
  /\ Done(s)
  /\ UNCHANGED <<acct, rows>>

\* An account with the address Google vouches for is taken as it is, else one is created.
\* Whether it is active decides on the token after that, and changes nothing here.
SignInWithGoogle(s, e) == ~Visible(e) /\ Reads(s, "create", e, FALSE)

\* handleTikTokCallback, with the address it makes of TikTok's id.
CreateOrFindTikTokUser(s, e) == ~Visible(e) /\ Reads(s, "create", e, FALSE)

\* validateAppleUser: an account with Apple's id is taken, one with the address is linked.
SignInWithApple(s, e) ==
  IF Visible(e)
  THEN ~acct[e].apple /\ Reads(s, "link", e, TRUE)
  ELSE Reads(s, "create", e, TRUE)

UserCreate(s) ==
  /\ Running(s, "create")
  /\ LET e == call[s].e
     IN IF Exists(e) THEN UNCHANGED <<acct, rows>>
        ELSE Inserts(e, [Gone EXCEPT !.verified = TRUE, !.apple = call[s].apple])
  /\ Done(s)
  /\ UNCHANGED <<issued>>

LinkAppleId(s) ==
  /\ Running(s, "link")
  /\ LET e == call[s].e IN Updates(e, call[s].id, [acct[e] EXCEPT !.apple = TRUE])
  /\ Done(s)
  /\ UNCHANGED <<rows, issued>>

(***************************************************************************)
(* Passwords                                                               *)
(***************************************************************************)
ForgotPassword(s, e) == Visible(e) /\ Reads(s, "forgot", e, FALSE)

ForgotWrites(s) ==
  /\ Running(s, "forgot")
  /\ LET e == call[s].e
     IN /\ Mails(e, call[s].id, FALSE)
        /\ Updates(e, call[s].id, [acct[e] EXCEPT !.reset = NewCode])
  /\ Done(s)
  /\ UNCHANGED rows

\* The code of resetPassword stays in the row, and works until it expires.
ResetPassword(s, e) == Visible(e) /\ acct[e].reset # 0 /\ Reads(s, "reset", e, FALSE)

ChangePassword(s, e) == Visible(e) /\ acct[e].pwd /\ Reads(s, "change", e, FALSE)

PasswordWrites(s) ==
  /\ Running(s, "reset") \/ Running(s, "change")
  /\ LET e == call[s].e IN Updates(e, call[s].id, [acct[e] EXCEPT !.pwd = TRUE])
  /\ Done(s)
  /\ UNCHANGED <<rows, issued>>

(***************************************************************************)
(* UserService and failures                                                *)
(***************************************************************************)
UpdateUserStatus(e) ==
  /\ Visible(e)
  /\ acct' = [acct EXCEPT ![e].active = ~@]
  /\ UNCHANGED <<rows, issued, call>>

DeleteAccount(e) ==
  /\ Visible(e)
  /\ acct' = [acct EXCEPT ![e].deleted = TRUE]
  /\ UNCHANGED <<rows, issued, call>>

RestoreUser(e) ==
  /\ Exists(e) /\ acct[e].deleted
  /\ acct' = [acct EXCEPT ![e].deleted = FALSE]
  /\ UNCHANGED <<rows, issued, call>>

\* The database refuses or the process stops: the transaction is rolled back,
\* after the mail or before it.
RollsBack(s) ==
  /\ call[s].pc # "idle"
  /\ \/ UNCHANGED issued
     \/ /\ call[s].pc \in {"resend", "forgot"}
        /\ Mails(call[s].e, call[s].id, call[s].pc = "resend")
  /\ Done(s)
  /\ UNCHANGED <<acct, rows>>

AccountsNext ==
  \/ \E s \in Server, e \in Email :
       \/ SignUp(s, e) \/ VerifySignUpEmailOtp(s, e) \/ ResendVerifyOtp(s, e)
       \/ LoginUnverified(s, e) \/ ForgotPassword(s, e) \/ ResetPassword(s, e)
       \/ ChangePassword(s, e)
       \/ SignInWithGoogle(s, e) \/ CreateOrFindTikTokUser(s, e) \/ SignInWithApple(s, e)
  \/ \E s \in Server :
       \/ SignUpWrites(s) \/ VerifySaves(s) \/ ResendWrites(s) \/ LoginThrows(s)
       \/ UserCreate(s) \/ LinkAppleId(s) \/ ForgotWrites(s) \/ PasswordWrites(s)
       \/ RollsBack(s)
  \/ \E e \in Email :
       UpdateUserStatus(e) \/ DeleteAccount(e) \/ RestoreUser(e)

AccountsSpec == AccountsInit /\ [][AccountsNext]_accountVars

(***************************************************************************)
(* Properties                                                              *)
(***************************************************************************)
\* A code verifies only the sign-up it was mailed for, though the address may have been
\* signed up for again between the look-up and the update; and every account that still
\* waits for verification has a code its owner was sent.
CodesFitTheirRow ==
  \A e \in Email :
    /\ \A c \in {acct[e].otp, acct[e].reset} \ {0} : issued[c].id = acct[e].id
    /\ Exists(e) /\ ~acct[e].verified => acct[e].otp # 0 /\ issued[acct[e].otp].verifies

\* A sign-up that read the address as free or unverified never takes the place of an
\* account that was verified meanwhile.
VerifiedAccountsStay ==
  [][\A e \in Email : acct[e].verified => acct'[e].verified /\ acct'[e].id = acct[e].id]_acct
=============================================================================
