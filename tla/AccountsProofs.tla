--------------------------- MODULE AccountsProofs ---------------------------
(***************************************************************************)
(* Theorems about the accounts and the administrators, for every set of    *)
(* addresses, servers and memberships and any number of rows and codes:    *)
(* what a code verifies, that a verified account is not replaced, and who  *)
(* comes to administer.                                                    *)
(***************************************************************************)
EXTENDS Accounts, AdminAccess, RiskScore, TLAPS

-----------------------------------------------------------------------------
(* Accounts: the inductive invariant                                       *)

OptCode == Codes \cup {0}
Account == [id : Nat, verified : BOOLEAN, otp : OptCode, reset : OptCode, pwd : BOOLEAN,
            apple : BOOLEAN, deleted : BOOLEAN, active : BOOLEAN]
Issue == [id : Nat, to : Email \cup {NoEmail}, verifies : BOOLEAN]
Method == {"idle", "signUp", "verify", "resend", "login", "create", "link", "forgot", "reset",
           "change"}
Request == [pc : Method, e : Email \cup {NoEmail}, id : Nat, otp : OptCode, active : BOOLEAN,
            apple : BOOLEAN]

AccountTypes ==
  /\ acct \in [Email -> Account] /\ rows \in Nat
  /\ issued \in [Codes -> Issue] /\ call \in [Server -> Request]

\* Of a row, when n rows were inserted and these codes were made: its codes were made for
\* it, and one is there to verify it if that is still to be done.
RowSound(r, n, made) ==
  /\ r.id <= n
  /\ r.id = 0 => ~r.verified /\ r.otp = 0 /\ r.reset = 0
  /\ \A c \in {r.otp, r.reset} \ {0} : made[c].id = r.id
  /\ r.id # 0 /\ ~r.verified => r.otp # 0 /\ made[r.otp].verifies

\* Of a request: what it read belongs together, though the row may be another by now.
RequestSound(t, n, made) ==
  /\ t.id <= n
  /\ t.pc # "idle" => t.e \in Email
  /\ t.otp # 0 => t.id # 0 /\ made[t.otp].id = t.id

AccountsInv ==
  /\ AccountTypes
  /\ \A e \in Email : RowSound(acct[e], rows, issued)
  /\ \A s \in Server : RequestSound(call[s], rows, issued)

-----------------------------------------------------------------------------
(* Codes and rows once made                                                *)

\* Rows are added, and what a code was made for does not change.
Grows ==
  /\ rows' \in Nat /\ rows <= rows' /\ issued' \in [Codes -> Issue]
  /\ \A c \in Codes : issued[c].id # 0 => issued'[c] = issued[c]

\* A row or a request that was sound stays so.
LEMMA StaysSound ==
  ASSUME AccountTypes, Grows
  PROVE  /\ \A r \in Account : RowSound(r, rows, issued) => RowSound(r, rows', issued')
         /\ \A t \in Request : RequestSound(t, rows, issued) => RequestSound(t, rows', issued')
<1>1. ASSUME NEW r \in Account, RowSound(r, rows, issued) PROVE RowSound(r, rows', issued')
  <2>1. r.id \in Nat /\ r.otp \in OptCode /\ r.reset \in OptCode /\ r.verified \in BOOLEAN
    BY DEF Account
  <2>2. r.id <= rows'
    BY <1>1, <2>1 DEF RowSound, AccountTypes, Grows
  <2>3. \A c \in {r.otp, r.reset} \ {0} : c \in Codes /\ r.id # 0 /\ issued[c].id = r.id
    BY <1>1, <2>1 DEF RowSound, OptCode
  <2>4. \A c \in {r.otp, r.reset} \ {0} : issued'[c] = issued[c]
    BY <2>3 DEF Grows
  <2> QED
    BY <1>1, <2>2, <2>3, <2>4 DEF RowSound
<1>2. ASSUME NEW t \in Request, RequestSound(t, rows, issued)
      PROVE  RequestSound(t, rows', issued')
  <2>1. t.id \in Nat /\ t.otp \in OptCode
    BY DEF Request
  <2>2. t.id <= rows'
    BY <1>2, <2>1 DEF RequestSound, AccountTypes, Grows
  <2>3. t.otp # 0 => t.otp \in Codes /\ issued[t.otp].id # 0
    BY <1>2, <2>1 DEF RequestSound, OptCode
  <2> QED
    BY <1>2, <2>2, <2>3 DEF RequestSound, Grows
<1> QED
  BY <1>1, <1>2

\* So a step keeps the invariant if what it writes is sound.
LEMMA SoundStep ==
  ASSUME AccountsInv, Grows, acct' \in [Email -> Account], call' \in [Server -> Request],
         \A e \in Email : acct'[e] = acct[e] \/ RowSound(acct'[e], rows', issued'),
         \A s \in Server : call'[s] = call[s] \/ RequestSound(call'[s], rows', issued')
  PROVE  AccountsInv'
<1>1. AccountTypes /\ AccountTypes'
  BY DEF AccountsInv, AccountTypes, Grows
<1>2. ASSUME NEW e \in Email PROVE RowSound(acct'[e], rows', issued')
  <2>1. acct[e] \in Account /\ RowSound(acct[e], rows, issued)
    BY DEF AccountsInv, AccountTypes
  <2> QED
    BY <1>1, <2>1, StaysSound
<1>3. ASSUME NEW s \in Server PROVE RequestSound(call'[s], rows', issued')
  <2>1. call[s] \in Request /\ RequestSound(call[s], rows, issued)
    BY DEF AccountsInv, AccountTypes
  <2> QED
    BY <1>1, <2>1, StaysSound
<1> QED
  BY <1>1, <1>2, <1>3 DEF AccountsInv

\* A code that is made is one that was not, so nothing that was issued is touched.
LEMMA MailsGrows ==
  ASSUME AccountTypes, NEW e \in Email, NEW id \in Nat, NEW verifies \in BOOLEAN,
         Mails(e, id, verifies), rows' \in Nat, rows <= rows'
  PROVE  /\ Grows
         /\ NewCode \in Codes /\ NewCode # 0
         /\ issued'[NewCode].id = id /\ issued'[NewCode].verifies = verifies
<1>1. \E c \in Codes : c \notin Made
  BY DEF Mails, Made
<1>2. NewCode \in Codes /\ NewCode \notin Made
  BY <1>1 DEF NewCode
<1>3. issued[NewCode] = Unused
  BY <1>2 DEF Made
<1>4. issued[NewCode].id = 0
  BY <1>3 DEF Unused
<1>5. [id |-> id, to |-> e, verifies |-> verifies] \in Issue
  BY DEF Issue
<1>6. NewCode # 0
  BY <1>2, AccountsAssumption DEF Codes
<1> QED
  BY <1>2, <1>4, <1>5, <1>6 DEF Grows, Mails, AccountTypes

\* Where nothing is mailed or inserted.
LEMMA NothingGrows ==
  ASSUME AccountTypes, rows' \in Nat, rows <= rows', issued' = issued
  PROVE  Grows
BY DEF AccountTypes, Grows

\* A server that runs nothing holds nothing.
LEMMA IdleIsSound ==
  ASSUME NEW n \in Nat, NEW made
  PROVE  Idle \in Request /\ RequestSound(Idle, n, made)
BY DEF Idle, Request, RequestSound, Method, OptCode

-----------------------------------------------------------------------------
(* Invariance                                                              *)

\* Without rows there is nothing to be unsound.
LEMMA AccountsInitial == AccountsInit => AccountsInv
<1> SUFFICES ASSUME AccountsInit PROVE AccountsInv
  OBVIOUS
<1>1. Gone \in Account /\ Unused \in Issue
  BY DEF Gone, Account, OptCode, Unused, Issue
<1>2. AccountTypes
  BY <1>1, IdleIsSound DEF AccountsInit, AccountTypes
<1>3. RowSound(Gone, 0, issued) /\ RequestSound(Idle, 0, issued)
  BY IdleIsSound DEF RowSound, Gone
<1> QED
  BY <1>2, <1>3 DEF AccountsInit, AccountsInv

\* A request starts with what it read of one row at one time.
LEMMA ReadsStep ==
  ASSUME AccountsInv, NEW s \in Server, NEW e \in Email, NEW m \in Method, NEW apple \in BOOLEAN,
         Reads(s, m, e, apple)
  PROVE  AccountsInv'
<1> DEFINE t == [pc |-> m, e |-> e, id |-> acct[e].id, otp |-> acct[e].otp,
                 active |-> acct[e].active, apple |-> apple]
<1>1. /\ acct' = acct /\ rows' = rows /\ issued' = issued /\ call' = [call EXCEPT ![s] = t]
      /\ AccountTypes
  BY DEF Reads, AccountsInv
<1>2. acct[e] \in Account /\ RowSound(acct[e], rows, issued)
  BY DEF AccountsInv, AccountTypes
<1>3. t \in Request
  BY <1>2 DEF Request, Account
<1>4. RequestSound(t, rows, issued)
  BY <1>2 DEF RequestSound, RowSound
<1>5. call' \in [Server -> Request]
  BY <1>1, <1>3 DEF AccountTypes
<1>6. \A q \in Server : call'[q] = call[q] \/ RequestSound(call'[q], rows', issued')
  BY <1>1, <1>4 DEF AccountTypes
<1>7. Grows
  BY <1>1, NothingGrows DEF AccountTypes
<1> QED
  BY <1>1, <1>5, <1>6, <1>7, SoundStep DEF AccountTypes

\* A request ends with a write of at most one sound row.
LEMMA WritesStep ==
  ASSUME AccountsInv, Grows, NEW s \in Server, Done(s), NEW e \in Email, NEW r \in Account,
         acct' = acct \/ (acct' = [acct EXCEPT ![e] = r] /\ RowSound(r, rows', issued'))
  PROVE  AccountsInv'
<1>1. AccountTypes
  BY DEF AccountsInv
<1>2. call' = [call EXCEPT ![s] = Idle] /\ Idle \in Request /\ RequestSound(Idle, rows', issued')
  BY IdleIsSound DEF Done, Grows
<1>3. call' \in [Server -> Request]
  BY <1>1, <1>2 DEF AccountTypes
<1>4. \A q \in Server : call'[q] = call[q] \/ RequestSound(call'[q], rows', issued')
  BY <1>1, <1>2 DEF AccountTypes
<1>5. acct' \in [Email -> Account]
  BY <1>1 DEF AccountTypes
<1>6. \A f \in Email : acct'[f] = acct[f] \/ RowSound(acct'[f], rows', issued')
  BY <1>1 DEF AccountTypes
<1> QED
  BY <1>3, <1>4, <1>5, <1>6, SoundStep

\* The facts about the row a running request writes to.
LEMMA RunningRow ==
  ASSUME AccountsInv, NEW s \in Server, call[s].pc # "idle"
  PROVE  /\ AccountTypes /\ call[s] \in Request /\ RequestSound(call[s], rows, issued)
         /\ call[s].e \in Email /\ call[s].id \in Nat /\ call[s].otp \in OptCode
         /\ call[s].active \in BOOLEAN /\ call[s].apple \in BOOLEAN
         /\ acct[call[s].e] \in Account /\ RowSound(acct[call[s].e], rows, issued)
<1>1. AccountTypes /\ call[s] \in Request /\ RequestSound(call[s], rows, issued)
  BY DEF AccountsInv, AccountTypes
<1>2. call[s].e \in Email
  BY <1>1 DEF RequestSound
<1> QED
  BY <1>1, <1>2 DEF Request, AccountsInv, AccountTypes

\* A row that is inserted gets an id no code was made for, so its only code is its own.
LEMMA SignUpStep == ASSUME AccountsInv, NEW s \in Server, SignUpWrites(s) PROVE AccountsInv'
<1> DEFINE e == call[s].e
           fresh == [Gone EXCEPT !.pwd = TRUE, !.otp = NewCode]
           r == [fresh EXCEPT !.id = rows + 1]
<1>1. call[s].pc # "idle" /\ Done(s)
  BY DEF SignUpWrites, Running
<1>2. AccountTypes /\ e \in Email /\ acct[e] \in Account /\ rows \in Nat
  BY <1>1, RunningRow DEF AccountTypes
<1>3. CASE UNCHANGED <<acct, rows, issued>>
  <2>1. Grows
    BY <1>2, <1>3, NothingGrows
  <2> QED
    BY <1>1, <1>2, <1>3, <2>1, WritesStep
<1>4. CASE Mails(e, rows + 1, TRUE) /\ Inserts(e, fresh)
  <2>1. rows' = rows + 1 /\ acct' = [acct EXCEPT ![e] = r]
    BY <1>4 DEF Inserts
  <2>2. /\ Grows /\ NewCode \in Codes /\ NewCode # 0
        /\ issued'[NewCode].id = rows + 1 /\ issued'[NewCode].verifies = TRUE
    <3>1. rows' \in Nat /\ rows <= rows' /\ rows + 1 \in Nat /\ TRUE \in BOOLEAN
      BY <1>2, <2>1
    <3>2. Mails(e, rows + 1, TRUE)
      BY <1>4
    <3> HIDE DEF e
    <3> QED
      BY <1>2, <3>1, <3>2, MailsGrows
  <2>3. /\ r \in Account /\ r.id = rows + 1
        /\ r.verified = FALSE /\ r.otp = NewCode /\ r.reset = 0
    <3>1. fresh \in Account /\ fresh.verified = FALSE /\ fresh.otp = NewCode /\ fresh.reset = 0
      BY <2>2 DEF Gone, Account, OptCode
    <3> HIDE DEF fresh
    <3> QED
      BY <1>2, <3>1 DEF Account
  <2>4. r \in Account
    BY <2>3
  <2>5. RowSound(r, rows', issued')
    <3> HIDE DEF r
    <3> QED
      BY <1>2, <2>1, <2>2, <2>3 DEF RowSound
  <2> QED
    BY <1>1, <1>2, <2>1, <2>2, <2>4, <2>5, WritesStep
<1> QED
  BY <1>3, <1>4 DEF SignUpWrites

\* The code that is put back was made for the row with this id.
LEMMA VerifyStep == ASSUME AccountsInv, NEW s \in Server, VerifySaves(s) PROVE AccountsInv'
<1> DEFINE e == call[s].e
           r == [acct[e] EXCEPT !.verified = TRUE, !.otp = call[s].otp, !.active = call[s].active]
<1>1. call[s].pc # "idle" /\ Done(s) /\ Updates(e, call[s].id, r) /\ UNCHANGED <<rows, issued>>
  BY DEF VerifySaves, Running
<1>2. /\ AccountTypes /\ e \in Email /\ acct[e] \in Account /\ RowSound(acct[e], rows, issued)
      /\ RequestSound(call[s], rows, issued)
      /\ call[s].otp \in OptCode /\ call[s].active \in BOOLEAN
  BY <1>1, RunningRow
<1>3. Grows
  BY <1>1, <1>2, NothingGrows DEF AccountTypes
<1>4. r \in Account
  BY <1>2 DEF Account
<1>5. /\ r.id = acct[e].id /\ r.verified = TRUE /\ r.otp = call[s].otp
      /\ r.reset = acct[e].reset
  BY <1>2 DEF Account
<1>6. acct[e].id = call[s].id /\ call[s].id # 0 => RowSound(r, rows', issued')
  BY <1>1, <1>2, <1>5 DEF RowSound, RequestSound
<1> QED
  BY <1>1, <1>2, <1>3, <1>4, <1>6, WritesStep DEF Updates

\* A code mailed for the row that was read goes into that row or into none.
LEMMA CodeStep ==
  ASSUME AccountsInv, NEW s \in Server, ResendWrites(s) \/ ForgotWrites(s)
  PROVE  AccountsInv'
<1> DEFINE e == call[s].e
<1>1. call[s].pc # "idle" /\ Done(s) /\ rows' = rows
  BY DEF ResendWrites, ForgotWrites, Running
<1>2. /\ AccountTypes /\ e \in Email /\ acct[e] \in Account /\ RowSound(acct[e], rows, issued)
      /\ call[s].id \in Nat
  BY <1>1, RunningRow
<1>3. rows \in Nat /\ rows' \in Nat /\ rows <= rows'
  BY <1>1, <1>2 DEF AccountTypes
<1>4. CASE ResendWrites(s)
  <2> DEFINE r == [acct[e] EXCEPT !.otp = NewCode]
  <2>1. Mails(e, call[s].id, TRUE) /\ Updates(e, call[s].id, r)
    BY <1>4 DEF ResendWrites
  <2>2. /\ Grows /\ NewCode \in Codes /\ NewCode # 0
        /\ issued'[NewCode].id = call[s].id /\ issued'[NewCode].verifies = TRUE
    BY <1>2, <1>3, <2>1, MailsGrows
  <2>3. r \in Account
    BY <1>2, <2>2 DEF Account, OptCode
  <2>4. /\ r.id = acct[e].id /\ r.verified = acct[e].verified /\ r.otp = NewCode
        /\ r.reset = acct[e].reset
    BY <1>2 DEF Account
  <2>5. RowSound(acct[e], rows', issued')
    BY <1>2, <2>2, StaysSound
  <2>6. acct[e].id = call[s].id /\ call[s].id # 0 => RowSound(r, rows', issued')
    BY <2>2, <2>4, <2>5 DEF RowSound
  <2> QED
    BY <1>1, <1>2, <2>1, <2>2, <2>3, <2>6, WritesStep DEF Updates
<1>5. CASE ForgotWrites(s)
  <2> DEFINE r == [acct[e] EXCEPT !.reset = NewCode]
  <2>1. Mails(e, call[s].id, FALSE) /\ Updates(e, call[s].id, r)
    BY <1>5 DEF ForgotWrites
  <2>2. Grows /\ NewCode \in Codes /\ NewCode # 0 /\ issued'[NewCode].id = call[s].id
    BY <1>2, <1>3, <2>1, MailsGrows
  <2>3. r \in Account
    BY <1>2, <2>2 DEF Account, OptCode
  <2>4. /\ r.id = acct[e].id /\ r.verified = acct[e].verified /\ r.otp = acct[e].otp
        /\ r.reset = NewCode
    BY <1>2 DEF Account
  <2>5. RowSound(acct[e], rows', issued')
    BY <1>2, <2>2, StaysSound
  <2>6. acct[e].id = call[s].id /\ call[s].id # 0 => RowSound(r, rows', issued')
    BY <2>2, <2>4, <2>5 DEF RowSound
  <2> QED
    BY <1>1, <1>2, <2>1, <2>2, <2>3, <2>6, WritesStep DEF Updates
<1> QED
  BY <1>4, <1>5

\* An account that a provider vouches for is verified from the start.
LEMMA CreateStep == ASSUME AccountsInv, NEW s \in Server, UserCreate(s) PROVE AccountsInv'
<1> DEFINE e == call[s].e
           fresh == [Gone EXCEPT !.verified = TRUE, !.apple = call[s].apple]
           r == [fresh EXCEPT !.id = rows + 1]
<1>1. call[s].pc # "idle" /\ Done(s) /\ issued' = issued
  BY DEF UserCreate, Running
<1>2. AccountTypes /\ e \in Email /\ call[s].apple \in BOOLEAN /\ rows \in Nat
      /\ acct[e] \in Account
  BY <1>1, RunningRow DEF AccountTypes
<1>3. CASE UNCHANGED <<acct, rows>>
  <2>1. Grows
    BY <1>1, <1>2, <1>3, NothingGrows
  <2> QED
    BY <1>1, <1>2, <1>3, <2>1, WritesStep
<1>4. CASE Inserts(e, fresh)
  <2>1. rows' = rows + 1 /\ acct' = [acct EXCEPT ![e] = r]
    BY <1>4 DEF Inserts
  <2>2. Grows
    BY <1>1, <1>2, <2>1, NothingGrows
  <2>3. /\ r \in Account /\ r.id = rows + 1
        /\ r.verified = TRUE /\ r.otp = 0 /\ r.reset = 0
    <3>1. fresh \in Account /\ fresh.verified = TRUE /\ fresh.otp = 0 /\ fresh.reset = 0
      BY <1>2 DEF Gone, Account, OptCode
    <3> HIDE DEF fresh
    <3> QED
      BY <1>2, <3>1 DEF Account
  <2>4. r \in Account
    BY <2>3
  <2>5. RowSound(r, rows', issued')
    <3> HIDE DEF r
    <3> QED
      BY <1>2, <2>1, <2>3 DEF RowSound
  <2> QED
    BY <1>1, <1>2, <2>1, <2>2, <2>4, <2>5, WritesStep
<1> QED
  BY <1>3, <1>4 DEF UserCreate

\* Linking and passwords touch no column that matters here.
LEMMA ColumnStep ==
  ASSUME AccountsInv, NEW s \in Server, LinkAppleId(s) \/ PasswordWrites(s)
  PROVE  AccountsInv'
<1> DEFINE e == call[s].e
<1>1. call[s].pc # "idle" /\ Done(s) /\ rows' = rows /\ issued' = issued
  BY DEF LinkAppleId, PasswordWrites, Running
<1>2. AccountTypes /\ e \in Email /\ acct[e] \in Account /\ RowSound(acct[e], rows, issued)
  BY <1>1, RunningRow
<1>3. Grows
  BY <1>1, <1>2, NothingGrows DEF AccountTypes
<1>4. PICK r \in {[acct[e] EXCEPT !.apple = TRUE], [acct[e] EXCEPT !.pwd = TRUE]} :
        Updates(e, call[s].id, r)
  BY DEF LinkAppleId, PasswordWrites
<1>5. /\ r \in Account /\ r.id = acct[e].id /\ r.verified = acct[e].verified
      /\ r.otp = acct[e].otp /\ r.reset = acct[e].reset
  BY <1>2, <1>4 DEF Account
<1>6. RowSound(r, rows', issued')
  BY <1>1, <1>2, <1>5 DEF RowSound
<1> QED
  BY <1>1, <1>2, <1>3, <1>4, <1>5, <1>6, WritesStep DEF Updates

\* A transaction that is rolled back leaves at most a code nobody can use.
LEMMA MailOnlyStep ==
  ASSUME AccountsInv, NEW s \in Server, LoginThrows(s) \/ RollsBack(s)
  PROVE  AccountsInv'
<1> DEFINE e == call[s].e
<1>1. call[s].pc # "idle" /\ Done(s) /\ rows' = rows /\ acct' = acct
  BY DEF LoginThrows, RollsBack, Running
<1>2. AccountTypes /\ e \in Email /\ call[s].id \in Nat /\ acct[e] \in Account
  BY <1>1, RunningRow
<1>3. rows' \in Nat /\ rows <= rows'
  BY <1>1, <1>2 DEF AccountTypes
<1>4. CASE issued' = issued
  <2>1. Grows
    BY <1>2, <1>3, <1>4, NothingGrows
  <2> QED
    BY <1>1, <1>2, <2>1, WritesStep
<1>5. ASSUME NEW verifies \in BOOLEAN, Mails(e, call[s].id, verifies) PROVE AccountsInv'
  <2>1. Grows
    BY <1>2, <1>3, <1>5, MailsGrows
  <2> QED
    BY <1>1, <1>2, <2>1, WritesStep
<1>6. (call[s].pc = "resend") \in BOOLEAN
  OBVIOUS
<1> QED
  BY <1>4, <1>5, <1>6 DEF LoginThrows, RollsBack

\* UserService's updates of an account, beside every request.
LEMMA AdministrationStep ==
  ASSUME AccountsInv, NEW e \in Email, UpdateUserStatus(e) \/ DeleteAccount(e) \/ RestoreUser(e)
  PROVE  AccountsInv'
<1>1. AccountTypes /\ acct[e] \in Account /\ RowSound(acct[e], rows, issued)
  BY DEF AccountsInv, AccountTypes
<1>2. rows' = rows /\ issued' = issued /\ call' = call
  BY DEF UpdateUserStatus, DeleteAccount, RestoreUser
<1>3. Grows
  BY <1>1, <1>2, NothingGrows DEF AccountTypes
<1>4. PICK r \in {[acct[e] EXCEPT !.active = ~@], [acct[e] EXCEPT !.deleted = TRUE],
                  [acct[e] EXCEPT !.deleted = FALSE]} : acct' = [acct EXCEPT ![e] = r]
  BY <1>1 DEF UpdateUserStatus, DeleteAccount, RestoreUser, AccountTypes
<1>5. /\ r \in Account /\ r.id = acct[e].id /\ r.verified = acct[e].verified
      /\ r.otp = acct[e].otp /\ r.reset = acct[e].reset
  BY <1>1, <1>4 DEF Account
<1>6. RowSound(r, rows', issued')
  BY <1>1, <1>2, <1>5 DEF RowSound
<1>7. acct' \in [Email -> Account] /\ call' \in [Server -> Request]
  BY <1>1, <1>2, <1>4, <1>5 DEF AccountTypes
<1>8. \A f \in Email : acct'[f] = acct[f] \/ RowSound(acct'[f], rows', issued')
  BY <1>1, <1>4, <1>6 DEF AccountTypes
<1> QED
  BY <1>2, <1>3, <1>7, <1>8, SoundStep

\* Every method, every transaction and every administration keeps the invariant.
LEMMA AccountsStep == AccountsInv /\ [AccountsNext]_accountVars => AccountsInv'
<1> SUFFICES ASSUME AccountsInv, [AccountsNext]_accountVars PROVE AccountsInv'
  OBVIOUS
<1>1. ASSUME NEW s \in Server, NEW e \in Email,
             \/ SignUp(s, e) \/ VerifySignUpEmailOtp(s, e) \/ ResendVerifyOtp(s, e)
             \/ LoginUnverified(s, e) \/ ForgotPassword(s, e) \/ ResetPassword(s, e)
             \/ ChangePassword(s, e)
             \/ SignInWithGoogle(s, e) \/ CreateOrFindTikTokUser(s, e) \/ SignInWithApple(s, e)
      PROVE  AccountsInv'
  <2>1. PICK m \in Method, apple \in BOOLEAN : Reads(s, m, e, apple)
    BY <1>1 DEF Method, SignUp, VerifySignUpEmailOtp, ResendVerifyOtp, LoginUnverified,
       ForgotPassword, ResetPassword, ChangePassword, SignInWithGoogle, CreateOrFindTikTokUser,
       SignInWithApple
  <2> QED
    BY <2>1, ReadsStep
<1>2. ASSUME NEW s \in Server,
             \/ SignUpWrites(s) \/ VerifySaves(s) \/ ResendWrites(s) \/ LoginThrows(s)
             \/ UserCreate(s) \/ LinkAppleId(s) \/ ForgotWrites(s) \/ PasswordWrites(s)
             \/ RollsBack(s)
      PROVE  AccountsInv'
  BY <1>2, SignUpStep, VerifyStep, CodeStep, CreateStep, ColumnStep, MailOnlyStep
<1>3. ASSUME NEW e \in Email, UpdateUserStatus(e) \/ DeleteAccount(e) \/ RestoreUser(e)
      PROVE  AccountsInv'
  BY <1>3, AdministrationStep
<1>4. CASE UNCHANGED accountVars
  BY <1>4 DEF accountVars, AccountsInv, AccountTypes
<1> QED
  BY <1>1, <1>2, <1>3, <1>4 DEF AccountsNext

\* The invariant of sign-up, sign-in, codes and passwords, in every interleaving: the codes
\* in a row and in a request's hands were made for the row they are of.
THEOREM AccountsInvariant == AccountsSpec => []AccountsInv
<1>1. AccountsInv /\ [AccountsNext]_accountVars => AccountsInv'
  BY AccountsStep
<1> QED
  BY <1>1, AccountsInitial, PTL DEF AccountsSpec

-----------------------------------------------------------------------------
(* The properties                                                          *)

\* A code verifies only the sign-up it was mailed for, though the address may be signed up
\* for again between look-up and update; and who waits for verification was sent a code.
THEOREM CodesFit == AccountsSpec => []CodesFitTheirRow
<1>1. AccountsInv => CodesFitTheirRow
  BY DEF AccountsInv, RowSound, CodesFitTheirRow, Exists
<1> QED
  BY <1>1, AccountsInvariant, PTL

\* What one request writes into the row of an address, if anything.
LEMMA KeepsVerified ==
  ASSUME AccountsInv, [AccountsNext]_accountVars, NEW e \in Email, acct[e].verified
  PROVE  acct'[e].verified /\ acct'[e].id = acct[e].id
<1>1. AccountTypes /\ acct[e] \in Account /\ acct[e].id # 0
  BY DEF AccountsInv, AccountTypes, RowSound
<1>2. CASE acct' = acct
  BY <1>2
<1>3. ASSUME NEW s \in Server, SignUpWrites(s)
      PROVE  acct'[e].verified /\ acct'[e].id = acct[e].id
  <2>1. acct' = acct \/ call[s].e # e
    BY <1>1, <1>3 DEF SignUpWrites, Exists
  <2>2. acct'[e] = acct[e]
    BY <1>1, <1>3, <2>1 DEF SignUpWrites, Inserts, AccountTypes
  <2> QED
    BY <2>2
<1>4. ASSUME NEW s \in Server, UserCreate(s)
      PROVE  acct'[e].verified /\ acct'[e].id = acct[e].id
  BY <1>1, <1>4 DEF UserCreate, Exists, Inserts, AccountTypes
<1>5. ASSUME NEW s \in Server,
             \/ VerifySaves(s) \/ ResendWrites(s) \/ ForgotWrites(s) \/ LinkAppleId(s)
             \/ PasswordWrites(s)
      PROVE  acct'[e].verified /\ acct'[e].id = acct[e].id
  <2>1. PICK f, id, row : /\ Updates(f, id, row)
                          /\ row.id = acct[f].id
                          /\ f \in Email => (acct[f].verified => row.verified)
    <3> DEFINE f == call[s].e
    <3>1. f \in Email /\ acct[f] \in Account
      BY <1>5, RunningRow DEF VerifySaves, ResendWrites, ForgotWrites, LinkAppleId, PasswordWrites,
         Running
    <3>2. CASE VerifySaves(s)
      <4> DEFINE row == [acct[f] EXCEPT !.verified = TRUE, !.otp = call[s].otp,
                           !.active = call[s].active]
      <4>1. row.id = acct[f].id /\ row.verified = TRUE
        BY <3>1 DEF Account
      <4>2. Updates(f, call[s].id, row)
        BY <3>2 DEF VerifySaves
      <4> HIDE DEF row
      <4> QED
        BY <4>1, <4>2
    <3>3. CASE ResendWrites(s)
      BY <3>1, <3>3 DEF ResendWrites, Account
    <3>4. CASE ForgotWrites(s)
      BY <3>1, <3>4 DEF ForgotWrites, Account
    <3>5. CASE LinkAppleId(s)
      BY <3>1, <3>5 DEF LinkAppleId, Account
    <3>6. CASE PasswordWrites(s)
      BY <3>1, <3>6 DEF PasswordWrites, Account
    <3> QED
      BY <1>5, <3>2, <3>3, <3>4, <3>5, <3>6
  <2> QED
    BY <1>1, <2>1 DEF Updates, AccountTypes
<1>6. ASSUME NEW f \in Email, UpdateUserStatus(f) \/ DeleteAccount(f) \/ RestoreUser(f)
      PROVE  acct'[e].verified /\ acct'[e].id = acct[e].id
  BY <1>1, <1>6 DEF UpdateUserStatus, DeleteAccount, RestoreUser, AccountTypes, Account
<1>7. ASSUME NEW s \in Server, NEW f \in Email,
             \/ SignUp(s, f) \/ VerifySignUpEmailOtp(s, f) \/ ResendVerifyOtp(s, f)
             \/ LoginUnverified(s, f) \/ ForgotPassword(s, f) \/ ResetPassword(s, f)
             \/ ChangePassword(s, f)
             \/ SignInWithGoogle(s, f) \/ CreateOrFindTikTokUser(s, f) \/ SignInWithApple(s, f)
      PROVE  acct' = acct
  BY <1>7 DEF SignUp, VerifySignUpEmailOtp, ResendVerifyOtp, LoginUnverified, ForgotPassword,
     ResetPassword, ChangePassword, SignInWithGoogle, CreateOrFindTikTokUser, SignInWithApple, Reads
<1>8. ASSUME NEW s \in Server, LoginThrows(s) \/ RollsBack(s) PROVE acct' = acct
  BY <1>8 DEF LoginThrows, RollsBack
<1> QED
  BY <1>2, <1>3, <1>4, <1>5, <1>6, <1>7, <1>8 DEF AccountsNext, accountVars

\* A sign-up that read the address as free or unverified does not take the place of an
\* account that was verified meanwhile, nor does anything else.
THEOREM VerifiedStay == AccountsSpec => VerifiedAccountsStay
<1>1. AccountsInv /\ [AccountsNext]_accountVars
        => [\A e \in Email : acct[e].verified => acct'[e].verified /\ acct'[e].id = acct[e].id]_acct
  BY KeepsVerified
<1> QED
  BY <1>1, AccountsInvariant, PTL DEF AccountsSpec, VerifiedAccountsStay

-----------------------------------------------------------------------------
(* Who administers                                                         *)

Label == {"idle", "permit", "assign", "find", "lastSuper", "email", "already", "userRole", "save",
          "audit"}
Deed == Op \cup {"none"}
Holder == User \cup {NoUser}
Place == Slot \cup {0}
Wish == Role \cup {"keep"}
Sections == [Section -> BOOLEAN]
Errand == [pc : Label, op : Deed, by : Holder, m : Place, row : Membership, seen : Role,
           role : Wish, email : Holder, super : BOOLEAN, cfg : Sections]

AccessTypes ==
  /\ member \in [Slot -> Membership] /\ userRole \in [User -> {"user", "admin"}]
  /\ token \in [User -> {"user", "admin"}] /\ settings \in [Section -> BOOLEAN]
  /\ req \in [Handler -> Errand]

\* A membership belongs to somebody who accepted an invite, or to nobody yet, and a super
\* admin's was given to its row.
RowHolds(row, m) ==
  /\ row.status # "revoked" => row.user \in joined \cup {NoUser}
  /\ row.role = "super" => m \in granted

\* The same of the row a request will write back, however old: it is written to the
\* membership it was read from, or the role comes from a super admin.  What stands
\* between a request and the audit trail is committed.
ErrandHolds(r) ==
  /\ r.row.user \in joined \cup {NoUser}
  /\ r.row.role = "super" => r.super \/ (r.op # "invite" /\ r.m \in granted)
  /\ r.op = "accept" => r.by \in joined
  /\ r.op = "invite" => r.role # "keep"
  /\ r.op \in {"grants", "reset", "settings"} => r.m = 0
  /\ r.op \in {"update", "revoke", "accept"} => r.m \in Slot
  /\ r.pc \in {"assign", "email"} => r.op \in {"invite", "update"}
  /\ r.pc = "already" => r.op = "accept"
  /\ r.pc \in {"permit", "assign", "find"} => ~r.super
  /\ r.pc = "lastSuper" /\ r.op # "revoke" => r.op = "update" /\ r.role # "super"
  /\ r.pc = "email" /\ r.role = "super" => r.super
  /\ r.pc = "audit" \/ (r.pc = "userRole" /\ r.op # "update") => <<r.op, r.m>> \in done

AccessInv ==
  /\ AccessTypes
  /\ \A u \in User : userRole[u] = "admin" => u \in joined
  /\ \A m \in Slot : RowHolds(member[m], m)
  /\ \A p \in Handler : ErrandHolds(req[p])
  /\ audit \subseteq done

LEMMA Names ==
  /\ \A l \in {"idle", "permit", "assign", "find", "lastSuper", "email", "already", "userRole",
               "save", "audit"} : l \in Label
  /\ \A o \in {"invite", "update", "revoke", "accept", "grants", "reset", "settings", "none"} :
       o \in Deed
  /\ \A u \in User : u \in Holder
  /\ NoUser \in Holder
  /\ \A m \in Slot : m \in Place
  /\ 0 \in Place
  /\ \A r \in Role : r \in Wish
  /\ "keep" \in Wish /\ "readOnly" \in Role /\ "super" \in Role
  BY DEF Label, Deed, Op, Holder, Place, Wish, Role

LEMMA NoErrand ==
  /\ NoRow \in Membership /\ NoRow.role = "readOnly" /\ NoRow.user = NoUser
  /\ NoRequest \in Errand /\ NoRequest.pc = "idle" /\ NoRequest.op = "none" /\ NoRequest.m = 0
  /\ NoRequest.row = NoRow /\ NoRequest.role = "keep" /\ NoRequest.super = FALSE
<1>1. NoRow \in Membership /\ NoRow.role = "readOnly" /\ NoRow.user = NoUser
  BY DEF NoRow, Membership, Role
<1>2. PICK f \in [Section -> BOOLEAN] : f = [s \in Section |-> FALSE]
  OBVIOUS
<1>3. NoRequest = [pc |-> "idle", op |-> "none", by |-> NoUser, m |-> 0, row |-> NoRow,
                   seen |-> "readOnly", role |-> "keep", email |-> NoUser, super |-> FALSE,
                   cfg |-> f]
  BY <1>2 DEF NoRequest
<1> QED
  BY <1>1, <1>2, <1>3, Names DEF Errand, Sections

LEMMA NoErrandHolds == ErrandHolds(NoRequest) /\ ErrandHolds(NoRequest)'
  BY NoErrand, Names DEF ErrandHolds

\* What a request knows stays true while others commit, join and grant.
LEMMA ErrandsKeep ==
  ASSUME joined \subseteq joined', granted \subseteq granted', done \subseteq done', NEW r,
         ErrandHolds(r)
  PROVE  ErrandHolds(r)'
  BY DEF ErrandHolds

\* A statement of one request, whatever it writes.
LEMMA StatementStep ==
  ASSUME AccessInv, NEW p \in Handler, NEW n \in Errand, req' = [req EXCEPT ![p] = n],
         joined \subseteq joined', granted \subseteq granted', done \subseteq done',
         audit' \subseteq done', ErrandHolds(n)',
         member' \in [Slot -> Membership], userRole' \in [User -> {"user", "admin"}],
         token' \in [User -> {"user", "admin"}], settings' \in [Section -> BOOLEAN],
         \A u \in User : userRole'[u] = "admin" => u \in joined',
         \A m \in Slot : RowHolds(member[m], m)'
  PROVE  AccessInv'
<1>1. AccessTypes /\ (\A q \in Handler : ErrandHolds(req[q]))
  BY DEF AccessInv
<1>2. AccessTypes'
  BY <1>1 DEF AccessTypes
<1>3. ASSUME NEW q \in Handler PROVE ErrandHolds(req[q])'
  <2>1. PICK r \in Errand : r = req'[q]
    BY <1>2 DEF AccessTypes
  <2>2. r = IF q = p THEN n ELSE req[q]
    BY <1>1, <2>1 DEF AccessTypes
  <2>3. ErrandHolds(r)'
    BY <1>1, <2>2, ErrandsKeep
  <2> QED
    BY <2>1, <2>3 DEF ErrandHolds
<1> QED
  BY <1>2, <1>3 DEF AccessInv

\* A statement that leaves the rows as they are.
LEMMA ReadStep ==
  ASSUME AccessInv, NEW p \in Handler, NEW n \in Errand, req' = [req EXCEPT ![p] = n],
         joined \subseteq joined', granted \subseteq granted', done \subseteq done',
         audit' \subseteq done', ErrandHolds(n)', UNCHANGED <<member, userRole, token, settings>>
  PROVE  AccessInv'
<1>1. AccessTypes /\ (\A m \in Slot : RowHolds(member[m], m))
      /\ (\A u \in User : userRole[u] = "admin" => u \in joined)
  BY DEF AccessInv
<1>2. \A m \in Slot : RowHolds(member[m], m)'
  BY <1>1 DEF RowHolds
<1> QED
  BY <1>1, <1>2, StatementStep DEF AccessTypes

\* A request that ends here.
LEMMA LeaveStep ==
  ASSUME AccessInv, NEW p \in Handler, Leave(p), UNCHANGED <<member, userRole, token, settings>>,
         joined \subseteq joined', granted \subseteq granted', done \subseteq done',
         audit' \subseteq done'
  PROVE  AccessInv'
<1>1. ErrandHolds(NoRequest)'
  BY NoErrandHolds
<1> QED
  BY <1>1, NoErrand, ReadStep DEF Leave

LEMMA AccessInitial == AdminInit => AccessInv
<1> SUFFICES ASSUME AdminInit PROVE AccessInv
  OBVIOUS
<1>1. member \in [Slot -> Membership]
  BY FirstTablesAssumption DEF AdminInit
<1>2. \A u \in User : (userRole[u] = "admin") = (ActiveOf(u) # {})
  BY DEF AdminInit
<1>3. AccessTypes
  BY <1>1, NoErrand DEF AccessTypes, AdminInit
<1>4. \A u \in User : userRole[u] = "admin" => u \in joined
  BY <1>2 DEF AdminInit
<1>5. ASSUME NEW m \in Slot PROVE RowHolds(member[m], m)
  <2>1. member[m] \in Membership
    BY <1>1
  <2>2. member[m].status \in {"none", "pending"} => member[m].user = NoUser
    BY FirstTablesAssumption DEF AdminInit
  <2>3. member[m].status = "active" => member[m].user \in joined \cup {NoUser}
    BY <2>1 DEF AdminInit, ActiveOf, Membership
  <2> QED
    BY <2>1, <2>2, <2>3 DEF RowHolds, AdminInit, Membership
<1>6. \A p \in Handler : req[p] = NoRequest
  BY DEF AdminInit
<1>7. \A p \in Handler : ErrandHolds(req[p])
  BY <1>6, NoErrandHolds
<1> QED
  BY <1>3, <1>4, <1>5, <1>7 DEF AccessInv, AdminInit

LEMMA ArriveStep ==
  ASSUME AccessInv, NEW p \in Handler, NEW u \in User, NEW r \in Errand, Arrive(p, u, r),
         r.row = NoRow, ~r.super, r.op # "accept", r.op = "invite" => r.role # "keep",
         r.op \in {"grants", "reset", "settings"} => r.m = 0,
         r.op \in {"update", "revoke"} => r.m \in Slot
  PROVE  AccessInv'
<1>1. AccessTypes /\ audit \subseteq done
  BY DEF AccessInv
<1>2. PICK m \in Slot, s \in Role :
        /\ s = member[m].role
        /\ req' = [req EXCEPT ![p] = [r EXCEPT !.pc = "permit", !.by = u, !.seen = s]]
  BY <1>1 DEF AccessTypes, Arrive, ActiveOf, Membership
<1>3. PICK n \in Errand : /\ n = [r EXCEPT !.pc = "permit", !.by = u, !.seen = s]
                          /\ n.row = r.row /\ n.op = r.op /\ n.m = r.m /\ n.pc = "permit"
                          /\ n.super = r.super /\ n.role = r.role
  <2> DEFINE x == [r EXCEPT !.pc = "permit", !.by = u, !.seen = s]
  <2>1. /\ x \in Errand /\ x.row = r.row /\ x.op = r.op /\ x.m = r.m /\ x.pc = "permit"
        /\ x.super = r.super /\ x.role = r.role
    BY Names DEF Errand
  <2> QED
    BY <2>1
<1>4. UNCHANGED <<member, userRole, token, settings, granted, joined, done, audit>>
  BY DEF Arrive
<1>5. ErrandHolds(n)'
  BY <1>3, NoErrand DEF ErrandHolds
<1> QED
  BY <1>1, <1>2, <1>3, <1>4, <1>5, ReadStep

\* acceptInvite: the account behind the address of a pending membership.
LEMMA AcceptInviteStep ==
  ASSUME AccessInv, NEW p \in Handler, NEW u \in User, AcceptInvite(p, u)
  PROVE  AccessInv'
<1>1. AccessTypes /\ (\A m \in Slot : RowHolds(member[m], m)) /\ audit \subseteq done
  BY DEF AccessInv
<1>2. PICK m \in Slot, row \in Membership :
        /\ row = member[m] /\ row.status = "pending"
        /\ req' = [req EXCEPT ![p] = [NoRequest EXCEPT !.pc = "already", !.op = "accept",
                     !.by = u, !.m = m, !.row = row]]
  BY <1>1 DEF AccessTypes, AcceptInvite
<1>3. PICK n \in Errand : /\ n = [NoRequest EXCEPT !.pc = "already", !.op = "accept",
                                     !.by = u, !.m = m, !.row = row]
                          /\ n.pc = "already" /\ n.op = "accept" /\ n.by = u /\ n.m = m
                          /\ n.row = row /\ n.role = "keep"
  <2> DEFINE x == [NoRequest EXCEPT !.pc = "already", !.op = "accept", !.by = u, !.m = m,
                                    !.row = row]
  <2>1. /\ x \in Errand /\ x.pc = "already" /\ x.op = "accept" /\ x.by = u /\ x.m = m
        /\ x.row = row /\ x.role = "keep"
    BY NoErrand, Names DEF Errand
  <2> QED
    BY <2>1
<1>4. /\ UNCHANGED <<member, userRole, token, settings, granted, done, audit>>
      /\ joined' = joined \cup {u}
  BY DEF AcceptInvite, adminVars
<1>5. row.user \in joined \cup {NoUser} /\ (row.role = "super" => m \in granted)
  BY <1>1, <1>2 DEF RowHolds
<1>6. ErrandHolds(n)'
  BY <1>3, <1>4, <1>5 DEF ErrandHolds
<1> QED
  BY <1>1, <1>2, <1>3, <1>4, <1>6, ReadStep

LEMMA RequestsStep == ASSUME AccessInv, NEW p \in Handler, Requests(p) PROVE AccessInv'
<1>1. PICK u \in User :
        \/ \E e \in User, r \in Role : Invite(p, u, e, r)
        \/ \E m \in Slot, r \in Role \cup {"keep"}, e \in User \cup {NoUser} :
             UpdateAdmin(p, u, m, r, e)
        \/ \E m \in Slot : Revoke(p, u, m)
        \/ AcceptInvite(p, u)
        \/ \E r \in Role, on \in BOOLEAN : UpdateRolePermissions(p, u, r, on)
        \/ \E s \in Section : UpdateSettings(p, u, s)
  BY DEF Requests
<1>2. ASSUME NEW e \in User, NEW r \in Role, Invite(p, u, e, r) PROVE AccessInv'
  <2>1. PICK m \in Slot :
          Arrive(p, u, [NoRequest EXCEPT !.op = "invite", !.m = m, !.role = r, !.email = e])
    BY <1>2 DEF Invite
  <2>2. PICK n \in Errand :
          /\ n = [NoRequest EXCEPT !.op = "invite", !.m = m, !.role = r, !.email = e]
          /\ n.op = "invite" /\ n.role = r /\ n.row = NoRow /\ n.super = FALSE
    <3> DEFINE x == [NoRequest EXCEPT !.op = "invite", !.m = m, !.role = r, !.email = e]
    <3>1. x \in Errand /\ x.op = "invite" /\ x.role = r /\ x.row = NoRow /\ x.super = FALSE
      BY NoErrand, Names DEF Errand
    <3> QED
      BY <3>1
  <2> QED
    BY <2>1, <2>2, ArriveStep DEF Role
<1>3. ASSUME NEW m \in Slot, NEW r \in Role \cup {"keep"}, NEW e \in User \cup {NoUser},
             UpdateAdmin(p, u, m, r, e)
      PROVE  AccessInv'
  <2>1. PICK n \in Errand :
          /\ n = [NoRequest EXCEPT !.op = "update", !.m = m, !.role = r, !.email = e]
          /\ n.op = "update" /\ n.m = m /\ n.row = NoRow /\ n.super = FALSE
    <3> DEFINE x == [NoRequest EXCEPT !.op = "update", !.m = m, !.role = r, !.email = e]
    <3>1. x \in Errand /\ x.op = "update" /\ x.m = m /\ x.row = NoRow /\ x.super = FALSE
      BY NoErrand, Names DEF Errand
    <3> QED
      BY <3>1
  <2> QED
    BY <1>3, <2>1, ArriveStep DEF UpdateAdmin
<1>4. ASSUME NEW m \in Slot, Revoke(p, u, m) PROVE AccessInv'
  <2>1. PICK n \in Errand : /\ n = [NoRequest EXCEPT !.op = "revoke", !.m = m]
                            /\ n.op = "revoke" /\ n.m = m /\ n.row = NoRow /\ n.super = FALSE
    <3> DEFINE x == [NoRequest EXCEPT !.op = "revoke", !.m = m]
    <3>1. x \in Errand /\ x.op = "revoke" /\ x.m = m /\ x.row = NoRow /\ x.super = FALSE
      BY NoErrand, Names DEF Errand
    <3> QED
      BY <3>1
  <2> QED
    BY <1>4, <2>1, ArriveStep DEF Revoke
<1>5. ASSUME NEW r \in Role, NEW on \in BOOLEAN, UpdateRolePermissions(p, u, r, on)
      PROVE  AccessInv'
  <2>1. PICK o \in {"grants", "reset"} : o = IF on THEN "grants" ELSE "reset"
    OBVIOUS
  <2>2. PICK n \in Errand : /\ n = [NoRequest EXCEPT !.op = o, !.role = r]
                            /\ n.op = o /\ n.row = NoRow /\ n.super = FALSE /\ n.m = 0
    <3> DEFINE x == [NoRequest EXCEPT !.op = o, !.role = r]
    <3>1. x \in Errand /\ x.op = o /\ x.row = NoRow /\ x.super = FALSE /\ x.m = 0
      BY NoErrand, Names DEF Errand
    <3> QED
      BY <3>1
  <2> QED
    BY <1>5, <2>1, <2>2, ArriveStep DEF UpdateRolePermissions
<1>6. ASSUME NEW s \in Section, UpdateSettings(p, u, s) PROVE AccessInv'
  <2>1. PICK f \in Sections : f = [t \in Section |-> t = s]
    BY DEF Sections
  <2>2. PICK n \in Errand : /\ n = [NoRequest EXCEPT !.op = "settings", !.cfg = f]
                            /\ n.op = "settings" /\ n.row = NoRow /\ n.super = FALSE /\ n.m = 0
    <3> DEFINE x == [NoRequest EXCEPT !.op = "settings", !.cfg = f]
    <3>1. x \in Errand /\ x.op = "settings" /\ x.row = NoRow /\ x.super = FALSE /\ x.m = 0
      BY NoErrand, Names DEF Errand
    <3> QED
      BY <3>1
  <2> QED
    BY <1>6, <2>1, <2>2, ArriveStep DEF UpdateSettings
<1> QED
  BY <1>1, <1>2, <1>3, <1>4, <1>5, <1>6, AcceptInviteStep

\* The request of a handler, and a label its statement moves it to.
LEMMA MoveStep ==
  ASSUME AccessInv, NEW p \in Handler, NEW e \in Errand, e = req[p],
         NEW l \in {"assign", "find", "email", "save", "audit"}, Step(p, l),
         UNCHANGED <<member, userRole, token, settings, granted, joined, audit>>,
         done \subseteq done',
         l \in {"assign", "find"} => ~e.super,
         l \in {"assign", "email"} => e.op \in {"invite", "update"},
         l = "email" /\ e.role = "super" => e.super,
         l = "audit" => <<e.op, e.m>> \in done'
  PROVE  AccessInv'
<1>1. AccessTypes /\ audit \subseteq done /\ ErrandHolds(e)
  BY DEF AccessInv
<1>2. PICK n \in Errand :
        /\ n = [e EXCEPT !.pc = l]
        /\ n.row = e.row /\ n.super = e.super /\ n.m = e.m /\ n.op = e.op /\ n.by = e.by
        /\ n.role = e.role /\ n.pc = l
  <2> DEFINE x == [e EXCEPT !.pc = l]
  <2>1. /\ x \in Errand /\ x.row = e.row /\ x.super = e.super /\ x.m = e.m /\ x.op = e.op
        /\ x.by = e.by /\ x.role = e.role /\ x.pc = l
    BY Names DEF Errand
  <2> QED
    BY <2>1
<1>3. req' = [req EXCEPT ![p] = n]
  BY <1>1, <1>2 DEF Step, AccessTypes
<1>4. ErrandHolds(n)'
  BY <1>1, <1>2 DEF ErrandHolds
<1> QED
  BY <1>1, <1>2, <1>3, <1>4, ReadStep

LEMMA PermitStep == ASSUME AccessInv, NEW p \in Handler, Permit(p) PROVE AccessInv'
<1>1. AccessTypes /\ audit \subseteq done /\ ErrandHolds(req[p])
  BY DEF AccessInv
<1>2. PICK e \in Errand : e = req[p]
  BY <1>1 DEF AccessTypes
<1>3. /\ e.pc = "permit"
      /\ UNCHANGED <<member, userRole, token, settings, granted, joined, done, audit>>
  BY <1>2 DEF Permit, At, adminVars
<1>4. CASE Leave(p)
  BY <1>1, <1>3, <1>4, LeaveStep
<1>5. CASE e.op = "invite" /\ Step(p, "assign")
  BY <1>1, <1>2, <1>3, <1>5, MoveStep DEF ErrandHolds
<1>6. CASE e.op # "invite" /\ Step(p, "find")
  BY <1>1, <1>2, <1>3, <1>6, MoveStep DEF ErrandHolds
<1> QED
  BY <1>2, <1>4, <1>5, <1>6 DEF Permit

\* findMembership: the row is of the membership the request is about.
LEMMA FindStep == ASSUME AccessInv, NEW p \in Handler, Find(p) PROVE AccessInv'
<1>1. /\ AccessTypes /\ audit \subseteq done /\ ErrandHolds(req[p])
      /\ \A m \in Slot : RowHolds(member[m], m)
  BY DEF AccessInv
<1>2. PICK e \in Errand : e = req[p]
  BY <1>1 DEF AccessTypes
<1>3. /\ e.pc = "find" /\ e.op \in {"update", "revoke"}
      /\ UNCHANGED <<member, userRole, token, settings, granted, joined, done, audit>>
  BY <1>2 DEF Find, At, adminVars
<1>4. PICK row \in Membership : row = member[e.m] /\ RowHolds(row, e.m)
  BY <1>1, <1>2, <1>3 DEF AccessTypes, ErrandHolds
<1>5. CASE Leave(p)
  BY <1>1, <1>3, <1>5, LeaveStep
<1>6. ASSUME ~Leave(p) PROVE AccessInv'
  <2> DEFINE super == row.role = "super" /\ row.status = "active"
             next == CASE e.op = "revoke" /\ super -> "lastSuper"
                       [] e.op = "revoke" /\ ~super -> "save"
                       [] e.op = "update" /\ e.role = "super" -> "assign"
                       [] e.op = "update" /\ e.role \notin {"keep", "super"} /\ super
                            -> "lastSuper"
                       [] OTHER -> "email"
  <2>1. /\ row.status # "revoked"
        /\ req' = [req EXCEPT ![p].row = row, ![p].pc = next]
    BY <1>2, <1>4, <1>6, Zenon DEF Find
  <2>2. /\ next \in {"assign", "lastSuper", "email", "save"}
        /\ next = "assign" => e.op = "update"
        /\ next = "email" => e.op = "update" /\ e.role # "super"
        /\ next = "lastSuper" /\ e.op # "revoke" => e.op = "update" /\ e.role # "super"
    BY <1>3
  <2>3. PICK l \in {"assign", "lastSuper", "email", "save"} : l = next
    BY <2>2
  <2> HIDE DEF next
  <2> DEFINE n == [e EXCEPT !.row = row, !.pc = l]
  <2>4. /\ n \in Errand /\ n.pc = l /\ n.row = row /\ n.op = e.op /\ n.m = e.m /\ n.by = e.by
        /\ n.role = e.role /\ n.super = e.super
    BY Names DEF Errand
  <2>5. req' = [req EXCEPT ![p] = n]
    BY <1>1, <1>2, <2>1, <2>3 DEF AccessTypes
  <2> HIDE DEF n
  <2>6. ErrandHolds(n)'
    BY <1>1, <1>2, <1>3, <1>4, <2>1, <2>2, <2>3, <2>4 DEF ErrandHolds, RowHolds
  <2> QED
    BY <1>1, <1>3, <2>4, <2>5, <2>6, ReadStep
<1> QED
  BY <1>5, <1>6

LEMMA AssignStep == ASSUME AccessInv, NEW p \in Handler, AssertCanAssignRole(p) PROVE AccessInv'
<1>1. AccessTypes /\ audit \subseteq done /\ ErrandHolds(req[p])
  BY DEF AccessInv
<1>2. PICK e \in Errand : e = req[p]
  BY <1>1 DEF AccessTypes
<1>3. /\ e.pc = "assign"
      /\ UNCHANGED <<member, userRole, token, settings, granted, joined, done, audit>>
  BY <1>2 DEF AssertCanAssignRole, At, adminVars
<1>4. PICK can \in BOOLEAN : can = \E m \in ActiveOf(e.by) : member[m].role = "super"
  OBVIOUS
<1>5. CASE Leave(p)
  BY <1>1, <1>3, <1>5, LeaveStep
<1>6. ASSUME ~Leave(p) PROVE AccessInv'
  <2>1. /\ e.role = "super" => can
        /\ req' = [req EXCEPT ![p].pc = "email", ![p].super = (e.role = "super" /\ can)]
    BY <1>2, <1>4, <1>6 DEF AssertCanAssignRole
  <2>2. PICK is \in BOOLEAN : is = (e.role = "super" /\ can)
    OBVIOUS
  <2> DEFINE n == [e EXCEPT !.pc = "email", !.super = is]
  <2>3. /\ n \in Errand /\ n.pc = "email" /\ n.row = e.row /\ n.op = e.op /\ n.m = e.m
        /\ n.by = e.by /\ n.role = e.role /\ n.super = is
    BY Names DEF Errand
  <2>4. req' = [req EXCEPT ![p] = n]
    BY <1>1, <1>2, <2>1, <2>2 DEF AccessTypes
  <2> HIDE DEF n
  <2>5. e.role = "super" => is
    BY <2>1, <2>2
  <2>6. ErrandHolds(n)'
    BY <1>1, <1>2, <1>3, <2>3, <2>5 DEF ErrandHolds
  <2> QED
    BY <1>1, <1>3, <2>3, <2>4, <2>6, ReadStep
<1> QED
  BY <1>5, <1>6

LEMMA CountStep == ASSUME AccessInv, NEW p \in Handler, CountSupers(p) PROVE AccessInv'
<1>1. AccessTypes /\ audit \subseteq done /\ ErrandHolds(req[p])
  BY DEF AccessInv
<1>2. PICK e \in Errand : e = req[p]
  BY <1>1 DEF AccessTypes
<1>3. /\ e.pc = "lastSuper"
      /\ UNCHANGED <<member, userRole, token, settings, granted, joined, done, audit>>
  BY <1>2 DEF CountSupers, At, adminVars
<1>4. CASE Leave(p)
  BY <1>1, <1>3, <1>4, LeaveStep
<1>5. CASE e.op = "revoke" /\ Step(p, "save")
  BY <1>1, <1>2, <1>3, <1>5, MoveStep
<1>6. CASE e.op # "revoke" /\ Step(p, "email")
  BY <1>1, <1>2, <1>3, <1>6, MoveStep DEF ErrandHolds
<1> QED
  BY <1>2, <1>4, <1>5, <1>6 DEF CountSupers

\* A function of the handlers that is updated twice for one of them.
LEMMA Overwritten ==
  ASSUME NEW f \in [Handler -> Errand], NEW g, NEW p \in Handler, NEW a \in Errand,
         NEW b \in Errand, g = [f EXCEPT ![p] = a]
  PROVE  /\ [g EXCEPT ![p] = b] = [f EXCEPT ![p] = b]
         /\ [g EXCEPT ![p] = b] \in [Handler -> Errand] /\ [g EXCEPT ![p] = b][p] = b
  OBVIOUS

\* The fields are set on the entity; a role that is new to it was assigned above.
LEMMA EmailStep == ASSUME AccessInv, NEW p \in Handler, CheckEmail(p) PROVE AccessInv'
<1>1. AccessTypes /\ audit \subseteq done /\ ErrandHolds(req[p])
  BY DEF AccessInv
<1>2. PICK e \in Errand : e = req[p]
  BY <1>1 DEF AccessTypes
<1>3. /\ e.pc = "email"
      /\ UNCHANGED <<member, userRole, token, settings, granted, joined, done, audit>>
  BY <1>2 DEF CheckEmail, At, adminVars
<1>4. ErrandHolds(e) /\ e.row \in Membership /\ e.op \in {"invite", "update"}
  BY <1>1, <1>2, <1>3 DEF ErrandHolds, Errand
<1>5. CASE Leave(p)
  BY <1>1, <1>3, <1>5, LeaveStep
<1> DEFINE moves == e.op = "update" /\ e.email \notin {NoUser, e.row.email}
           email == IF moves THEN e.email ELSE e.row.email
           role == IF e.role = "keep" THEN e.row.role ELSE e.role
           kept == IF role = e.row.role THEN "keep" ELSE role
           syncs == role # e.row.role /\ e.row.status = "active" /\ e.row.user # NoUser
           next == IF syncs THEN "userRole" ELSE "save"
           fresh == [email |-> e.email, user |-> NoUser, role |-> e.role, status |-> "pending"]
<1>6. \/ Leave(p)
      \/ e.op = "invite" /\ req' = [req EXCEPT ![p].pc = "save", ![p].row = fresh]
      \/ /\ e.op = "update"
         /\ req' = [req EXCEPT ![p].pc = next, ![p].row.email = email, ![p].row.role = role,
                      ![p].role = kept]
  BY <1>2, <1>4, Zenon DEF CheckEmail
<1>7. CASE e.op = "invite" /\ req' = [req EXCEPT ![p].pc = "save", ![p].row = fresh]
  <2>1. e.role \in Role /\ e.email \in User \cup {NoUser}
    BY <1>4, <1>7 DEF ErrandHolds, Errand, Wish, Holder
  <2>2. /\ fresh \in Membership /\ fresh.user = NoUser /\ fresh.role = e.role
    BY <2>1 DEF Membership
  <2> HIDE DEF fresh
  <2> DEFINE n == [e EXCEPT !.pc = "save", !.row = fresh]
  <2>3. /\ n \in Errand /\ n.pc = "save" /\ n.row = fresh /\ n.op = e.op /\ n.m = e.m
        /\ n.by = e.by /\ n.role = e.role /\ n.super = e.super
    BY <2>2, Names DEF Errand
  <2>4. req' = [req EXCEPT ![p] = n]
    BY <1>1, <1>2, <1>7 DEF AccessTypes
  <2> HIDE DEF n
  <2>5. ErrandHolds(n)'
    BY <1>3, <1>4, <1>7, <2>2, <2>3 DEF ErrandHolds
  <2> QED
    BY <1>1, <1>3, <2>3, <2>4, <2>5, ReadStep
<1>8. CASE /\ e.op = "update"
           /\ req' = [req EXCEPT ![p].pc = next, ![p].row.email = email, ![p].row.role = role,
                        ![p].role = kept]
  <2>1. /\ email \in User \cup {NoUser} /\ role \in Role /\ kept \in Wish
        /\ next \in {"userRole", "save"}
    <3>1. e.email \in User \cup {NoUser} /\ e.role \in Role \cup {"keep"}
      BY DEF Errand, Holder, Wish
    <3>2. e.row.email \in User \cup {NoUser} /\ e.row.role \in Role
      BY <1>4 DEF Membership
    <3> QED
      BY <3>1, <3>2 DEF Wish
  <2>2. role = "super" => e.super \/ e.m \in granted
    BY <1>3, <1>4 DEF ErrandHolds
  <2> HIDE DEF email, role, kept, next
  <2>3. PICK half \in Membership, row \in Membership :
          /\ half = [e.row EXCEPT !.email = email] /\ half.user = e.row.user
          /\ row = [half EXCEPT !.role = role] /\ row.user = half.user /\ row.role = role
    <3> DEFINE x == [e.row EXCEPT !.email = email]
    <3>1. x \in Membership /\ x.user = e.row.user
      BY <1>4, <2>1 DEF Membership
    <3> HIDE DEF x
    <3> DEFINE y == [x EXCEPT !.role = role]
    <3>2. y \in Membership /\ y.user = x.user /\ y.role = role
      BY <2>1, <3>1 DEF Membership
    <3> HIDE DEF y
    <3> QED
      BY <3>1, <3>2 DEF x, y
  <2> DEFINE e1 == [e EXCEPT !.pc = next]
             e2 == [e1 EXCEPT !.row = half]
             e3 == [e2 EXCEPT !.row = row]
             n == [e3 EXCEPT !.role = kept]
  <2>7. /\ e1 \in Errand /\ e1.pc = next /\ e1.row = e.row /\ e1.op = e.op /\ e1.m = e.m
        /\ e1.by = e.by /\ e1.super = e.super
    BY <2>1, Names DEF Errand
  <2> HIDE DEF e1
  <2>8. /\ e2 \in Errand /\ e2.pc = next /\ e2.row = half /\ e2.op = e.op /\ e2.m = e.m
        /\ e2.by = e.by /\ e2.super = e.super
    BY <2>7 DEF Errand
  <2>9. e2 = [e1 EXCEPT !.row.email = email]
    BY <2>3, <2>7
  <2> HIDE DEF e2
  <2>10. /\ e3 \in Errand /\ e3.pc = next /\ e3.row = row /\ e3.op = e.op /\ e3.m = e.m
         /\ e3.by = e.by /\ e3.super = e.super
    BY <2>8 DEF Errand
  <2>11. e3 = [e2 EXCEPT !.row.role = role]
    BY <2>3, <2>8
  <2> HIDE DEF e3
  <2>4. /\ n \in Errand /\ n.pc = next /\ n.row = row /\ n.op = e.op /\ n.m = e.m
        /\ n.by = e.by /\ n.super = e.super
    BY <2>1, <2>10 DEF Errand
  <2>5. req' = [req EXCEPT ![p] = n]
    <3> DEFINE f1 == [req EXCEPT ![p].pc = next]
               f2 == [f1 EXCEPT ![p].row.email = email]
               f3 == [f2 EXCEPT ![p].row.role = role]
               f4 == [f3 EXCEPT ![p].role = kept]
    <3>1. req' = f4
      BY <1>8
    <3>2. f1 = [req EXCEPT ![p] = e1]
      BY <1>2 DEF e1
    <3>3. req \in [Handler -> Errand]
      BY <1>1 DEF AccessTypes
    <3> HIDE DEF n, f1
    <3>4. f1 \in [Handler -> Errand] /\ f1[p] = e1
      BY <2>7, <3>2, <3>3
    <3>5. f2 = [f1 EXCEPT ![p] = e2]
      BY <2>9, <3>4
    <3> HIDE DEF f2
    <3>6. f2 = [req EXCEPT ![p] = e2] /\ f2 \in [Handler -> Errand] /\ f2[p] = e2
      BY <2>7, <2>8, <3>2, <3>3, <3>4, <3>5, Overwritten
    <3>7. f3 = [f2 EXCEPT ![p] = e3]
      BY <2>11, <3>6
    <3> HIDE DEF f3
    <3>8. f3 = [req EXCEPT ![p] = e3] /\ f3 \in [Handler -> Errand] /\ f3[p] = e3
      BY <2>8, <2>10, <3>3, <3>6, <3>7, Overwritten
    <3>9. f4 = [f3 EXCEPT ![p] = n]
      BY <3>8 DEF n
    <3> HIDE DEF f4
    <3> QED
      BY <2>4, <2>10, <3>1, <3>3, <3>8, <3>9, Overwritten
  <2> HIDE DEF n
  <2>6. ErrandHolds(n)'
    BY <1>3, <1>4, <1>8, <2>1, <2>2, <2>3, <2>4 DEF ErrandHolds
  <2> QED
    BY <1>1, <1>3, <2>4, <2>5, <2>6, ReadStep
<1> QED
  BY <1>5, <1>6, <1>7, <1>8

LEMMA AlreadyStep == ASSUME AccessInv, NEW p \in Handler, CheckAlready(p) PROVE AccessInv'
<1>1. AccessTypes /\ audit \subseteq done /\ ErrandHolds(req[p])
  BY DEF AccessInv
<1>2. PICK e \in Errand : e = req[p]
  BY <1>1 DEF AccessTypes
<1>3. /\ e.pc = "already"
      /\ UNCHANGED <<member, userRole, token, settings, granted, joined, done, audit>>
  BY <1>2 DEF CheckAlready, At, adminVars
<1>4. ErrandHolds(e) /\ e.row \in Membership /\ e.op = "accept"
  BY <1>1, <1>2, <1>3 DEF ErrandHolds, Errand
<1>5. CASE Leave(p)
  BY <1>1, <1>3, <1>5, LeaveStep
<1>6. ASSUME ~Leave(p) PROVE AccessInv'
  <2>1. req' = [req EXCEPT ![p].pc = "save", ![p].row.user = e.by, ![p].row.status = "active"]
    BY <1>2, <1>6 DEF CheckAlready
  <2>2. PICK half \in Membership, row \in Membership :
          /\ half = [e.row EXCEPT !.user = e.by] /\ half.user = e.by /\ half.role = e.row.role
          /\ row = [half EXCEPT !.status = "active"] /\ row.user = e.by /\ row.role = half.role
    <3>1. e.by \in User \cup {NoUser}
      BY DEF Errand, Holder
    <3> DEFINE x == [e.row EXCEPT !.user = e.by]
    <3>2. x \in Membership /\ x.user = e.by /\ x.role = e.row.role
      BY <1>4, <3>1 DEF Membership
    <3> HIDE DEF x
    <3> DEFINE y == [x EXCEPT !.status = "active"]
    <3>3. y \in Membership /\ y.user = e.by /\ y.role = x.role
      BY <3>2 DEF Membership
    <3> HIDE DEF y
    <3> QED
      BY <3>2, <3>3 DEF x, y
  <2> DEFINE e1 == [e EXCEPT !.pc = "save"]
             e2 == [e1 EXCEPT !.row = half]
             n == [e2 EXCEPT !.row = row]
  <2>6. /\ e1 \in Errand /\ e1.pc = "save" /\ e1.row = e.row /\ e1.op = e.op /\ e1.m = e.m
        /\ e1.by = e.by /\ e1.super = e.super /\ e1.role = e.role
    BY Names DEF Errand
  <2> HIDE DEF e1
  <2>7. /\ e2 \in Errand /\ e2.pc = "save" /\ e2.row = half /\ e2.op = e.op /\ e2.m = e.m
        /\ e2.by = e.by /\ e2.super = e.super /\ e2.role = e.role
    BY <2>6 DEF Errand
  <2>8. e2 = [e1 EXCEPT !.row.user = e.by]
    BY <2>2, <2>6
  <2> HIDE DEF e2
  <2>3. /\ n \in Errand /\ n.pc = "save" /\ n.row = row /\ n.op = e.op /\ n.m = e.m
        /\ n.by = e.by /\ n.super = e.super /\ n.role = e.role
    BY <2>7 DEF Errand
  <2>9. n = [e2 EXCEPT !.row.status = "active"]
    BY <2>2, <2>7
  <2>4. req' = [req EXCEPT ![p] = n]
    <3> DEFINE f1 == [req EXCEPT ![p].pc = "save"]
               f2 == [f1 EXCEPT ![p].row.user = e.by]
               f3 == [f2 EXCEPT ![p].row.status = "active"]
    <3>1. req' = f3
      BY <2>1
    <3>2. f1 = [req EXCEPT ![p] = e1]
      BY <1>2 DEF e1
    <3>3. req \in [Handler -> Errand]
      BY <1>1 DEF AccessTypes
    <3> HIDE DEF n, f1
    <3>4. f1 \in [Handler -> Errand] /\ f1[p] = e1
      BY <2>6, <3>2, <3>3
    <3>5. f2 = [f1 EXCEPT ![p] = e2]
      BY <2>8, <3>4
    <3> HIDE DEF f2
    <3>6. f2 = [req EXCEPT ![p] = e2] /\ f2 \in [Handler -> Errand] /\ f2[p] = e2
      BY <2>6, <2>7, <3>2, <3>3, <3>4, <3>5, Overwritten
    <3>7. f3 = [f2 EXCEPT ![p] = n]
      BY <2>9, <3>6
    <3> HIDE DEF f3
    <3> QED
      BY <2>3, <2>7, <3>1, <3>3, <3>6, <3>7, Overwritten
  <2> HIDE DEF n
  <2>5. ErrandHolds(n)'
    BY <1>3, <1>4, <2>2, <2>3 DEF ErrandHolds
  <2> QED
    BY <1>1, <1>3, <2>3, <2>4, <2>5, ReadStep
<1> QED
  BY <1>5, <1>6

\* The whole row is written back: whatever the membership has become, its owner accepted
\* an invite, or it has none, and a super admin's role was given to it.
LEMMA SaveStep == ASSUME AccessInv, NEW p \in Handler, SaveMember(p) PROVE AccessInv'
<1>1. /\ AccessTypes /\ audit \subseteq done /\ ErrandHolds(req[p])
      /\ \A u \in User : userRole[u] = "admin" => u \in joined
      /\ \A m \in Slot : RowHolds(member[m], m)
  BY DEF AccessInv
<1>2. PICK e \in Errand : e = req[p]
  BY <1>1 DEF AccessTypes
<1>3. /\ e.pc = "save" /\ e.op \in {"invite", "update", "revoke", "accept"}
      /\ UNCHANGED <<userRole, token, settings, joined, audit>>
      /\ e.op = "invite" => \E n \in Slot : NextSlot(n)
  BY <1>2 DEF SaveMember, At, adminVars
<1>4. ErrandHolds(e) /\ e.row \in Membership
  BY <1>1, <1>2 DEF Errand
<1>5. PICK row \in Membership :
        /\ row = IF e.op = "revoke" THEN [e.row EXCEPT !.status = "revoked"] ELSE e.row
        /\ row.user = e.row.user /\ row.role = e.row.role
        /\ e.op = "revoke" => row.status = "revoked"
  <2> DEFINE x == [e.row EXCEPT !.status = "revoked"]
  <2>1. x \in Membership /\ x.user = e.row.user /\ x.role = e.row.role /\ x.status = "revoked"
    BY <1>4 DEF Membership
  <2> QED
    BY <1>4, <2>1
<1>6. PICK m \in Slot : m = IF e.op = "invite" THEN CHOOSE n \in Slot : NextSlot(n) ELSE e.m
  BY <1>3, <1>4 DEF ErrandHolds
<1>7. PICK next \in {"userRole", "audit"} :
        next = IF e.op = "accept" \/ (e.op = "revoke" /\ row.user # NoUser)
               THEN "userRole" ELSE "audit"
  OBVIOUS
<1>8. \/ Leave(p) /\ UNCHANGED <<member, granted, done>>
      \/ /\ member' = [member EXCEPT ![m] = row]
         /\ granted' = IF e.super THEN granted \cup {m} ELSE granted
         /\ done' = done \cup {<<e.op, m>>}
         /\ \/ Leave(p)
            \/ ~(e.op = "update" /\ e.role = "keep")
               /\ req' = [req EXCEPT ![p].pc = next, ![p].m = m]
  BY <1>2, <1>5, <1>6, <1>7, Zenon DEF SaveMember
<1>9. CASE Leave(p) /\ UNCHANGED <<member, granted, done>>
  BY <1>1, <1>3, <1>9, LeaveStep
<1>10. ASSUME member' = [member EXCEPT ![m] = row],
              granted' = IF e.super THEN granted \cup {m} ELSE granted,
              done' = done \cup {<<e.op, m>>},
              NEW n \in Errand, req' = [req EXCEPT ![p] = n], ErrandHolds(n)'
       PROVE  AccessInv'
  <2>1. /\ member' \in [Slot -> Membership] /\ joined \subseteq joined'
        /\ granted \subseteq granted' /\ done \subseteq done' /\ audit' \subseteq done'
    BY <1>1, <1>3, <1>10 DEF AccessTypes
  <2>2. e.row.role = "super" => m \in granted'
    BY <1>3, <1>4, <1>6, <1>10, NoErrand DEF ErrandHolds
  <2>3. ASSUME NEW k \in Slot PROVE RowHolds(member[k], k)'
    BY <1>1, <1>3, <1>4, <1>5, <1>10, <2>1, <2>2 DEF RowHolds, AccessTypes, ErrandHolds
  <2> QED
    BY <1>1, <1>3, <1>10, <2>1, <2>3, StatementStep DEF AccessTypes
<1>11. ASSUME member' = [member EXCEPT ![m] = row],
              granted' = IF e.super THEN granted \cup {m} ELSE granted,
              done' = done \cup {<<e.op, m>>}
       PROVE  /\ Leave(p) => AccessInv'
              /\ req' = [req EXCEPT ![p].pc = next, ![p].m = m] => AccessInv'
  <2>1. CASE Leave(p)
    BY <1>10, <1>11, <2>1, NoErrand, NoErrandHolds DEF Leave
  <2>2. ASSUME req' = [req EXCEPT ![p].pc = next, ![p].m = m] PROVE AccessInv'
    <3> DEFINE n == [e EXCEPT !.pc = next, !.m = m]
    <3>1. /\ n \in Errand /\ n.pc = next /\ n.m = m /\ n.op = e.op /\ n.row = e.row
          /\ n.by = e.by /\ n.super = e.super /\ n.role = e.role
      BY Names DEF Errand
    <3>2. req' = [req EXCEPT ![p] = n]
      BY <1>1, <1>2, <2>2 DEF AccessTypes
    <3> HIDE DEF n
    <3>3. ErrandHolds(n)'
      BY <1>3, <1>4, <1>6, <1>11, <3>1 DEF ErrandHolds
    <3> QED
      BY <1>10, <1>11, <3>1, <3>2, <3>3
  <2> QED
    BY <2>1, <2>2
<1> QED
  BY <1>8, <1>9, <1>11

\* users.role becomes admin for the owner of a membership only.
LEMMA RoleStep == ASSUME AccessInv, NEW p \in Handler, SyncUserRole(p) PROVE AccessInv'
<1>1. /\ AccessTypes /\ audit \subseteq done /\ ErrandHolds(req[p])
      /\ \A u \in User : userRole[u] = "admin" => u \in joined
      /\ \A m \in Slot : RowHolds(member[m], m)
  BY DEF AccessInv
<1>2. PICK e \in Errand : e = req[p]
  BY <1>1 DEF AccessTypes
<1>3. /\ e.pc = "userRole"
      /\ UNCHANGED <<member, token, settings, granted, joined, done, audit>>
  BY <1>2 DEF SyncUserRole, At
<1>4. PICK l \in {"save", "audit"} : l = IF e.op = "update" THEN "save" ELSE "audit"
  OBVIOUS
<1> DEFINE n == [e EXCEPT !.pc = l]
<1>5. /\ n \in Errand /\ n.pc = l /\ n.m = e.m /\ n.op = e.op /\ n.row = e.row
      /\ n.by = e.by /\ n.super = e.super /\ n.role = e.role
  BY Names DEF Errand
<1>6. req' = [req EXCEPT ![p] = n]
  BY <1>1, <1>2, <1>4 DEF AccessTypes, SyncUserRole, Step
<1> HIDE DEF n
<1>7. ErrandHolds(n)'
  BY <1>1, <1>2, <1>3, <1>4, <1>5 DEF ErrandHolds
<1>8. /\ userRole' \in [User -> {"user", "admin"}]
      /\ \A u \in User : userRole'[u] = "admin" => userRole[u] = "admin" \/ u = e.row.user
  BY <1>1, <1>2 DEF SyncUserRole, AccessTypes
<1>9. \A u \in User : userRole'[u] = "admin" => u \in joined'
  BY <1>1, <1>2, <1>3, <1>8, AdminAssumption DEF ErrandHolds
<1>10. \A m \in Slot : RowHolds(member[m], m)'
  BY <1>1, <1>3 DEF RowHolds
<1> QED
  BY <1>1, <1>3, <1>5, <1>6, <1>7, <1>8, <1>9, <1>10, StatementStep DEF AccessTypes

\* The permissions of a role.
LEMMA GrantsStep == ASSUME AccessInv, NEW p \in Handler, SaveGrants(p) PROVE AccessInv'
<1>1. AccessTypes /\ audit \subseteq done /\ ErrandHolds(req[p])
  BY DEF AccessInv
<1>2. PICK e \in Errand : e = req[p]
  BY <1>1 DEF AccessTypes
<1>3. /\ e.op \in {"grants", "reset"} /\ Step(p, "audit") /\ done' = done \cup {<<e.op, 0>>}
      /\ UNCHANGED <<member, userRole, token, settings, granted, joined, audit>>
  BY <1>2 DEF SaveGrants
<1>4. e.m = 0
  BY <1>1, <1>2, <1>3 DEF ErrandHolds
<1> QED
  BY <1>2, <1>3, <1>4, MoveStep

\* The platform settings.
LEMMA SettingsStep ==
  ASSUME AccessInv, NEW p \in Handler, ReadSettings(p) \/ SaveSettings(p)
  PROVE  AccessInv'
<1>1. /\ AccessTypes /\ audit \subseteq done /\ ErrandHolds(req[p])
      /\ \A u \in User : userRole[u] = "admin" => u \in joined
      /\ \A m \in Slot : RowHolds(member[m], m)
  BY DEF AccessInv
<1>2. PICK e \in Errand : e = req[p]
  BY <1>1 DEF AccessTypes
<1>3. /\ e.op = "settings" /\ e.m = 0
      /\ UNCHANGED <<member, userRole, token, granted, joined, audit>>
  BY <1>1, <1>2 DEF ReadSettings, SaveSettings, ErrandHolds, adminVars
<1>4. CASE ReadSettings(p)
  <2>1. /\ UNCHANGED <<settings, done>>
        /\ req' = [req EXCEPT ![p].pc = "save", ![p].cfg = [s \in Section |-> @[s] \/ settings[s]]]
    BY <1>4 DEF ReadSettings, adminVars
  <2>2. PICK f \in Sections : f = [s \in Section |-> e.cfg[s] \/ settings[s]]
    <3>1. \A s \in Section : (e.cfg[s] \/ settings[s]) \in BOOLEAN
      OBVIOUS
    <3>2. [s \in Section |-> e.cfg[s] \/ settings[s]] \in [Section -> BOOLEAN]
      BY <3>1, Zenon
    <3> QED
      BY <3>2, Zenon DEF Sections
  <2> DEFINE n == [e EXCEPT !.pc = "save", !.cfg = f]
  <2>3. /\ n \in Errand /\ n.pc = "save" /\ n.m = e.m /\ n.op = e.op /\ n.row = e.row
        /\ n.by = e.by /\ n.super = e.super /\ n.role = e.role
    BY Names DEF Errand
  <2>4. req' = [req EXCEPT ![p] = n]
    BY <1>1, <1>2, <2>1, <2>2 DEF AccessTypes
  <2> HIDE DEF n
  <2>5. ErrandHolds(n)'
    BY <1>1, <1>2, <1>3, <2>1, <2>3 DEF ErrandHolds
  <2> QED
    BY <1>1, <1>3, <2>1, <2>3, <2>4, <2>5, ReadStep
<1>5. CASE SaveSettings(p)
  <2>1. /\ Step(p, "audit") /\ done' = done \cup {<<"settings", 0>>} /\ settings' = e.cfg
    BY <1>2, <1>5 DEF SaveSettings
  <2> DEFINE n == [e EXCEPT !.pc = "audit"]
  <2>3. /\ n \in Errand /\ n.pc = "audit" /\ n.m = e.m /\ n.op = e.op /\ n.row = e.row
        /\ n.by = e.by /\ n.super = e.super /\ n.role = e.role /\ e.cfg \in Sections
    BY Names DEF Errand
  <2>4. req' = [req EXCEPT ![p] = n]
    BY <1>1, <1>2, <2>1 DEF AccessTypes, Step
  <2> HIDE DEF n
  <2>5. ErrandHolds(n)'
    BY <1>1, <1>2, <1>3, <2>1, <2>3 DEF ErrandHolds
  <2>6. \A m \in Slot : RowHolds(member[m], m)'
    BY <1>1, <1>3 DEF RowHolds
  <2> QED
    BY <1>1, <1>3, <2>1, <2>3, <2>4, <2>5, <2>6, StatementStep DEF AccessTypes, Sections
<1> QED
  BY <1>4, <1>5

\* What is written to the audit trail was committed by the request that writes it.
LEMMA AuditStep == ASSUME AccessInv, NEW p \in Handler, RecordAudit(p) PROVE AccessInv'
<1>1. AccessTypes /\ audit \subseteq done /\ ErrandHolds(req[p])
  BY DEF AccessInv
<1>2. /\ audit' = audit \cup {<<req[p].op, req[p].m>>} /\ Leave(p) /\ req[p].pc = "audit"
      /\ UNCHANGED <<member, userRole, token, settings, granted, joined, done>>
  BY DEF RecordAudit, At, adminVars
<1>3. audit' \subseteq done'
  BY <1>1, <1>2 DEF ErrandHolds
<1> QED
  BY <1>2, <1>3, LeaveStep

\* Whatever two requests of administrators interleave and whichever statements fail:
\* stale rows that are saved carry no administrator who did not join, and no super admin
\* whose role nobody gave (updateAdmin, revoke, acceptInvite).
THEOREM AccessInvariant == AdminSpec => []AccessInv
<1>1. AdminInit => AccessInv
  BY AccessInitial
<1>2. AccessInv /\ [AdminNext]_adminAll => AccessInv'
  <2> SUFFICES ASSUME AccessInv, [AdminNext]_adminAll PROVE AccessInv'
    OBVIOUS
  <2>1. ASSUME NEW p \in Handler,
               \/ Requests(p) \/ Permit(p) \/ Find(p) \/ AssertCanAssignRole(p)
               \/ CountSupers(p) \/ CheckEmail(p) \/ CheckAlready(p) \/ SaveMember(p)
               \/ SyncUserRole(p) \/ SaveGrants(p) \/ ReadSettings(p) \/ SaveSettings(p)
               \/ RecordAudit(p)
        PROVE  AccessInv'
    BY <2>1, RequestsStep, PermitStep, FindStep, AssignStep, CountStep, EmailStep, AlreadyStep,
       SaveStep, RoleStep, GrantsStep, SettingsStep, AuditStep
  <2>2. ASSUME NEW p \in Handler, StatementFails(p) PROVE AccessInv'
    BY <2>2, LeaveStep DEF StatementFails, adminVars, AccessInv
  <2>3. ASSUME NEW u \in User, TokensIssued(u) PROVE AccessInv'
    BY <2>3 DEF TokensIssued, AccessInv, AccessTypes, RowHolds, ErrandHolds
  <2>4. CASE UNCHANGED adminAll
    BY <2>4 DEF adminAll, AccessInv, AccessTypes, RowHolds, ErrandHolds
  <2> QED
    BY <2>1, <2>2, <2>3, <2>4 DEF AdminNext
<1> QED
  BY <1>1, <1>2, PTL DEF AdminSpec

\* Nobody is an administrator without an accepted invite, nobody a super admin without a
\* super admin's doing, and the audit trail tells nothing that was not committed.
THEOREM AccessAccounted == AdminSpec => []AccessIsAccountable
<1>1. AccessInv => AccessIsAccountable
  BY DEF AccessInv, AccessIsAccountable, RowHolds
<1> QED
  BY <1>1, AccessInvariant, PTL

-----------------------------------------------------------------------------
(* The risk of an account                                                  *)

Tenths == 0 .. 10
Signals == [pendingText : Nat, rejectedText : Nat, pendingMedia : Nat, rejectedMedia : Nat,
            reasons : Nat, category : Tenths, nsfw : BOOLEAN]
AccountRow == [status : {"active", "suspended"}, bio : {"clear", "pending", "rejected"},
               deleted : BOOLEAN]

RiskTypes ==
  /\ signals \in Signals
  /\ reports \in [open : Nat, high : Nat, upheld : Nat]
  /\ account \in AccountRow

HeldBio(row) == IF row.bio = "clear" THEN 0 ELSE 1

\* A category score comes with a text that carries it, a label of nudity with a media that
\* has a reason, as the rejected ones and those pending ones have that are counted for it.
SignalsFit(s, held) ==
  /\ s.category > 0 => s.pendingText + s.rejectedText + held > 0
  /\ s.nsfw => s.rejectedMedia + s.reasons > 0
  /\ s.reasons <= s.pendingMedia

\* The severe reports are among the open ones.
RiskInv ==
  /\ RiskTypes
  /\ SignalsFit(signals, HeldBio(account))
  /\ reports.high <= reports.open

WithTexts(s, p, r, c) == [s EXCEPT !.pendingText = p, !.rejectedText = r, !.category = c]
WithMedia(s, p, r, k, l) ==
  [s EXCEPT !.pendingMedia = p, !.rejectedMedia = r, !.reasons = k, !.nsfw = l]

LEMMA TextsMove ==
  ASSUME NEW s \in Signals, NEW p \in Nat, NEW r \in Nat, NEW c \in Tenths
  PROVE  LET n == WithTexts(s, p, r, c)
         IN  /\ n \in Signals /\ n.pendingText = p /\ n.rejectedText = r /\ n.category = c
             /\ n.pendingMedia = s.pendingMedia /\ n.rejectedMedia = s.rejectedMedia
             /\ n.reasons = s.reasons /\ n.nsfw = s.nsfw
  BY DEF WithTexts, Signals

LEMMA MediaMove ==
  ASSUME NEW s \in Signals, NEW p \in Nat, NEW r \in Nat, NEW k \in Nat, NEW l \in BOOLEAN
  PROVE  LET n == WithMedia(s, p, r, k, l)
         IN  /\ n \in Signals /\ n.pendingMedia = p /\ n.rejectedMedia = r /\ n.reasons = k
             /\ n.nsfw = l /\ n.category = s.category
             /\ n.pendingText = s.pendingText /\ n.rejectedText = s.rejectedText
  BY DEF WithMedia, Signals

LEMMA ItemsAreCounted ==
  ASSUME RiskTypes
  PROVE  /\ PendingText \in Nat /\ RejectedText \in Nat
         /\ PendingItems \in Nat /\ RejectedItems \in Nat /\ HeldItems \in Nat
         /\ account.bio \in {"clear", "pending", "rejected"} /\ account.deleted \in BOOLEAN
         /\ PendingText + RejectedText = signals.pendingText + signals.rejectedText + HeldBio(account)
  BY DEF RiskTypes, Signals, AccountRow, PendingText, RejectedText, PendingItems, RejectedItems,
         HeldItems, HeldBio

LEMMA RiskInitial == RiskInit => RiskInv
  BY DEF RiskInit, RiskInv, RiskTypes, Signals, AccountRow, Tenths, SignalsFit, HeldBio

\* Texts that fit restore the invariant.
LEMMA TextsFit ==
  ASSUME RiskInv, NEW p \in Nat, NEW r \in Nat, NEW c \in Tenths, TextsBecome(p, r, c),
         c > 0 => p + r + HeldBio(account) > 0
  PROVE  RiskInv'
<1>1. PICK s \in Signals : s = signals
  BY DEF RiskInv, RiskTypes
<1> DEFINE n == WithTexts(s, p, r, c)
<1>2. signals' = n /\ UNCHANGED <<reports, account>>
  BY <1>1 DEF TextsBecome, WithTexts
<1>3. /\ n \in Signals /\ n.pendingText = p /\ n.rejectedText = r /\ n.category = c
      /\ n.pendingMedia = s.pendingMedia /\ n.rejectedMedia = s.rejectedMedia
      /\ n.reasons = s.reasons /\ n.nsfw = s.nsfw
  BY TextsMove
<1> HIDE DEF n
<1>4. SignalsFit(n, HeldBio(account))
  BY <1>1, <1>3 DEF RiskInv, SignalsFit
<1>5. HeldBio(account)' = HeldBio(account)
  BY <1>2 DEF HeldBio
<1>6. SignalsFit(signals, HeldBio(account))'
  BY <1>2, <1>4, <1>5 DEF SignalsFit
<1> QED
  BY <1>2, <1>3, <1>6 DEF RiskInv, RiskTypes

\* So do media that fit.
LEMMA MediaFit ==
  ASSUME RiskInv, NEW p \in Nat, NEW r \in Nat, NEW k \in Nat, NEW l \in BOOLEAN,
         MediaBecome(p, r, k, l), l => r + k > 0, k <= p
  PROVE  RiskInv'
<1>1. PICK s \in Signals : s = signals
  BY DEF RiskInv, RiskTypes
<1> DEFINE n == WithMedia(s, p, r, k, l)
<1>2. signals' = n /\ UNCHANGED <<reports, account>>
  BY <1>1 DEF MediaBecome, WithMedia
<1>3. /\ n \in Signals /\ n.pendingMedia = p /\ n.rejectedMedia = r /\ n.reasons = k
      /\ n.nsfw = l /\ n.category = s.category
      /\ n.pendingText = s.pendingText /\ n.rejectedText = s.rejectedText
  BY MediaMove
<1> HIDE DEF n
<1>4. SignalsFit(n, HeldBio(account))
  BY <1>1, <1>3 DEF RiskInv, SignalsFit
<1>5. HeldBio(account)' = HeldBio(account)
  BY <1>2 DEF HeldBio
<1>6. SignalsFit(signals, HeldBio(account))'
  BY <1>2, <1>4, <1>5 DEF SignalsFit
<1> QED
  BY <1>2, <1>3, <1>6 DEF RiskInv, RiskTypes

\* And a bio whose category score fits.
LEMMA BioFits ==
  ASSUME RiskInv, NEW bio \in {"clear", "pending", "rejected"}, NEW c \in Tenths,
         BioBecomes(bio, c),
         c > 0 => signals.pendingText + signals.rejectedText > 0 \/ bio # "clear"
  PROVE  RiskInv'
<1>1. PICK s \in Signals, row \in AccountRow : s = signals /\ row = account
  BY DEF RiskInv, RiskTypes
<1> DEFINE n == WithTexts(s, s.pendingText, s.rejectedText, c)
           a == [row EXCEPT !.bio = bio]
<1>2. a \in AccountRow /\ a.bio = bio
  BY DEF AccountRow
<1>3. signals' = n /\ account' = a /\ UNCHANGED reports
  BY <1>1 DEF BioBecomes, WithTexts, Signals
<1>4. s.pendingText \in Nat /\ s.rejectedText \in Nat
  BY DEF Signals
<1>5. /\ n \in Signals /\ n.pendingText = s.pendingText /\ n.rejectedText = s.rejectedText
      /\ n.category = c /\ n.pendingMedia = s.pendingMedia
      /\ n.rejectedMedia = s.rejectedMedia /\ n.reasons = s.reasons /\ n.nsfw = s.nsfw
  BY <1>4, TextsMove
<1> HIDE DEF n, a
<1>6. SignalsFit(n, HeldBio(a))
  BY <1>1, <1>2, <1>4, <1>5 DEF RiskInv, SignalsFit, HeldBio
<1>7. HeldBio(account)' = HeldBio(a)
  BY <1>3 DEF HeldBio
<1>8. SignalsFit(signals, HeldBio(account))'
  BY <1>3, <1>6, <1>7 DEF SignalsFit
<1> QED
  BY <1>2, <1>3, <1>5, <1>8 DEF RiskInv, RiskTypes

\* What the invariant says of the counts.
LEMMA SignalsNow ==
  ASSUME RiskInv
  PROVE  /\ signals.pendingText \in Nat /\ signals.rejectedText \in Nat
         /\ signals.pendingMedia \in Nat /\ signals.rejectedMedia \in Nat
         /\ signals.reasons \in Nat /\ signals.category \in Tenths /\ signals.nsfw \in BOOLEAN
         /\ HeldBio(account) \in 0 .. 1
         /\ signals.category > 0 =>
              signals.pendingText + signals.rejectedText + HeldBio(account) > 0
         /\ signals.nsfw => signals.rejectedMedia + signals.reasons > 0
         /\ signals.reasons <= signals.pendingMedia
  BY DEF RiskInv, RiskTypes, Signals, SignalsFit, HeldBio

\* A text is held, rejected or released.
LEMMA TextStep ==
  ASSUME RiskInv,
         \/ \E score \in {0, 7, 10} : HoldText(score)
         \/ RejectText \/ ReleaseText
  PROVE  RiskInv'
<1>1. PICK p \in Nat, r \in Nat, c \in Tenths, held \in 0 .. 1 :
        /\ p = signals.pendingText /\ r = signals.rejectedText /\ c = signals.category
        /\ held = HeldBio(account)
  BY SignalsNow
<1>2. c > 0 => p + r + held > 0
  BY <1>1, SignalsNow
<1>3. ASSUME NEW score \in {0, 7, 10}, HoldText(score)
      PROVE  RiskInv'
  <2>1. PICK d \in Tenths : d = AtLeast(score)
    BY <1>1 DEF AtLeast, Tenths
  <2>2. TextsBecome(p + 1, r, d)
    BY <1>1, <1>3, <2>1 DEF HoldText
  <2>3. p + 1 \in Nat /\ (d > 0 => p + 1 + r + HeldBio(account) > 0)
    BY <1>1
  <2> QED
    BY <2>2, <2>3, TextsFit
<1>4. CASE RejectText
  <2>1. p > 0 /\ TextsBecome(p - 1, r + 1, c)
    BY <1>1, <1>4 DEF RejectText
  <2>2. p - 1 \in Nat /\ r + 1 \in Nat /\ (c > 0 => p - 1 + (r + 1) + HeldBio(account) > 0)
    BY <1>1, <2>1
  <2> QED
    BY <2>1, <2>2, TextsFit
<1>5. CASE ReleaseText
  <2>1. PICK d \in Drops(PendingText + RejectedText - 1) :
          \/ p > 0 /\ TextsBecome(p - 1, r, d)
          \/ r > 0 /\ TextsBecome(p, r - 1, d)
    BY <1>1, <1>5 DEF ReleaseText
  <2>2. /\ PendingText \in Nat /\ RejectedText \in Nat
        /\ PendingText + RejectedText = p + r + held
    BY <1>1, ItemsAreCounted DEF RiskInv
  <2>3. d \in Tenths /\ (p + r + held - 1 = 0 => d = 0)
    <3>1. PICK rest : rest = PendingText + RejectedText - 1
      OBVIOUS
    <3>2. d \in {0, 7, 10} /\ (rest = 0 => d = 0)
      BY <3>1 DEF Drops
    <3>3. rest = p + r + held - 1
      BY <2>2, <3>1
    <3>4. d \in Tenths
      BY <3>2 DEF Tenths
    <3> QED
      BY <3>2, <3>3, <3>4
  <2>4. CASE p > 0 /\ TextsBecome(p - 1, r, d)
    <3>1. p - 1 \in Nat /\ (d > 0 => p - 1 + r + HeldBio(account) > 0)
      BY <1>1, <2>3, <2>4 DEF Tenths
    <3> QED
      BY <2>3, <2>4, <3>1, TextsFit
  <2>5. CASE r > 0 /\ TextsBecome(p, r - 1, d)
    <3>1. r - 1 \in Nat /\ (d > 0 => p + (r - 1) + HeldBio(account) > 0)
      BY <1>1, <2>3, <2>5 DEF Tenths
    <3> QED
      BY <2>3, <2>5, <3>1, TextsFit
  <2> QED
    BY <2>1, <2>4, <2>5
<1> QED
  BY <1>3, <1>4, <1>5

\* A bio is held, rejected or cleared.
LEMMA BioStep ==
  ASSUME RiskInv,
         \/ \E score \in {0, 7, 10} : HoldBio(score) \/ RejectBio(score)
         \/ ClearBio
  PROVE  RiskInv'
<1>1. /\ signals.pendingText \in Nat /\ signals.rejectedText \in Nat
      /\ signals.category \in Tenths
  BY SignalsNow
<1>2. ASSUME NEW d \in Drops(signals.pendingText + signals.rejectedText)
      PROVE  d \in Tenths /\ (d > 0 => signals.pendingText + signals.rejectedText > 0)
  BY <1>1 DEF Drops, Tenths
<1>3. ASSUME NEW score \in {0, 7, 10}, HoldBio(score)
      PROVE  RiskInv'
  <2>1. PICK d \in Drops(signals.pendingText + signals.rejectedText) :
          BioBecomes("pending", IF score > d THEN score ELSE d)
    BY <1>3 DEF HoldBio
  <2>2. PICK c \in Tenths : c = IF score > d THEN score ELSE d
    BY <1>2 DEF Tenths
  <2> QED
    BY <2>1, <2>2, BioFits
<1>4. ASSUME NEW score \in {0, 7, 10}, RejectBio(score)
      PROVE  RiskInv'
  <2>1. PICK c \in Tenths : c = AtLeast(score)
    BY <1>1 DEF AtLeast, Tenths
  <2>2. BioBecomes("rejected", c)
    BY <1>4, <2>1 DEF RejectBio
  <2> QED
    BY <2>2, BioFits
<1>5. CASE ClearBio
  <2>1. PICK d \in Drops(signals.pendingText + signals.rejectedText) : BioBecomes("clear", d)
    BY <1>5 DEF ClearBio
  <2> QED
    BY <1>2, <2>1, BioFits
<1> QED
  BY <1>3, <1>4, <1>5

\* A media is routed, rejected, fails its moderation or is released.
LEMMA MediaStep ==
  ASSUME RiskInv, NEW old \in {0, 1},
         \/ ReleaseMedia(old) \/ RouteAgain
         \/ \E nude \in BOOLEAN :
              RouteUpload(old, nude) \/ RejectMedia(old, nude) \/ FailModeration(old, nude)
  PROVE  RiskInv'
<1>1. PICK p \in Nat, r \in Nat, k \in Nat, l \in BOOLEAN :
        /\ p = signals.pendingMedia /\ r = signals.rejectedMedia
        /\ k = signals.reasons /\ l = signals.nsfw
  BY SignalsNow
<1>2. (l => r + k > 0) /\ k <= p
  BY <1>1, SignalsNow
<1>3. ASSUME IsPending(old), NEW kept \in Kept(old)
      PROVE  /\ p > 0 /\ k - old \in Nat /\ k - old <= p - 1 /\ p - 1 \in Nat
             /\ kept \in BOOLEAN /\ (kept => r + (k - old) > 0)
  <2>1. CASE old = 1
    <3>1. k > 0
      BY <1>1, <1>3, <2>1 DEF IsPending
    <3>2. kept \in BOOLEAN /\ (kept => r + k - 1 > 0)
      BY <1>1, <2>1 DEF Kept
    <3> QED
      BY <1>2, <2>1, <3>1, <3>2
  <2>2. CASE old = 0
    <3>1. k < p
      BY <1>1, <1>3, <2>2 DEF IsPending
    <3>2. kept \in BOOLEAN /\ (kept => r + k - 0 > 0)
      BY <1>1, <2>2 DEF Kept
    <3> QED
      BY <2>2, <3>1, <3>2
  <2> QED
    BY <2>1, <2>2
<1>4. ASSUME NEW nude \in BOOLEAN, RouteUpload(old, nude)
      PROVE  RiskInv'
  <2>1. /\ MediaBecome(p + 1, r, k + old, l \/ nude) /\ (nude => old = 1)
    BY <1>1, <1>4 DEF RouteUpload
  <2>2. /\ p + 1 \in Nat /\ k + old \in Nat /\ k + old <= p + 1 /\ (l \/ nude) \in BOOLEAN
    BY <1>2
  <2>3. l \/ nude => r + (k + old) > 0
    BY <1>2, <2>1
  <2> QED
    BY <2>1, <2>2, <2>3, MediaFit
<1>5. CASE RouteAgain
  <2>1. r > 0 /\ MediaBecome(p + 1, r - 1, k + 1, l)
    BY <1>1, <1>5 DEF RouteAgain
  <2>2. p + 1 \in Nat /\ r - 1 \in Nat /\ k + 1 \in Nat /\ k + 1 <= p + 1 /\ r - 1 + (k + 1) > 0
    BY <1>2, <2>1
  <2> QED
    BY <2>1, <2>2, MediaFit
<1>6. ASSUME NEW nude \in BOOLEAN, RejectMedia(old, nude)
      PROVE  RiskInv'
  <2>1. PICK kept \in Kept(old) : MediaBecome(p - 1, r + 1, k - old, kept \/ nude)
    BY <1>1, <1>6 DEF RejectMedia
  <2>2. /\ p - 1 \in Nat /\ r + 1 \in Nat /\ k - old \in Nat /\ k - old <= p - 1
        /\ (kept \/ nude) \in BOOLEAN /\ r + 1 + (k - old) > 0
    BY <1>3, <1>6 DEF RejectMedia
  <2> QED
    BY <2>1, <2>2, MediaFit
<1>7. ASSUME NEW nude \in BOOLEAN, FailModeration(old, nude)
      PROVE  RiskInv'
  <2>1. PICK kept \in Kept(old) : MediaBecome(p, r, k - old + 1, kept \/ nude)
    BY <1>1, <1>7 DEF FailModeration
  <2>2. /\ k - old + 1 \in Nat /\ k - old + 1 <= p
        /\ (kept \/ nude) \in BOOLEAN /\ r + (k - old + 1) > 0
    BY <1>3, <1>7 DEF FailModeration
  <2> QED
    BY <2>1, <2>2, MediaFit
<1>8. CASE ReleaseMedia(old)
  <2>1. CASE IsPending(old) /\ \E kept \in Kept(old) : MediaBecome(p - 1, r, k - old, kept)
    BY <1>3, <2>1, MediaFit
  <2>2. CASE r > 0 /\ \E kept \in Kept(1) : MediaBecome(p, r - 1, k, kept)
    <3>1. PICK kept \in Kept(1) : MediaBecome(p, r - 1, k, kept)
      BY <2>2
    <3>2. kept \in BOOLEAN /\ (kept => r + k - 1 > 0)
      BY <1>1 DEF Kept
    <3>3. r - 1 \in Nat /\ (kept => r - 1 + k > 0)
      BY <2>2, <3>2
    <3> QED
      BY <1>2, <3>1, <3>2, <3>3, MediaFit
  <2> QED
    BY <1>1, <1>8, <2>1, <2>2 DEF ReleaseMedia
<1> QED
  BY <1>4, <1>5, <1>6, <1>7, <1>8

LEMMA ReportStep ==
  ASSUME RiskInv, NEW high \in BOOLEAN,
         FileReport(high) \/ \E upheld \in BOOLEAN : CloseReport(high, upheld)
  PROVE  RiskInv'
<1>1. reports \in [open : Nat, high : Nat, upheld : Nat] /\ reports.high <= reports.open
  BY DEF RiskInv, RiskTypes
<1>2. reports' \in [open : Nat, high : Nat, upheld : Nat] /\ reports'.high <= reports'.open
  <2>1. CASE FileReport(high)
    <3>1. reports' = [open |-> reports.open + 1,
                      high |-> IF high THEN reports.high + 1 ELSE reports.high,
                      upheld |-> reports.upheld]
      BY <1>1, <2>1 DEF FileReport
    <3> QED
      BY <1>1, <3>1
  <2>2. ASSUME NEW upheld \in BOOLEAN, CloseReport(high, upheld)
        PROVE  reports' \in [open : Nat, high : Nat, upheld : Nat] /\ reports'.high <= reports'.open
    <3>1. reports' = [open |-> reports.open - 1,
                      high |-> IF high THEN reports.high - 1 ELSE reports.high,
                      upheld |-> IF upheld THEN reports.upheld + 1 ELSE reports.upheld]
      BY <1>1, <2>2 DEF CloseReport
    <3>2. IF high THEN reports.high > 0 ELSE reports.open > reports.high
      BY <2>2 DEF CloseReport
    <3> QED
      BY <1>1, <3>1, <3>2
  <2> QED
    BY <2>1, <2>2
<1>3. UNCHANGED <<signals, account>>
  BY DEF FileReport, CloseReport
<1> QED
  BY <1>2, <1>3 DEF RiskInv, RiskTypes, SignalsFit, HeldBio

LEMMA AccountStep ==
  ASSUME RiskInv, DeleteUser \/ \E status \in {"active", "suspended"} : SetStatus(status)
  PROVE  RiskInv'
  BY DEF RiskInv, RiskTypes, AccountRow, DeleteUser, SetStatus, SignalsFit, HeldBio

\* Whatever is held, routed, reviewed, released, reported and done to an account: a category
\* score comes with a text under moderation, a label of nudity with a media that is rejected
\* or pending with a reason, and severe reports are among the open ones.
THEOREM RiskInvariant == RiskSpec => []RiskInv
<1>1. RiskInv /\ UNCHANGED riskVars => RiskInv'
  BY DEF RiskInv, RiskTypes, riskVars, SignalsFit, HeldBio
<1>2. RiskInv /\ RiskNext => RiskInv'
  BY TextStep, BioStep, MediaStep, ReportStep, AccountStep DEF RiskNext
<1> QED
  BY <1>1, <1>2, RiskInitial, PTL DEF RiskSpec

ReportWeight == reports.open * 8 + reports.high * 10 + reports.upheld * 12

\* The figures of an account.
LEMMA RiskFigures ==
  ASSUME RiskInv
  PROVE  /\ PendingItems \in Nat /\ RejectedText \in Nat /\ signals.rejectedMedia \in Nat
         /\ signals.reasons \in Nat /\ signals.reasons <= PendingItems
         /\ RejectedItems = RejectedText + signals.rejectedMedia
         /\ signals.category \in 0 .. 10
         /\ signals.category > 0 => PendingItems - signals.reasons + RejectedText > 0
         /\ signals.nsfw => signals.rejectedMedia + signals.reasons > 0
         /\ reports.open \in Nat /\ reports.high \in Nat /\ reports.upheld \in Nat
         /\ reports.high <= reports.open /\ ReportWeight \in Nat
<1>1. /\ RiskTypes /\ PendingItems \in Nat /\ RejectedText \in Nat /\ PendingText \in Nat
      /\ PendingText + RejectedText = signals.pendingText + signals.rejectedText + HeldBio(account)
  BY ItemsAreCounted DEF RiskInv
<1>2. /\ signals.rejectedMedia \in Nat /\ signals.reasons \in Nat /\ signals.pendingMedia \in Nat
      /\ signals.category \in 0 .. 10 /\ signals.reasons <= signals.pendingMedia
      /\ signals.category > 0 => PendingText + RejectedText > 0
      /\ signals.nsfw => signals.rejectedMedia + signals.reasons > 0
  BY <1>1, SignalsNow DEF Tenths
<1>3. reports.open \in Nat /\ reports.high \in Nat /\ reports.upheld \in Nat
  BY <1>1 DEF RiskTypes
<1>4. /\ RejectedItems = RejectedText + signals.rejectedMedia
      /\ PendingItems = PendingText + signals.pendingMedia
  BY DEF RejectedItems, PendingItems
<1>5. signals.category > 0 => PendingItems - signals.reasons + RejectedText > 0
  BY <1>1, <1>2, <1>4
<1> QED
  BY <1>1, <1>2, <1>3, <1>4, <1>5 DEF RiskInv, ReportWeight

\* Both halves of the score are whole percents, and what each of them comes to.
LEMMA Halves ==
  ASSUME RiskInv, ~Suspended
  PROVE  /\ ContentTrust \in 0 .. 100 /\ AccountEnforcement \in 0 .. 100
         /\ ContentTrust <= PendingItems * 5 + RejectedText * 12 + signals.rejectedMedia * 18
                            + signals.category * 4 + (IF signals.nsfw THEN 15 ELSE 0)
         /\ RejectedItems \in 1 .. 2 => AccountEnforcement <= 40 + ReportWeight
         /\ RejectedItems = 0 => AccountEnforcement <= ReportWeight
                                   + (IF PendingItems >= 1 THEN 20 ELSE 0)
<1>1. /\ PendingItems \in Nat /\ RejectedText \in Nat /\ signals.rejectedMedia \in Nat
      /\ signals.category \in 0 .. 10 /\ ReportWeight \in Nat /\ RejectedItems \in Nat
      /\ reports.open \in Nat /\ reports.high \in Nat /\ reports.upheld \in Nat
  BY RiskFigures
<1>2. PICK x \in Nat : x = PendingItems * 5 + RejectedText * 12 + signals.rejectedMedia * 18
                           + signals.category * 4 + (IF signals.nsfw THEN 15 ELSE 0)
  BY <1>1
<1>3. ContentTrust = ClampScore(x)
  BY <1>2 DEF ContentTrust
<1>4. ContentTrust \in 0 .. 100 /\ ContentTrust <= x
  BY <1>3 DEF ClampScore
<1>5. PICK n \in Nat : /\ AccountEnforcement = ClampScore(n + ReportWeight)
                       /\ RejectedItems \in 1 .. 2 => n = 40
                       /\ RejectedItems = 0 => n = (IF PendingItems >= 1 THEN 20 ELSE 0)
  <2>1. CASE RejectedItems >= 3
    <3>1. AccountEnforcement
            = ClampScore(65 + reports.open * 8 + reports.high * 10 + reports.upheld * 12)
      BY <2>1 DEF AccountEnforcement
    <3>2. 65 + reports.open * 8 + reports.high * 10 + reports.upheld * 12 = 65 + ReportWeight
      BY <1>1 DEF ReportWeight
    <3> QED
      BY <1>1, <2>1, <3>1, <3>2
  <2>2. CASE RejectedItems \in 1 .. 2
    <3>1. AccountEnforcement = ClampScore(40 + ReportWeight)
      BY <1>1, <2>2 DEF AccountEnforcement, ReportWeight
    <3> QED
      BY <1>1, <2>2, <3>1
  <2>3. CASE RejectedItems = 0 /\ PendingItems >= 1
    <3>1. AccountEnforcement = ClampScore(20 + ReportWeight)
      BY <1>1, <2>3 DEF AccountEnforcement, ReportWeight
    <3> QED
      BY <1>1, <2>3, <3>1
  <2>4. CASE RejectedItems = 0 /\ ~(PendingItems >= 1)
    <3>1. AccountEnforcement = ClampScore(0 + ReportWeight)
      BY <1>1, <2>4 DEF AccountEnforcement, ReportWeight
    <3> QED
      BY <1>1, <2>4, <3>1
  <2> QED
    BY <1>1, <2>1, <2>2, <2>3, <2>4
<1>6. PICK w \in Nat : w = ReportWeight
  BY <1>1
<1>7. AccountEnforcement \in 0 .. 100 /\ AccountEnforcement <= n + w
  BY <1>5, <1>6 DEF ClampScore
<1> QED
  BY <1>1, <1>2, <1>4, <1>5, <1>6, <1>7

\* What a score of k says of the halves.
LEMMA ScoreReached ==
  ASSUME RiskInv, ~Suspended, NEW k \in 0 .. 100
  PROVE  /\ ScoreUser \in Nat
         /\ ScoreUser >= k => ContentTrust * 65 + AccountEnforcement * 35 >= k * 100 - 50
<1>1. PICK ct \in 0 .. 100, ae \in 0 .. 100 : ct = ContentTrust /\ ae = AccountEnforcement
  BY Halves
<1>2. ScoreUser = ClampScore((2 * (ct * 65 + ae * 35) + 100) \div 200)
  BY <1>1 DEF ScoreUser, Round
<1>3. PICK d \in Nat : d = (2 * (ct * 65 + ae * 35) + 100) \div 200
  BY <1>1
<1>4. d * 200 <= 2 * (ct * 65 + ae * 35) + 100
  BY <1>1, <1>3
<1>5. ScoreUser \in Nat /\ ScoreUser <= d
  BY <1>2, <1>3 DEF ClampScore
<1> QED
  BY <1>1, <1>4, <1>5

\* How far below two plain open reports the proxy of a high score may be.
ProxyShows == RiskProxy > 16 \/ (RiskProxy = 15 /\ PendingItems = 3 /\ signals.reasons > 0)

\* Reports alone never make a score high, and what else does weighs more than two of them,
\* or is three pending items with a reason.
LEMMA HighScores ==
  ASSUME RiskInv, ~Suspended, ScoreUser >= 50
  PROVE  PendingItems + RejectedItems > 0 /\ ProxyShows
<1>1. ContentTrust * 65 + AccountEnforcement * 35 >= 4950
  BY ScoreReached
<1>2. PICK ct \in 0 .. 100, ae \in 0 .. 100 : ct = ContentTrust /\ ae = AccountEnforcement
  BY Halves
<1>3. PICK p \in Nat, t \in Nat, m \in Nat, k \in Nat, c \in 0 .. 10, w \in Nat :
        /\ p = PendingItems /\ t = RejectedText /\ m = signals.rejectedMedia
        /\ k = signals.reasons /\ c = signals.category /\ w = ReportWeight
  BY RiskFigures
<1>4. PICK ns \in {0, 15} : ns = (IF signals.nsfw THEN 15 ELSE 0)
  OBVIOUS
<1>5. /\ RejectedItems = t + m /\ (ns = 15 => m + k > 0) /\ (c > 0 => p - k + t > 0)
      /\ k <= p
  BY <1>3, <1>4, RiskFigures
<1>6. ct <= p * 5 + t * 12 + m * 18 + c * 4 + ns
  BY <1>2, <1>3, <1>4, Halves
<1>7. /\ t + m \in 1 .. 2 => ae <= 40 + w
      /\ t + m = 0 => ae <= w + (IF p >= 1 THEN 20 ELSE 0)
  BY <1>2, <1>3, <1>5, Halves
<1>8. ct * 65 + ae * 35 >= 4950
  BY <1>1, <1>2
<1>9. PICK o \in Nat, h \in Nat, u \in Nat : o = reports.open /\ h = reports.high /\ u = reports.upheld
  BY RiskFigures
<1>10. w = o * 8 + h * 10 + u * 12
  BY <1>3, <1>9 DEF ReportWeight
<1>11. w = 0 \/ w >= 8
  BY <1>10
<1>12. p + t + m > 0
  BY <1>5, <1>6, <1>8
<1>13. PICK x \in Nat : x = (t + m) * 12 + p * 5 + (IF m > 0 THEN 18 ELSE 0)
                            + (IF t + m >= 3 THEN 20 ELSE 0) + w
  OBVIOUS
<1>14. RiskProxy = ClampScore(x)
  <2>1. RiskProxy = ClampScore(0 + (t + m) * 12 + p * 5 + (IF m > 0 THEN 18 ELSE 0)
                               + (IF t + m >= 3 THEN 20 ELSE 0) + o * 8 + h * 10 + u * 12)
    BY <1>3, <1>5, <1>9 DEF RiskProxy
  <2>2. x = 0 + (t + m) * 12 + p * 5 + (IF m > 0 THEN 18 ELSE 0)
            + (IF t + m >= 3 THEN 20 ELSE 0) + o * 8 + h * 10 + u * 12
    BY <1>13, <1>10
  <2> QED
    BY <2>1, <2>2
<1>15. x > 16 \/ (x = 15 /\ p = 3 /\ k > 0)
  <2>1. CASE m > 0
    BY <1>13, <2>1
  <2>2. CASE m = 0 /\ t >= 2
    BY <1>13, <2>2
  <2>3. CASE m = 0 /\ t = 1
    BY <1>5, <1>6, <1>7, <1>8, <1>13, <2>3
  <2>4. CASE m = 0 /\ t = 0
    <3>1. p >= 1 /\ ae <= 20 + w
      BY <1>7, <1>12, <2>4
    <3>2. 65 * ct >= 4250 - 35 * w
      BY <1>8, <3>1
    <3>3. CASE w = 0
      <4>1. ct >= 66
        BY <3>2, <3>3
      <4>2. p * 5 + 40 + ns >= 66
        BY <1>6, <2>4, <4>1
      <4>3. p >= 3 /\ (p <= 5 => ns = 15)
        BY <4>2
      <4>4. p = 3 => k > 0
        BY <1>5, <2>4, <4>3
      <4> QED
        BY <1>13, <2>4, <3>3, <4>3, <4>4
    <3>4. CASE w >= 8 /\ p >= 2
      BY <1>13, <2>4, <3>4
    <3>5. CASE w >= 8 /\ p = 1
      <4>1. c = 0 \/ ns = 0
        BY <1>5, <2>4, <3>5
      <4>2. ct <= 45
        BY <1>6, <2>4, <3>5, <4>1
      <4>3. w >= 12
        BY <3>2, <4>2
      <4> QED
        BY <1>13, <2>4, <3>5, <4>3
    <3> QED
      BY <1>11, <3>1, <3>3, <3>4, <3>5
  <2> QED
    BY <2>1, <2>2, <2>3, <2>4
<1> QED
  BY <1>3, <1>5, <1>12, <1>14, <1>15 DEF ClampScore, ProxyShows

\* A score that is not low has a cause.
LEMMA ScoresHaveCauses ==
  ASSUME RiskInv, ~Suspended, ScoreUser >= 25
  PROVE  \/ PendingItems > 0 \/ RejectedText > 0 \/ signals.rejectedMedia > 0
         \/ reports.open >= 1 \/ reports.upheld >= 2
<1> SUFFICES ASSUME PendingItems = 0, RejectedText = 0, signals.rejectedMedia = 0,
                    reports.open = 0, reports.upheld \in 0 .. 1
             PROVE  FALSE
  BY RiskFigures
<1>1. ContentTrust * 65 + AccountEnforcement * 35 >= 2450
  BY ScoreReached
<1>2. PICK ct \in 0 .. 100, ae \in 0 .. 100 : ct = ContentTrust /\ ae = AccountEnforcement
  BY Halves
<1>3. RejectedItems = 0 /\ signals.category = 0 /\ ~signals.nsfw /\ reports.high = 0
  BY RiskFigures
<1>4. ReportWeight \in 0 .. 12
  BY <1>3 DEF ReportWeight
<1>5. ae <= ReportWeight
  BY <1>2, <1>3, <1>4, Halves
<1>6. ct <= 0
  BY <1>2, <1>3, Halves
<1> QED
  BY <1>1, <1>2, <1>4, <1>5, <1>6

LEMMA Labels ==
  ASSUME NEW score \in Nat
  PROVE  /\ RiskLabelFromScore(score) = "critical" <=> score >= 75
         /\ RiskLabelFromScore(score) \in {"high", "critical"} <=> score >= 50
         /\ RiskLabelFromScore(score) # "low" <=> score >= 25
<1>1. CASE score >= 75
  BY <1>1 DEF RiskLabelFromScore
<1>2. CASE score \in 50 .. 74
  BY <1>2 DEF RiskLabelFromScore
<1>3. CASE score \in 25 .. 49
  BY <1>3 DEF RiskLabelFromScore
<1>4. CASE score < 25
  BY <1>4 DEF RiskLabelFromScore
<1> QED
  BY <1>1, <1>2, <1>3, <1>4

\* A suspended account scores 80 or more.
LEMMA SuspendedScores ==
  ASSUME RiskInv, Suspended
  PROVE  ScoreUser \in Nat /\ ScoreUser >= 80 /\ ProxyShows
<1>1. PICK x \in Nat : x = PendingItems * 5 + RejectedText * 12 + signals.rejectedMedia * 18
                           + signals.category * 4 + (IF signals.nsfw THEN 15 ELSE 0)
  BY RiskFigures
<1>2. ContentTrust = ClampScore(x)
  BY <1>1 DEF ContentTrust
<1>3. PICK y \in Nat : y = 85 + reports.open * 8 + reports.high * 10 + reports.upheld * 12
  BY RiskFigures
<1>4. AccountEnforcement = ClampScore(y)
  BY <1>3 DEF AccountEnforcement
<1>5. PICK ct \in Nat, ae \in Nat : ct = ContentTrust /\ ae = AccountEnforcement
  BY <1>2, <1>4 DEF ClampScore
<1>6. PICK d \in Nat : d = (2 * (ct * 65 + ae * 35) + 100) \div 200
  BY <1>5
<1>7. ScoreUser = IF ClampScore(d) < 80 THEN 80 ELSE ClampScore(d)
  BY <1>5, <1>6 DEF ScoreUser, Round
<1>8. PICK z \in Nat : z = 40 + RejectedItems * 12 + PendingItems * 5
             + (IF signals.rejectedMedia > 0 THEN 18 ELSE 0)
             + (IF RejectedItems >= 3 THEN 20 ELSE 0)
             + reports.open * 8 + reports.high * 10 + reports.upheld * 12
  BY RiskFigures
<1>9. z >= 40 /\ RiskProxy = ClampScore(z)
  BY <1>8, RiskFigures DEF RiskProxy
<1> QED
  BY <1>6, <1>7, <1>8, <1>9 DEF ClampScore, ProxyShows

LEMMA ScoreIsNat ==
  ASSUME RiskInv PROVE ScoreUser \in Nat
  BY ScoreReached, SuspendedScores

\* What a label is shown with.
LEMMA LabelsAreShown ==
  ASSUME RiskInv
  PROVE  /\ ScoreUser >= 25 => BuildTriggers # {}
         /\ ScoreUser >= 50 => /\ ProxyShows
                               /\ Suspended \/ PendingItems + RejectedItems > 0
<1>1. ScoreUser >= 25 => \/ Suspended \/ PendingItems > 0 \/ RejectedText > 0
                         \/ signals.rejectedMedia > 0 \/ reports.open >= 1 \/ reports.upheld >= 2
  BY ScoresHaveCauses
<1>2. \/ Suspended \/ PendingItems > 0 \/ RejectedText > 0
      \/ signals.rejectedMedia > 0 \/ reports.open >= 1 \/ reports.upheld >= 2
      => BuildTriggers # {}
  BY DEF BuildTriggers
<1> QED
  BY <1>1, <1>2, HighScores, SuspendedScores

\* The lists and the counts ask for the same accounts.
LEMMA ListsAgree ==
  ASSUME RiskInv
  PROVE  /\ ~account.deleted /\ (Suspended \/ PendingItems + RejectedItems > 0)
              => IsCandidate /\ IsFlagged /\ AttentionReasons # {}
         /\ IsFlagged = ("flagged" \in Tabs) /\ IsUnderReview = ("under_review" \in Tabs)
         /\ IsFlagged = (AttentionReasons # {})
         /\ ~account.deleted => AttentionReasons = AttentionCounted
         /\ IsCandidate => ~account.deleted
<1>1. /\ signals \in Signals /\ account.bio \in {"clear", "pending", "rejected"}
      /\ account.deleted \in BOOLEAN
  BY DEF RiskInv, RiskTypes, AccountRow
<1>2. PICK pt \in Nat, rt \in Nat, pm \in Nat, rm \in Nat :
        /\ pt = signals.pendingText /\ rt = signals.rejectedText
        /\ pm = signals.pendingMedia /\ rm = signals.rejectedMedia
  BY <1>1 DEF Signals
<1>3. /\ PendingItems > 0 <=> pt + pm > 0 \/ account.bio = "pending"
      /\ RejectedItems > 0 <=> rt + rm > 0 \/ account.bio = "rejected"
      /\ PendingItems \in Nat /\ RejectedItems \in Nat
  BY <1>1, <1>2 DEF PendingItems, RejectedItems, PendingText, RejectedText
<1>4. IsFlagged <=> ~account.deleted /\ (Suspended \/ PendingItems > 0 \/ RejectedItems > 0)
  BY <1>1, <1>2, <1>3 DEF IsFlagged, Flagged
<1>5. IsUnderReview <=> ~account.deleted /\ PendingItems > 0
  BY <1>2, <1>3 DEF IsUnderReview
<1>6. /\ "flagged" \in Tabs <=> ~account.deleted /\ (Suspended \/ PendingItems > 0 \/ RejectedItems > 0)
      /\ "under_review" \in Tabs <=> ~account.deleted /\ PendingItems > 0
  BY DEF Tabs
<1>7. AttentionReasons # {} <=> ~account.deleted /\ (Suspended \/ PendingItems > 0 \/ RejectedItems > 0)
  BY <1>2, <1>3 DEF AttentionReasons
<1>8. ~account.deleted => AttentionReasons = AttentionCounted
  BY DEF AttentionReasons, AttentionCounted
<1>9. IsCandidate <=>
        ~account.deleted /\ (Suspended \/ PendingItems > 0 \/ RejectedItems > 0 \/ reports.open > 0)
  BY DEF IsCandidate
<1>10. IsFlagged \in BOOLEAN /\ IsUnderReview \in BOOLEAN
  BY DEF IsFlagged, Flagged, IsUnderReview
<1> QED
  BY <1>3, <1>4, <1>5, <1>6, <1>7, <1>8, <1>9, <1>10

\* The tiles, the profile and the feed count the same items.
LEMMA CountsAgree ==
  ASSUME RiskInv
  PROVE  /\ PlatformPending <= PendingTile /\ PlatformRejected <= RejectedTile
         /\ ~account.deleted =>
              /\ PendingTile = PlatformPending /\ RejectedTile = PlatformRejected
              /\ Profile.pending + Profile.rejected = PendingTile + RejectedTile
              /\ ModerationFeed(50) = Cut(Profile.history + reports.open, 50)
              /\ TrustIntegrity = (PendingTile + RejectedTile > 0)
              /\ IsFlagged = (Suspended \/ TrustIntegrity)
              /\ Profile.strikes >= 2 => "repeat_offender" \in BuildTriggers
<1>1. /\ signals \in Signals /\ account.bio \in {"clear", "pending", "rejected"}
      /\ account.deleted \in BOOLEAN /\ reports.open \in Nat /\ reports.upheld \in Nat
  BY DEF RiskInv, RiskTypes, AccountRow
<1>2. PICK pt \in Nat, rt \in Nat, pm \in Nat, rm \in Nat, open \in Nat :
        /\ pt = signals.pendingText /\ rt = signals.rejectedText
        /\ pm = signals.pendingMedia /\ rm = signals.rejectedMedia /\ open = reports.open
  BY <1>1 DEF Signals
<1>3. PICK bp \in 0 .. 1, br \in 0 .. 1 :
        /\ bp = (IF account.bio = "pending" THEN 1 ELSE 0)
        /\ br = (IF account.bio = "rejected" THEN 1 ELSE 0)
  OBVIOUS
<1>4. PendingItems = pt + bp + pm /\ RejectedItems = rt + br + rm
  BY <1>2, <1>3 DEF PendingItems, RejectedItems, PendingText, RejectedText
<1>5. HeldItems = pt + bp + pm + rt + br + rm
  BY <1>4 DEF HeldItems
<1>6. account.bio # "clear" <=> bp + br > 0
  BY <1>1, <1>3
<1>7. CASE account.deleted
  <2>1. PlatformPending = 0 /\ PlatformRejected = 0
    BY <1>7 DEF PlatformPending, PlatformRejected
  <2>2. PendingTile = pt + pm /\ RejectedTile = rt + rm
    BY <1>2, <1>7 DEF PendingTile, RejectedTile, BioIs
  <2> QED
    BY <1>7, <2>1, <2>2
<1>8. CASE ~account.deleted
  <2>1. PendingTile = pt + pm + bp /\ RejectedTile = rt + rm + br
    BY <1>2, <1>3, <1>8 DEF PendingTile, RejectedTile, BioIs
  <2>2. PlatformPending = PendingTile /\ PlatformRejected = RejectedTile
    BY <1>4, <1>8, <2>1 DEF PlatformPending, PlatformRejected
  <2>3. TrustIntegrity <=> PendingTile + RejectedTile > 0
    BY <1>2, <1>6, <1>8, <2>1 DEF TrustIntegrity
  <2>4. IsFlagged <=> Suspended \/ TrustIntegrity
    BY <1>2, <1>8 DEF IsFlagged, Flagged, TrustIntegrity
  <2>5. FeedItems = HeldItems + open
    <3>1. (IF ~account.deleted /\ account.bio # "clear" THEN 1 ELSE 0) = bp + br
      BY <1>1, <1>3, <1>8
    <3> QED
      BY <1>2, <1>5, <3>1 DEF FeedItems
  <2>6. ModerationFeed(50) = Cut(Profile.history + reports.open, 50)
    <3>1. PICK held \in Nat : held = HeldItems
      BY <1>5
    <3>2. Profile.history = Cut(held, 50)
      BY <3>1 DEF Profile, ModerationHistory
    <3>3. ModerationFeed(50) = Cut(held + open, 50)
      BY <2>5, <3>1 DEF ModerationFeed
    <3>4. Cut(held + open, 50) = Cut(Cut(held, 50) + open, 50)
      BY DEF Cut
    <3> QED
      BY <1>2, <3>2, <3>3, <3>4
  <2>7. Profile.pending + Profile.rejected = PendingTile + RejectedTile
    BY <1>4, <2>1 DEF Profile
  <2>8. Profile.strikes >= 2 => "repeat_offender" \in BuildTriggers
    BY DEF Profile, BuildTriggers
  <2>9. TrustIntegrity \in BOOLEAN /\ IsFlagged \in BOOLEAN
    BY DEF TrustIntegrity, IsFlagged, Flagged
  <2> QED
    BY <1>8, <2>1, <2>2, <2>3, <2>4, <2>6, <2>7, <2>8, <2>9
<1> QED
  BY <1>1, <1>7, <1>8

\* An active signal has its trigger, and its account is listed.
LEMMA SignalsHaveTriggers ==
  ASSUME RiskInv, NEW posts \in 0 .. signals.rejectedText, NEW nude \in NudeAmongRejected,
         NEW s \in ActiveSignals(posts, nude)
  PROVE  /\ ~account.deleted => IsCandidate
         /\ IF s = "rejected_item" THEN BuildTriggers \cap {"rejected_content", "media_nsfw"} # {}
            ELSE s \in BuildTriggers
<1>1. PICK rt \in Nat, rm \in Nat : rt = signals.rejectedText /\ rm = signals.rejectedMedia
  BY DEF RiskInv, RiskTypes, Signals
<1>2. PICK p \in 0 .. rt : p = posts
  BY <1>1
<1>3. RejectedText \in Nat /\ RejectedText >= rt /\ RejectedItems = RejectedText + rm
  BY <1>1, RiskFigures DEF RejectedText, RejectedItems
<1>4. nude => rm > 0
  BY <1>1 DEF NudeAmongRejected
<1>5. CASE s = "rejected_item"
  <2>1. p + rm > 0
    BY <1>1, <1>2, <1>5 DEF ActiveSignals, ModerationSignals
  <2>2. RejectedItems > 0 /\ (RejectedText > 0 \/ rm > 0)
    BY <1>2, <1>3, <2>1
  <2>3. BuildTriggers \cap {"rejected_content", "media_nsfw"} # {}
    BY <1>1, <2>2 DEF BuildTriggers
  <2> QED
    BY <1>5, <2>2, <2>3 DEF IsCandidate
<1>6. CASE s = "media_nsfw"
  <2>1. rm > 0
    BY <1>4, <1>6 DEF ActiveSignals, ModerationSignals
  <2>2. RejectedItems > 0 /\ "media_nsfw" \in BuildTriggers
    BY <1>1, <1>3, <2>1 DEF BuildTriggers
  <2> QED
    BY <1>6, <2>2 DEF IsCandidate
<1>7. CASE s = "repeat_offender"
  <2>1. p + rm >= 3
    BY <1>1, <1>2, <1>7 DEF ActiveSignals, ModerationSignals
  <2>2. RejectedItems >= 3 /\ RejectedItems > 0
    BY <1>2, <1>3, <2>1
  <2> QED
    BY <1>7, <2>2 DEF IsCandidate, BuildTriggers
<1>8. CASE s = "suspended"
  BY <1>8 DEF ActiveSignals, ModerationSignals, IsCandidate, BuildTriggers
<1> QED
  BY <1>5, <1>6, <1>7, <1>8 DEF ActiveSignals, ModerationSignals

\* An account flagged today is flagged.
LEMMA AlertsAreFlagged ==
  ASSUME RiskInv, NEW text \in 0 .. signals.pendingText + signals.rejectedText,
         NEW media \in 0 .. signals.pendingMedia + signals.rejectedMedia, NEW bio \in BOOLEAN,
         IsNewAlert(text, media, bio)
  PROVE  IsFlagged
<1>1. PICK t \in Nat, m \in Nat : /\ t = signals.pendingText + signals.rejectedText
                                  /\ m = signals.pendingMedia + signals.rejectedMedia
  BY SignalsNow
<1>2. text + media > 0 => t > 0 \/ m > 0
  BY <1>1
<1> QED
  BY <1>1, <1>2 DEF IsNewAlert, IsFlagged, Flagged

LEMMA RoundIsNat ==
  ASSUME NEW n \in Nat, NEW d \in Nat \ {0}
  PROVE  Round(n, d) \in Nat
  BY DEF Round

\* The index of a platform of one account.
LEMMA IndexFollows ==
  ASSUME RiskInv, NEW passed \in Nat
  PROVE  /\ IsFlagged => PlatformIndex(passed) > 0
         /\ IsCandidate /\ ScoreUser >= 75 => PlatformIndex(passed) \in Nat /\ PlatformIndex(passed) >= 50
<1> DEFINE one(b) == IF b THEN 1 ELSE 0
           users == IF account.deleted THEN 0 ELSE 1
<1>1. PICK worst \in Nat : worst = (IF IsCandidate THEN ScoreUser ELSE 0)
  BY ScoreIsNat
<1>2. ASSUME NEW b \in {0, 1}, NEW u \in {0, 1}
      PROVE  PercentageOf(b, u) \in Nat /\ (u = 1 /\ b = 1 => PercentageOf(b, u) = 1000)
  BY DEF PercentageOf, Round
<1>3. PICK flagged \in Nat, suspended \in Nat :
        /\ flagged = PercentageOf(one(IsFlagged), users)
        /\ suspended = PercentageOf(one(~account.deleted /\ Suspended), users)
        /\ IsFlagged => flagged = 1000
  <2>1. IsFlagged => users = 1
    BY DEF IsFlagged, Flagged
  <2>2. one(IsFlagged) \in {0, 1} /\ one(~account.deleted /\ Suspended) \in {0, 1} /\ users \in {0, 1}
    OBVIOUS
  <2> QED
    BY <1>2, <2>1, <2>2
<1>4. PICK pending \in Nat, rejected \in Nat :
        /\ pending = PercentageOf(PlatformPending, AllItems(passed))
        /\ rejected = PercentageOf(PlatformRejected, AllItems(passed))
  <2>1. PlatformPending \in Nat /\ PlatformRejected \in Nat /\ AllItems(passed) \in Nat
    BY ItemsAreCounted DEF RiskInv, PlatformPending, PlatformRejected, AllItems
  <2>2. ASSUME NEW n \in Nat, NEW t \in Nat PROVE PercentageOf(n, t) \in Nat
    BY RoundIsNat DEF PercentageOf
  <2> QED
    BY <2>1, <2>2
<1>5. PICK x \in Nat : x = worst * 550 + flagged * 20 + suspended * 15 + (pending + rejected) * 5
  OBVIOUS
<1>6. PlatformIndex(passed) = ClampScore(Round(x, 1000))
  BY <1>1, <1>3, <1>4, <1>5 DEF PlatformIndex
<1>7. PICK d \in Nat : d = Round(x, 1000)
  BY RoundIsNat
<1>8. x >= 20000 => d >= 20
  BY <1>7 DEF Round
<1>9. x >= 60000 => d >= 60
  BY <1>7 DEF Round
<1>10. PlatformIndex(passed) = ClampScore(d)
  BY <1>6, <1>7
<1>11. IsFlagged => x >= 20000
  BY <1>3, <1>5
<1>12. IsCandidate /\ ScoreUser >= 75 => worst >= 75 /\ IsFlagged
  <2>1. ScoreUser >= 75 => ScoreUser >= 50
    BY ScoreIsNat
  <2> QED
    BY <1>1, <2>1, LabelsAreShown, ListsAgree
<1>13. worst >= 75 /\ IsFlagged => x >= 60000
  BY <1>3, <1>5
<1> QED
  BY <1>8, <1>9, <1>10, <1>11, <1>12, <1>13 DEF ClampScore

\* Whatever is held, rejected, reported and done to an account, in any number and order: no
\* label without a reason, nobody of a high one out of the lists, and the screens agree
\* (scoreUser, listUsers, countFlaggedAccounts, getAttentionUsers, getOverview).
THEOREM RiskShown == RiskSpec => []RiskIsShown
<1>1. RiskInv => RiskIsShown
  <2> SUFFICES ASSUME RiskInv PROVE RiskIsShown
    OBVIOUS
  <2> DEFINE label == RiskLabelFromScore(ScoreUser)
  <2>1. /\ label = "critical" <=> ScoreUser >= 75
        /\ label \in {"high", "critical"} <=> ScoreUser >= 50
        /\ label # "low" <=> ScoreUser >= 25
    BY ScoreIsNat, Labels
  <2>2. /\ \A posts \in 0 .. signals.rejectedText, nude \in NudeAmongRejected :
             \A s \in ActiveSignals(posts, nude) :
               /\ ~account.deleted => IsCandidate
               /\ IF s = "rejected_item"
                  THEN BuildTriggers \cap {"rejected_content", "media_nsfw"} # {}
                  ELSE s \in BuildTriggers
        /\ \A text \in 0 .. signals.pendingText + signals.rejectedText,
              media \in 0 .. signals.pendingMedia + signals.rejectedMedia, bio \in BOOLEAN :
             IsNewAlert(text, media, bio) => IsFlagged
    BY SignalsHaveTriggers, AlertsAreFlagged
  <2>3. ASSUME NEW passed \in {0, 100}
        PROVE  /\ IsFlagged => PlatformIndex(passed) > 0
               /\ IsCandidate /\ label = "critical" =>
                    RiskLabelFromScore(PlatformIndex(passed)) \in {"high", "critical"}
    <3>1. /\ IsFlagged => PlatformIndex(passed) > 0
          /\ IsCandidate /\ ScoreUser >= 75 =>
               PlatformIndex(passed) \in Nat /\ PlatformIndex(passed) >= 50
      BY IndexFollows
    <3> QED
      BY <2>1, <3>1, Labels
  <2>4. ScreensAgree
    BY <2>2, <2>3, CountsAgree DEF ScreensAgree
  <2>5. Suspended => label = "critical"
    BY <2>1, SuspendedScores
  <2> QED
    BY <2>1, <2>4, <2>5, LabelsAreShown, ListsAgree DEF RiskIsShown, ProxyShows
<1> QED
  BY <1>1, RiskInvariant, PTL
====
