------------------------------ MODULE AuthGate -------------------------------
(***************************************************************************)
(* Who a request is taken to come from (auth/jwt.py).  A token is one that *)
(* the project signed and that is in date, a well-formed one that is not,  *)
(* a string that is no token, or none.  The result is the kind of claims   *)
(* the handler works with, or a refusal.                                   *)
(***************************************************************************)
Tokens == {"signed", "unsigned", "garbage", "none"}
Refusals == {"401", "503"}
ClaimKinds == {"verified", "unverified", "demo"}

(* environment is production or not; supabase_url is set or not. *)
Settings == [production : BOOLEAN, url : BOOLEAN]

(* demo_auth_enabled *)
DemoAuth(s) == ~s.production

(* Fault: demo authentication is not looked at when there is no key to check. *)
VerifyWithoutEnvironment(token, s) ==
    IF token = "none" THEN {"401"}
    ELSE IF ~s.url THEN {IF token = "garbage" THEN "401" ELSE "unverified"}
    ELSE IF token = "signed" THEN {"verified", "401"} ELSE {"401"}

(* verify_supabase_jwt: the results it may have.  The keys may be out of     *)
(* reach, which is a 401 for a good token too.                               *)
Verify(token, s) ==
    IF token = "none" THEN {"401"}
    ELSE IF ~s.url THEN
        {IF ~DemoAuth(s) THEN "503" ELSE IF token = "garbage" THEN "401" ELSE "unverified"}
    ELSE IF token = "signed" THEN {"verified", "401"} ELSE {"401"}

(* _token_from_request: the header first, then the cookie. *)
TokenFrom(header, cookie) == IF header # "none" THEN header ELSE cookie

(* Fault: the cookie was verified when it was set. *)
UserClaimsTrustingCookie(header, cookie, s) ==
    IF header = "none" /\ cookie # "none" THEN {"verified"}
    ELSE IF header # "none" THEN Verify(header, s)
    ELSE {IF DemoAuth(s) THEN "demo" ELSE "401"}

(* get_current_user_claims *)
UserClaims(header, cookie, s) ==
    LET token == TokenFrom(header, cookie) IN
    IF token # "none" THEN Verify(token, s)
    ELSE {IF DemoAuth(s) THEN "demo" ELSE "401"}
============================================================================
