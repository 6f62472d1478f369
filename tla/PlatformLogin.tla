--------------------------- MODULE PlatformLogin ---------------------------
(***************************************************************************)
(* The login of the command line at the hosted platform (credentials.ts).  *)
(* One file holds an access token and the refresh token it is renewed      *)
(* with; every renewal replaces the refresh token, on the platform first   *)
(* and in the file afterwards.  Commands run at the same time, ask the     *)
(* user to confirm an address, lose answers and are interrupted.           *)
(***************************************************************************)
EXTENDS Integers, FiniteSets, Sequences

CONSTANTS
  Users, Commands, NoLogin,
  MaxSessions,   \* bound: sessions the platform creates
  MaxRenewals,   \* bound: renewals of a session
  MaxInterrupts  \* bound: answers lost and commands interrupted

ASSUME PlatformAssumption ==
  /\ MaxSessions \in Nat /\ MaxRenewals \in Nat /\ MaxInterrupts \in Nat
  /\ NoLogin \notin [user : Users, session : Nat, refresh : Nat, verified : BOOLEAN]

VARIABLES
  file,      \* credentials.json
  cmd,       \* what each command does, and the login it holds
  sessions,  \* the platform: whose each session is and its refresh token
  verified,  \* users whose address is confirmed
  forgotten, \* sessions whose refresh token was replaced but reached nobody
  interrupts

loginVars == <<file, cmd, sessions, verified, forgotten, interrupts>>

Ids == 1 .. MaxSessions
Login == [user : Users, session : Ids, refresh : 0 .. MaxRenewals, verified : BOOLEAN]

Steps == {"idle", "loaded", "renewed", "checked", "answered", "prompt", "got", "confirmed", "runs"}

LoginTypeOK ==
  /\ file \in Login \cup {NoLogin}
  /\ cmd \in [Commands -> [at : Steps, held : Login \cup {NoLogin}]]
  /\ sessions \in Seq([user : Users, refresh : 0 .. MaxRenewals])
  /\ verified \subseteq Users
  /\ forgotten \subseteq Ids
  /\ interrupts \in 0 .. MaxInterrupts

LoginInit ==
  /\ file = NoLogin
  /\ cmd = [c \in Commands |-> [at |-> "idle", held |-> NoLogin]]
  /\ sessions = <<>>
  /\ verified \in SUBSET Users
  /\ forgotten = {}
  /\ interrupts = 0

Go(c, at, login) == cmd' = [cmd EXCEPT ![c] = [at |-> at, held |-> login]]
Held(c) == cmd[c].held

(* The user opens the link of the mail.                                    *)
ConfirmAddress(u) ==
  /\ u \notin verified
  /\ verified' = verified \cup {u}
  /\ UNCHANGED <<file, cmd, sessions, forgotten, interrupts>>

-----------------------------------------------------------------------------
(* register, login: the platform opens a session, the file is written, and *)
(* a user whose address is not confirmed is asked to do so.                *)
SignIn(c, u) ==
  /\ cmd[c].at = "idle" /\ Len(sessions) < MaxSessions
  /\ sessions' = Append(sessions, [user |-> u, refresh |-> 0])
  /\ Go(c, "answered", [user |-> u, session |-> Len(sessions) + 1, refresh |-> 0,
                        verified |-> u \in verified])
  /\ UNCHANGED <<file, verified, forgotten, interrupts>>

authFlow(c) ==
  /\ cmd[c].at = "answered"
  /\ file' = Held(c)
  /\ \/ ~Held(c).verified /\ Go(c, "prompt", Held(c))
     \/ Go(c, "idle", NoLogin)
  /\ UNCHANGED <<sessions, verified, forgotten, interrupts>>

LogOut(c) ==
  /\ cmd[c].at = "idle" /\ file # NoLogin
  /\ file' = NoLogin
  /\ UNCHANGED <<cmd, sessions, verified, forgotten, interrupts>>

-----------------------------------------------------------------------------
(* A command against the platform loads the file.                          *)
loadCredentials(c) ==
  /\ cmd[c].at = "idle" /\ file # NoLogin
  /\ Go(c, "loaded", file)
  /\ UNCHANGED <<file, sessions, verified, forgotten, interrupts>>

(* The platform renews a session for the refresh token it gave out last.   *)
Renews(login) ==
  sessions[login.session].refresh = login.refresh /\ login.refresh < MaxRenewals

Renewed(login) ==
  [login EXCEPT !.refresh = @ + 1, !.verified = login.user \in verified]

Replace(login) == sessions' = [sessions EXCEPT ![login.session].refresh = @ + 1]

(* A token that expires soon is renewed; a refused renewal ends the        *)
(* command, or lets it go on with what the file holds now, an answer that  *)
(* is lost with what it has.                                               *)
RenewOnStart(c) ==
  /\ cmd[c].at = "loaded"
  /\ \/ /\ Renews(Held(c)) /\ Replace(Held(c))
        /\ \/ Go(c, "renewed", Renewed(Held(c))) /\ UNCHANGED <<forgotten, interrupts>>
           \/ /\ interrupts < MaxInterrupts /\ interrupts' = interrupts + 1
              /\ forgotten' = forgotten \cup {Held(c).session}
              /\ Go(c, "checked", Held(c))
     \/ /\ ~Renews(Held(c))
        /\ Go(c, "idle", NoLogin) \/ (file # NoLogin /\ Go(c, "checked", file))
        /\ UNCHANGED <<sessions, forgotten, interrupts>>
     \/ Go(c, "checked", Held(c)) /\ UNCHANGED <<sessions, forgotten, interrupts>>
  /\ UNCHANGED <<file, verified>>

(* Mutant: the renewed access token is saved with the old refresh token.   *)
savedOldToken(login) == [login EXCEPT !.refresh = IF @ > 0 THEN @ - 1 ELSE 0]

(* What saveCredentials writes.                                            *)
saved(login) == login

(* The command goes on with the new access token, and with the refresh     *)
(* token it had read (creds), which has been replaced.                     *)
SaveRenewed(c) ==
  /\ cmd[c].at = "renewed"
  /\ file' = saved(Held(c))
  /\ Go(c, "checked", [Held(c) EXCEPT !.refresh = @ - 1])
  /\ UNCHANGED <<sessions, verified, forgotten, interrupts>>

(* With a confirmed address the command runs; at a terminal the user is    *)
(* asked to confirm it, otherwise the command fails.                       *)
ensureEmailVerified(c) ==
  /\ cmd[c].at = "checked"
  /\ \/ Held(c).verified /\ Go(c, "runs", Held(c))
     \/ ~Held(c).verified /\ Go(c, "prompt", Held(c))
     \/ ~Held(c).verified /\ Go(c, "idle", NoLogin)
  /\ UNCHANGED <<file, sessions, verified, forgotten, interrupts>>

(* Enter: the session is renewed to see whether the address is confirmed   *)
(* by now.  The tokens are kept in memory until it is.                     *)
PromptRenew(c) ==
  /\ cmd[c].at = "prompt" /\ Renews(Held(c))
  /\ Replace(Held(c))
  /\ \/ Go(c, IF Renewed(Held(c)).verified THEN "confirmed" ELSE "prompt", Renewed(Held(c)))
        /\ UNCHANGED <<forgotten, interrupts>>
     \/ /\ interrupts < MaxInterrupts /\ interrupts' = interrupts + 1
        /\ forgotten' = forgotten \cup {Held(c).session}
        /\ UNCHANGED cmd
  /\ UNCHANGED <<file, verified>>

SaveConfirmed(c) ==
  /\ cmd[c].at = "confirmed"
  /\ file' = saved(Held(c))
  /\ Go(c, "runs", Held(c))
  /\ UNCHANGED <<sessions, verified, forgotten, interrupts>>

(* A command that holds a token nobody else has gives it up.               *)
OnlyHere(c) ==
  Held(c) # NoLogin /\ Held(c).refresh = sessions[Held(c).session].refresh /\ Held(c) # file

(* Ctrl+C at the prompt, its tenth attempt, or the end of the process.     *)
GiveUp(c) ==
  /\ cmd[c].at \notin {"idle", "runs"}
  /\ cmd[c].at = "prompt" \/ interrupts < MaxInterrupts
  /\ interrupts' = IF cmd[c].at = "prompt" THEN interrupts ELSE interrupts + 1
  /\ forgotten' = IF OnlyHere(c) THEN forgotten \cup {Held(c).session} ELSE forgotten
  /\ Go(c, "idle", NoLogin)
  /\ UNCHANGED <<file, sessions, verified>>

Finish(c) ==
  /\ cmd[c].at = "runs"
  /\ Go(c, "idle", NoLogin)
  /\ UNCHANGED <<file, sessions, verified, forgotten, interrupts>>

LoginNext ==
  \/ \E u \in Users : ConfirmAddress(u)
  \/ \E c \in Commands :
       \/ \E u \in Users : SignIn(c, u)
       \/ authFlow(c) \/ LogOut(c) \/ loadCredentials(c)
       \/ RenewOnStart(c) \/ SaveRenewed(c) \/ ensureEmailVerified(c)
       \/ PromptRenew(c) \/ SaveConfirmed(c) \/ GiveUp(c) \/ Finish(c)

LoginSpec == LoginInit /\ [][LoginNext]_loginVars

-----------------------------------------------------------------------------
(* The refresh token in the file can be exchanged, except while a command  *)
(* that has renewed the session has yet to save it, or when the new token  *)
(* was lost: with an answer, with the process, or with a prompt that was   *)
(* left.  Commands that run at the same time do not spoil it.              *)
SavedLoginRenews ==
  file = NoLogin
  \/ file.session \in forgotten
  \/ file.refresh = sessions[file.session].refresh
  \/ \E c \in Commands : OnlyHere(c) /\ Held(c).session = file.session
=============================================================================
