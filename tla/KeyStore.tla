------------------------------ MODULE KeyStore ------------------------------
(***************************************************************************)
(* The RSA key pair of ot_server: gen_rsa_keypair (common/util/Utils.cpp), *)
(* the two files it keeps the pair in, and the clients that cache the      *)
(* public key when they start.                                             *)
(*                                                                         *)
(* The server calls gen_rsa_keypair twice as it starts, on one directory:  *)
(* in the constructor of OTServerService, whose pair it serves, and in the *)
(* constructor of OTServerController.  A file is written by fopen, which   *)
(* truncates it, fputs, which only fills a buffer, and fclose.             *)
(***************************************************************************)
EXTENDS Integers

CONSTANTS Clients,    \* the ot_client processes
          MaxCrashes  \* bound: the crashes of the server

ASSUME KeyAssumption == MaxCrashes \in Nat

VARIABLES
  server,  \* where ot_server stands
  call,    \* which of its two calls of gen_rsa_keypair it makes
  pair,    \* the pair RSA_generate_key returned last
  pub,     \* what the file of the public key holds
  pri,     \* what the file of the private key holds
  served,  \* the keys in memory that the server serves and decrypts with
  cached,  \* cached[c]: the public key client c encrypts with
  crashes, \* the crashes so far
  unread,  \* ghost: the last pair was made for files that exist but failed to open
  cut      \* ghost: a file or OpenSSL failed, or the process died with "id_rsa" open

keyVars == <<server, call, pair, pub, pri, served, cached, crashes, unread, cut>>

Pairs    == Nat \ {0}  \* in the order they are generated
Broken   == 0          \* bytes that are no key, or no bytes at all
Absent   == -1
KeyBytes == Pairs \cup {Broken}
NoKeys   == [pub |-> Broken, pri |-> Broken]

KeyTypeOK ==
  /\ server \in {"down", "open", "openPub", "closePub", "openPri", "closePri", "serving"}
  /\ call \in 1..2
  /\ pair \in Nat
  /\ pub \in KeyBytes \cup {Absent} /\ pri \in KeyBytes \cup {Absent}
  /\ served \in [pub: KeyBytes, pri: KeyBytes]
  /\ cached \in [Clients -> KeyBytes \cup {Absent}]
  /\ crashes \in 0..MaxCrashes
  /\ unread \in BOOLEAN /\ cut \in BOOLEAN

KeyInit ==
  /\ server = "open" /\ call = 1
  /\ pair = 0 /\ pub = Absent /\ pri = Absent
  /\ served = NoKeys
  /\ cached = [c \in Clients |-> Absent]
  /\ crashes = 0 /\ unread = FALSE /\ cut = FALSE

-----------------------------------------------------------------------------
(* gen_rsa_keypair *)

\* A call returns, whatever it returns: nobody looks at the result.
Return ==
  /\ server' = IF call = 1 THEN "open" ELSE "serving"
  /\ call' = 2

\* Only the first call fills the pointers of the sender that is served.
Hold(keys) == served' = IF call = 1 THEN keys ELSE served

\* Variant: one file is enough to read both.
EitherExists == pub # Absent \/ pri # Absent

BothExist == pub # Absent /\ pri # Absent

\* Variant: the files are read without a look at what fopen returned.
ReadUnchecked ==
  /\ server = "open"
  /\ Hold([pub |-> pub, pri |-> pri])
  /\ Return
  /\ UNCHANGED <<pair, pub, pri, cached, crashes, unread, cut>>

\* Both files can be opened.
ReadFiles ==
  /\ server = "open"
  /\ BothExist
  /\ Hold([pub |-> pub, pri |-> pri])
  /\ Return
  /\ UNCHANGED <<pair, pub, pri, cached, crashes, unread, cut>>

\* A file that is open cannot be read to its end: fread_all stops there.
ReadFails ==
  /\ server = "open"
  /\ BothExist
  /\ \E keys \in [pub: {pub, Broken}, pri: {pri, Broken}] : Hold(keys)
  /\ Return
  /\ cut' = TRUE
  /\ UNCHANGED <<pair, pub, pri, cached, crashes, unread>>

\* The call makes a pair, which its caller holds before it is on disk.
MakePair ==
  /\ pair' = pair + 1
  /\ Hold([pub |-> pair', pri |-> pair'])
  /\ server' = "openPub"
  /\ UNCHANGED <<call, pub, pri, cached, crashes>>

\* Variant: the files are not looked for.
GenerateAlways ==
  /\ server = "open"
  /\ MakePair
  /\ UNCHANGED <<unread, cut>>

\* One file missing is enough to make a new pair.  An fopen that fails on a
\* file that exists is taken for a missing one: both are then written over.
Generate ==
  /\ server = "open"
  /\ MakePair
  /\ unread' = BothExist
  /\ cut' = (cut \/ BothExist)

\* OpenSSL makes no pair, or no text of it: the pointers stay as they are.  The
\* first call leaves them null: the constructor of OTServerService dies of it,
\* or serves no key (a null pointer is dereferenced).
GenerateFails ==
  /\ server = "open"
  /\ \/ Return /\ cut' = TRUE
     \/ call = 1 /\ server' = "down" /\ UNCHANGED <<call, cut>>
  /\ UNCHANGED <<pair, pub, pri, served, cached, crashes, unread>>

\* fopen fails on a file to write: the call returns and the files stay as they are.
OpenFails ==
  /\ server \in {"openPub", "openPri"}
  /\ Return
  /\ cut' = TRUE
  /\ UNCHANGED <<pair, pub, pri, served, cached, crashes, unread>>

OpenPub ==
  /\ server = "openPub"
  /\ pub' = Broken
  /\ server' = "closePub"
  /\ UNCHANGED <<call, pair, pri, served, cached, crashes, unread, cut>>

\* What fputs and fclose return is not looked at either.
ClosePub ==
  /\ server = "closePub"
  /\ \/ pub' = pair /\ UNCHANGED cut
     \/ cut' = TRUE /\ UNCHANGED pub
  /\ server' = "openPri"
  /\ UNCHANGED <<call, pair, pri, served, cached, crashes, unread>>

OpenPri ==
  /\ server = "openPri"
  /\ pri' = Broken
  /\ server' = "closePri"
  /\ UNCHANGED <<call, pair, pub, served, cached, crashes, unread, cut>>

ClosePri ==
  /\ server = "closePri"
  /\ \/ pri' = pair /\ UNCHANGED cut
     \/ cut' = TRUE /\ UNCHANGED pri
  /\ Return
  /\ UNCHANGED <<pair, pub, served, cached, crashes, unread>>

-----------------------------------------------------------------------------
(* The processes *)

\* The files outlive the server; the directory is a volume of its container.
ServerCrash ==
  /\ server # "down"
  /\ crashes < MaxCrashes
  /\ crashes' = crashes + 1
  /\ server' = "down"
  /\ served' = NoKeys
  /\ cut' = (cut \/ server = "closePri")
  /\ UNCHANGED <<call, pair, pub, pri, cached, unread>>

ServerRestart ==
  /\ server = "down"
  /\ server' = "open" /\ call' = 1
  /\ UNCHANGED <<pair, pub, pri, served, cached, crashes, unread, cut>>

\* A client starts: it does not come up without an answer to /getPublicKey.
CacheKey(c) ==
  /\ cached[c] = Absent
  /\ server = "serving"
  /\ cached' = [cached EXCEPT ![c] = served.pub]
  /\ UNCHANGED <<server, call, pair, pub, pri, served, crashes, unread, cut>>

ClientCrash(c) ==
  /\ cached[c] # Absent
  /\ cached' = [cached EXCEPT ![c] = Absent]
  /\ UNCHANGED <<server, call, pair, pub, pri, served, crashes, unread, cut>>

KeyNext ==
  \/ ReadFiles \/ ReadFails \/ Generate \/ GenerateFails \/ OpenFails
  \/ OpenPub \/ ClosePub \/ OpenPri \/ ClosePri
  \/ ServerCrash \/ ServerRestart
  \/ \E c \in Clients : CacheKey(c) \/ ClientCrash(c)

KeySpec == KeyInit /\ [][KeyNext]_keyVars

-----------------------------------------------------------------------------
(* Properties *)

\* Once both files hold a pair, the only call of gen_rsa_keypair that writes them
\* is one whose own fopen to read them failed (Utils.cpp:87-89): no other start,
\* whenever the one before it ended and whatever failed in it, makes the clients'
\* cached key stale.  Where fopen fails the code does replace the pair.
PairIsKept ==
  [][(pub \in Pairs /\ pri = pub) => \/ pub' = pub /\ pri' = pri
                                     \/ unread /\ server = "openPub"]_keyVars

\* What a client encrypts, the server it reaches decrypts, across any restart
\* of either, as long as no file and no call of OpenSSL failed and no crash hit the
\* server between fopen and fclose of the private key (Utils.cpp:131-137).  A crash anywhere
\* else, the half-written public key included, is made good by the next start.
ClientsFit ==
  server = "serving" /\ ~cut =>
    /\ served.pub \in Pairs /\ served.pri = served.pub
    /\ \A c \in Clients : cached[c] \in {Absent, served.pri}
=============================================================================
