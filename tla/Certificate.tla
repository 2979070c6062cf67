----------------------------- MODULE Certificate -----------------------------
(***************************************************************************)
(* internal/setup/cert.go: the certificate of the sign-in page, in two     *)
(* files of the volume that outlive the process.                           *)
(*                                                                         *)
(* os.WriteFile truncates a file before it writes, so a process that ends, *)
(* or a disk that is full, between the two leaves it torn.                 *)
(***************************************************************************)

EXTENDS Naturals

CONSTANTS
  Nothing,   \* no file, no certificate
  Torn,      \* a file that was truncated and not written
  MaxPairs   \* bound: how many keys are generated

\* A key with its certificate and fingerprint, by the order of generation.
Pair == Nat

ASSUME CertificateAssumption ==
  /\ Nothing \notin Pair
  /\ Torn \notin Pair
  /\ Torn # Nothing
  /\ MaxPairs \in Nat

VARIABLES
  cert,        \* cert.pem, named by its pair
  key,         \* key.pem
  page,        \* how far the page is
  made,        \* the pair createCertificate is writing
  served,      \* what the page presents
  \* History:
  generated,   \* how many pairs were generated; none comes twice
  shown        \* fingerprints written to the log

files     == <<cert, key>>
certState == <<cert, key, page, made, served, generated, shown>>

File   == Pair \cup {Nothing, Torn}
Writing == {"open_cert", "write_cert", "open_key", "write_key"}

CertTypeOK ==
  /\ cert \in File
  /\ key \in File
  /\ page \in {"down", "called", "up"} \cup Writing
  /\ made \in Pair \cup {Nothing}
  /\ served \in Pair \cup {Nothing}
  /\ generated \in Nat
  /\ shown \subseteq Pair

CertInit ==
  /\ cert = Nothing
  /\ key = Nothing
  /\ page = "down"
  /\ made = Nothing
  /\ served = Nothing
  /\ generated = 0
  /\ shown = {}

-----------------------------------------------------------------------------
(* LoadOrCreateCertificate.  Two files that are both there and do not make  *)
(* a pair are an error: the page goes as it came (PageStops).               *)

\* A page is wanted.
PageCalled ==
  /\ page = "down"
  /\ page' = "called"
  /\ UNCHANGED <<cert, key, made, served, generated, shown>>

\* The page is up and its fingerprint in the log.
Serves(p) ==
  /\ page' = "up"
  /\ served' = p
  /\ made' = Nothing
  /\ shown' = shown \cup {p}

LoadCertificate ==
  /\ page = "called"
  /\ cert \in Pair
  /\ key = cert
  /\ Serves(cert)
  /\ UNCHANGED <<cert, key, generated>>

\* (mutant) does not look for the certificate of an earlier start
CreateCertificateAlways ==
  /\ page = "called"
  /\ generated < MaxPairs
  /\ page' = "open_cert"
  /\ made' = generated + 1
  /\ generated' = generated + 1
  /\ UNCHANGED <<cert, key, served, shown>>

\* A file that does not exist, whatever is in the other one.
CreateCertificate ==
  /\ page = "called"
  /\ Nothing \in {cert, key}
  /\ generated < MaxPairs
  /\ page' = "open_cert"
  /\ made' = generated + 1
  /\ generated' = generated + 1
  /\ UNCHANGED <<cert, key, served, shown>>

OpenCert ==
  /\ page = "open_cert"
  /\ cert' = Torn
  /\ page' = "write_cert"
  /\ UNCHANGED <<key, made, served, generated, shown>>

WriteCert ==
  /\ page = "write_cert"
  /\ cert' = made
  /\ page' = "open_key"
  /\ UNCHANGED <<key, made, served, generated, shown>>

OpenKey ==
  /\ page = "open_key"
  /\ key' = Torn
  /\ page' = "write_key"
  /\ UNCHANGED <<cert, made, served, generated, shown>>

WriteKey ==
  /\ page = "write_key"
  /\ key' = made
  /\ Serves(made)
  /\ UNCHANGED <<cert, generated>>

\* A write fails, the page ends, or the process does.
PageStops ==
  /\ page # "down"
  /\ page' = "down"
  /\ made' = Nothing
  /\ served' = Nothing
  /\ UNCHANGED <<cert, key, generated, shown>>

-----------------------------------------------------------------------------

\* The fingerprint is the same at every start (cert.go:44-50), wherever an
\* earlier start was interrupted: once one was shown no other one ever is.
FingerprintKept == \A p, q \in shown : p = q

\* The inductive invariant behind it: what was shown is in both files, and is
\* what the page presents.
FilesHold ==
  /\ \A p \in shown : cert = p /\ key = p /\ page \notin Writing
  /\ page = "up" => served \in shown
  /\ page \in Writing => made \in Pair
  /\ page \in {"open_key", "write_key"} => cert = made

=============================================================================
