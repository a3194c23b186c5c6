------------------------------ MODULE PkgVerify ------------------------------
(***************************************************************************)
(* The signature of a package: the pkcs7 block in the comment of a zip, or  *)
(* behind an update.bin (PkgVerifyUtil, the parsers, Pkcs7SignedData,       *)
(* CertVerify), and the hashes of the images that a package comes with      *)
(* (HashDataVerifier).  The SHA256 of cells is those cells; a signature is  *)
(* a cell with what was signed and who signed it.                           *)
(***************************************************************************)
EXTENDS ZipFile

CONSTANT RootCert \* the certificate of the device can be read

\* A signer: its fields can be parsed, its certificate is in the block and is the
\* root's, and the signature is that of its key.
Signer(known, cert, root, key) == [known |-> known, cert |-> cert, root |-> root, key |-> key]
Signature(of, digest, signers) == [t |-> "sign", of |-> of, digest |-> digest, signers |-> signers]

(***************************************************************************)
(* Pkcs7SignedData and the certificates.                                   *)
(***************************************************************************)
InitRootCert == RootCert
InitSigned(sign) == sign.t = "sign" /\ InitRootCert

\* A digest of another algorithm or of another length is refused.
GetDigestFromContentInfo(sign) == sign.digest = "sha256"

\* Signers that cannot be parsed are left out: there may be none left.
SignerInfoParse(signer) == signer.known
SignerInfosParse(sign) == {i \in DOMAIN sign.signers : SignerInfoParse(sign.signers[i])}

ParsePkcs7Data(sign) == InitSigned(sign) /\ GetDigestFromContentInfo(sign) /\ sign.signers # <<>>

CompareCertSubjectAndIssuer(signer) == signer.root
VerifySingleCert(signer) == CompareCertSubjectAndIssuer(signer)
CheckCertChain(signer) == VerifySingleCert(signer)

\* The hash that was signed is the one that is verified.
VerifyDigest(signer, hash, of) == signer.key /\ hash = of
Pkcs7SignleSignerVerify(signer, hash, of) ==
  signer.cert /\ CheckCertChain(signer) /\ VerifyDigest(signer, hash, of)

\* One signer is enough.
VerifyHash(sign, hash, of) == \E i \in SignerInfosParse(sign) : Pkcs7SignleSignerVerify(sign.signers[i], hash, of)

GetHashFromSignBlock(sign) ==
  IF ParsePkcs7Data(sign) /\ VerifyHash(sign, sign.of, sign.of) THEN [ok |-> TRUE, hash |-> sign.of]
  ELSE [ok |-> FALSE, hash |-> <<>>]

ReadSig(sign) == IF InitSigned(sign) THEN SignerInfosParse(sign) ELSE {}

(***************************************************************************)
(* PkgVerifyUtil.                                                          *)
(***************************************************************************)
\* BinPkgParse::ParsePkg: the footer and the length are all that is looked at.
BinParsePkg(f) ==
  LET footer == ReadFooterFromStream(f) IN
  IF ~ParsePkgFooter(footer) \/ Size(f) <= footer.total THEN [ok |-> FALSE, append |-> 0, total |-> 0]
  ELSE [ok |-> TRUE, append |-> footer.append, total |-> footer.total]

ParsePackage(type, f) ==
  IF type = "zip" THEN ParsePkg(f)
  ELSE IF type = "upgrade" THEN BinParsePkg(f)
  ELSE [ok |-> FALSE, append |-> 0, total |-> 0]
GetFixedPartLen(type) == IF type = "zip" THEN EocdLen ELSE 0
IsSupportOldSig(type) == type = "zip"

\* The first cell of what was appended, if there is one in front of the footer.
SignatureIn(type, f, p) ==
  IF ~p.ok \/ p.append <= FooterLen \/ Size(f) < p.append + GetFixedPartLen(type)
  THEN [ok |-> FALSE, sign |-> [t |-> "eof"], append |-> 0, total |-> 0]
  ELSE [ok |-> TRUE, sign |-> At(f, Size(f) - p.append), append |-> p.append, total |-> p.total]
GetSignature(type, f) == SignatureIn(type, f, ParsePackage(type, f))

HashCheck(f, len, hash) == IF len <= 0 THEN "param" ELSE IF hash = Cells(f.c, 0, len) THEN "ok" ELSE "digest"

\* A signature of the old kind is that of the archive up to the length of the
\* comment; the other is that of what is before the end of the directory.
HashChecks(type, f, old, s, hash) ==
  IF ~s.ok THEN "signature"
  ELSE IF ~hash.ok THEN "pkcs7"
  ELSE IF old /\ IsSupportOldSig(type) /\ HashCheck(f, Size(f) - s.total - 1, hash.hash) = "ok" THEN "ok"
  ELSE HashCheck(f, Size(f) - s.append - GetFixedPartLen(type), hash.hash)
SignChecks(type, f, old, s) == HashChecks(type, f, old, s, GetHashFromSignBlock(s.sign))
VerifyPackageSign(type, f, old) == SignChecks(type, f, old, GetSignature(type, f))

VerifySourceDigest(sign, digest) ==
  IF \E i \in ReadSig(sign) : sign.signers[i].key /\ sign.of = digest THEN "ok" ELSE "verify"

\* An accessory's package: the file itself is the digest that was signed.
AccSignCheck(f, s) ==
  IF ~s.ok THEN "signature" ELSE VerifySourceDigest(s.sign, Cells(f.c, 0, Size(f) - s.total - 1))
VerifyAccPackageSign(type, f) == AccSignCheck(f, GetSignature(type, f))
=============================================================================
