------------------------------ MODULE MCIngest -------------------------------
(***************************************************************************)
(* Small instances of Ingest for TLC: one video, its upload in MinIO, a    *)
(* transcoded output of it, and in some runs its upload in S3.             *)
(***************************************************************************)
EXTENDS IngestProperties, TLC

CONSTANTS h1, h2

raw     == <<"raw", "v1", "a">>
rawEnc  == <<"raw%2Fv1%2Fa">>
out     == <<"transcoded", "v1", "seg">>
outEnc  == <<"transcoded%2Fv1%2Fseg">>

MCKeys      == {raw, rawEnc, out, outEnc}
MCEscaped   == (raw :> rawEnc) @@ (out :> outEnc)
MCUnescaped == (rawEnc :> raw) @@ (outEnc :> out) @@ (raw :> raw) @@ (out :> out)

Upload   == [provider |-> "minio", key |-> raw]
Output   == [provider |-> "minio", key |-> out]
S3Upload == [provider |-> "aws-s3", key |-> raw]

NoUploads       == {}
UploadOnly      == {Upload}
UploadAndOutput == {Upload, Output}
S3UploadOnly    == {S3Upload}

Symmetry == Permutations(Handlers)
=============================================================================
