-------------------------- MODULE MCStorageAdapters --------------------------
(***************************************************************************)
(* The adapters over a set of stored keys chosen for their shapes: two and *)
(* three segments, none, equal names, a space, a plus, a stray percent     *)
(* sign, a bar, an encoded slash in the name itself, a chunk, and every    *)
(* pipeline prefix; and the listing over catalogues of up to two documents *)
(* and an object whose names join to the key of one of another name.       *)
(***************************************************************************)
EXTENDS AdapterCalls

raw == <<"raw", "v1", "a.mp4">>      space == <<"raw", "v1", "my movie.mp4">>
two == <<"v1", "a.mp4">>             plus  == <<"raw", "v1", "a+b.mp4">>
top == <<"clip.mp4">>                pct   == <<"raw", "v1", "100%.mp4">>
same == <<"raw", "a", "a">>          chunk == <<"raw", "v1", "a.chunk.1">>
seg == <<"transcoded", "v1", "seg">> thumb == <<"thumbnails", "v1", "my thumb">>
srt == <<"subtitles", "v1", "en">>   met   == <<"metrics", "v1", "m">>
named == <<"transcoded">>             upper == <<"raw", "v1", "A.mp4">>
bar == <<"raw", "v1", "x|b.mp4">>      ends  == <<"raw", "v1", "x|">>
slash == <<"transcoded%2Fv1%2Fseg">>  \* a name of one segment

MCEscaped ==
    (raw :> <<"raw%2Fv1%2Fa.mp4">>) @@ (space :> <<"raw", "v1", "my%20movie.mp4">>)
    @@ (two :> <<"v1%2Fa.mp4">>) @@ (plus :> <<"raw%2Fv1%2Fa%2Bb.mp4">>)
    @@ (top :> top) @@ (pct :> <<"raw", "v1", "100%25.mp4">>)
    @@ (same :> <<"raw%2Fa%2Fa">>) @@ (chunk :> chunk)
    @@ (seg :> <<"transcoded%2Fv1%2Fseg">>) @@ (thumb :> <<"thumbnails", "v1", "my+thumb">>)
    @@ (srt :> <<"subtitles%2Fv1%2Fen">>) @@ (met :> met) @@ (named :> named)
    @@ (upper :> <<"raw%2Fv1%2FA.mp4">>) @@ (slash :> <<"transcoded%252Fv1%252Fseg">>)
    @@ (bar :> <<"raw%2Fv1%2Fx%7Cb.mp4">>) @@ (ends :> <<"raw%2Fv1%2Fx%7C">>)

MCStored == DOMAIN MCEscaped
Plain    == MCStored \ {plus, pct, slash}
wide     == <<"raw", "v1", "a b.mp4">>     \* what a stored "a+b.mp4" decodes to

MCUnescaped ==
    [k \in {MCEscaped[s] : s \in MCStored} |-> CHOOSE s \in MCStored : MCEscaped[s] = k]
    @@ [k \in Plain |-> k] @@ (plus :> wide)

MCChunkKeys == {chunk}
MCKeys == MCStored \cup {MCEscaped[s] : s \in MCStored} \cup {wide}

MCLowercase == "A.mp4" :> "a.mp4"
MCBarred    == ("x|b.mp4" :> <<"x", "b.mp4">>) @@ ("v1|x" :> <<"v1", "x">>)
               @@ ("x|" :> <<"x", "">>)
MCPaths     == {"minio", "aws-s3", "s3"}

-----------------------------------------------------------------------------
(* Documents upload.started has made, with or without a size and a         *)
(* provider; without the unique index two of them may be of one video.     *)
Docs == {Video(v, f, p, size, "uploading", 1) :
            v \in {"v1", "clip.mp4"}, f \in {"a.mp4", "A.mp4"},
            p \in {"", "minio"}, size \in {0, 1}}
        \cup {Video("v1|x", f, "minio", 0, "uploading", 1) : f \in {"b.mp4", ""}}

MCCatalogs == BoundedSeq(Docs, 2)

Object(k, size) == [key |-> k, size |-> size, time |-> 2]

MinioBuckets == {<<>>, <<Object(raw, 2)>>, <<Object(upper, 3), Object(raw, 2)>>,
                 <<Object(chunk, 2), Object(seg, 3), Object(two, 4)>>, <<Object(bar, 8), Object(ends, 9)>>}
S3Buckets    == {<<>>, <<Object(raw, 5)>>, <<Object(top, 6), Object(seg, 7)>>}

MCBuckets == {("minio" :> b) @@ ("aws-s3" :> c) : b \in MinioBuckets, c \in S3Buckets}
=============================================================================
