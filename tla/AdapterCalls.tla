---------------------------- MODULE AdapterCalls ----------------------------
(***************************************************************************)
(* One call of the code that reads a store: a state is one input and what  *)
(* becomes of it.  Either something is posted to /webhooks/:provider about *)
(* a stored object, or GET /videos is called with a catalogue, two buckets *)
(* and whatever fails, and once more after that.                           *)
(***************************************************************************)
EXTENDS Catalogue

CONSTANTS None,
          Paths,     \* the :provider parameters, registered or not
          Catalogs,  \* what videos_catalog may hold
          Buckets,   \* what the stores of the two adapters may hold
          Saves      \* the number of saves applied before one fails

(* A document upload.started, the webhook or the synchronisation has made: *)
(* each gives it a status and a time, and may leave its size out.          *)
Document == [videoId : STRING, filename : STRING, provider : STRING, size : Nat,
             status : STRING \ {""}, createdAt : Nat \ {0}]

StoredObject == [key : Keys, size : Nat, time : Nat]

ASSUME CallsAssumption ==
    /\ \A c \in Catalogs : c \in Seq(Document)
    /\ \A b \in Buckets : b \in [storageAdapters -> Seq(StoredObject)]
    /\ Saves \subseteq Nat

Stored == DOMAIN Escaped

Posts ==
    {[provider |-> p, key |-> k, n |-> m] :
        p \in Paths, k \in Stored,
        m \in [envelope : {"records", "eventbridge", "none"}, created : BOOLEAN,
               key : Stored \cup {Escaped[s] : s \in Stored} \cup {NoKey}]}

Listings == [catalog : Catalogs, buckets : Buckets,
             down : SUBSET storageAdapters, saves : Saves]

VARIABLES
    post, listing,
    listed, \* what the stores that answer list in the first GET /videos
    whole,  \* what they all list in the next
    now,    \* what GET /videos answers and leaves
    later,  \* what a GET /videos after it, of which nothing fails, does
    once    \* what the first would have done if nothing had failed

calls == <<post, listing, listed, whole, now, later, once>>

(* Of a listing of which nothing fails, every save is applied. *)
Undisturbed(catalog) == ListAllVideos(catalog, whole, {}, Len(whole) + 1)

Init == \/ /\ post \in {p \in Posts : p.n.key \in {p.key, Escaped[p.key], NoKey}}
           /\ listing = None /\ listed = None /\ whole = None
           /\ now = None /\ later = None /\ once = None
        \/ /\ post = None
           /\ listing \in Listings
           /\ listed = Listed(listing.buckets, listing.down)
           /\ whole  = Listed(listing.buckets, {})
           /\ now    = ListAllVideos(listing.catalog, listed, listing.down, listing.saves)
           /\ later  = Undisturbed(now.catalog)
           /\ once   = Undisturbed(listing.catalog)

Next == UNCHANGED calls

Spec == Init /\ [][Next]_calls

-----------------------------------------------------------------------------
(* Posts *)

provider == post.provider
key      == post.key
n        == post.n

Sent    == post # None /\ n \in CreationNotices(provider, key)
Outcome == ParseWebhook(provider, n)
Accepted == Outcome.result = "event"

IsOutput == Len(key) > 1 /\ key[1] \in {"transcoded", "metrics", "thumbnails", "subtitles"}

(* A creation notice with an encoded key is filed under the object's own   *)
(* last two names, however the store encoded them.                         *)
NoticeNamesObject ==
    Sent /\ Accepted /\ n.envelope = "records" =>
        /\ Outcome.filename = key[Len(key)]
        /\ Outcome.videoId \in {"unknown", key[IF Len(key) > 1 THEN Len(key) - 1 ELSE 1]}

(* No envelope and no encoding gets a pipeline output past the filter, and *)
(* nothing else is filtered, unless its key, which EventBridge does not    *)
(* encode, reads otherwise once it is decoded (common_storage.go:26-38).   *)
OutputsIgnored ==
    Sent /\ provider \in storageAdapters =>
        /\ IsOutput => Outcome = Ignored
        /\ Outcome = Ignored => IsOutput \/ (n.key = key /\ Decoded(key) # key)

(* The webhook and the listing, which decodes a key that the store has not *)
(* encoded, file an object under the same video, when its key has a video  *)
(* segment of its own and reads the same decoded.                          *)
ListingAgreesWithNotice ==
    Sent /\ Accepted /\ Decoded(key) = key
         /\ Len(key) > 1 /\ key[Len(key) - 1] # key[Len(key)] =>
        /\ ListedVideo(key).videoId = Outcome.videoId
        /\ ListedVideo(key).filename = Outcome.filename

-----------------------------------------------------------------------------
(* Listings *)

Copies(d, catalog) == {i \in DOMAIN catalog : catalog[i] = d}

(* None of the names of which the match key is made holds a "|". *)
Unbarred(video) ==
    DOMAIN Barred \cap {Lower(video.provider), Lower(video.videoId), Lower(video.filename)}
        = {}

(* The document of videos_catalog that an answer shows, and the object     *)
(* whose size, id or name it takes where the document has none.            *)
ShownFrom(video, doc, o) ==
    /\ videoMatchKey(o) = videoMatchKey(doc)
    /\ Unbarred(o) /\ Unbarred(doc) =>
          /\ Lower(o.provider) = Lower(doc.provider)
          /\ Lower(o.videoId) = Lower(doc.videoId)
          /\ Lower(o.filename) = Lower(doc.filename)
    /\ video.size     \in {doc.size, o.size}
    /\ video.videoId  \in {doc.videoId, o.videoId}
    /\ video.filename \in {doc.filename, o.filename}

(* Whatever fails, GET /videos answers every document it has read, in      *)
(* order, with a link under the names it shows or none, and changes        *)
(* nothing that a document has.  What it lacks, a size above all, is taken *)
(* from one object that is listed under the same key; that is an object of *)
(* the same store and names if none holds a "|", by which the code joins   *)
(* them, and may be another's if one does (service.go:36-49, 117-166).     *)
AnswerIsTheCatalog ==
    listing # None =>
        /\ Len(now.answer) = Len(listing.catalog)
        /\ \A i \in DOMAIN listing.catalog :
              LET doc   == listing.catalog[i]
                  video == now.answer[i].video
              IN  /\ video.provider = doc.provider /\ video.status = doc.status
                  /\ video.createdAt = doc.createdAt
                  /\ doc.size # 0 => video.size = doc.size
                  /\ doc.videoId # "" => video.videoId = doc.videoId
                  /\ doc.filename # "" => video.filename = doc.filename
                  /\ now.answer[i].url \in
                        {NoURL, <<video.provider, <<video.videoId, video.filename>>>>}
                  /\ video = doc \/ \E o \in ToSet(listed) : ShownFrom(video, doc, o)

(* A listing whose store or save failed is made good by the next one: the  *)
(* catalogue ends up as if it had succeeded at once, no document is added  *)
(* twice, and what it missed is in GET /videos/database (service.go:51-58, *)
(* 85-115).                                                                *)
ListingIsResumable ==
    listing # None =>
        /\ \A d \in ToSet(once.catalog) \cup ToSet(later.catalog) :
              Cardinality(Copies(d, once.catalog)) = Cardinality(Copies(d, later.catalog))
        /\ LET stored == ToSet(ListDatabaseVideos(later.catalog, {}))
           IN  \A o \in ToSet(whole) :
                  \E a \in stored : a.video.videoId = o.videoId

-----------------------------------------------------------------------------
(* adapters/storage_port.go:10-12: the transcoder downloads from this      *)
(* exact key, so it is the key of the stored object.                       *)
ObjectKeyIsStored == Sent /\ Accepted => Outcome.objectKey = key
=============================================================================
