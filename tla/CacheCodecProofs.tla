-------------------------- MODULE CacheCodecProofs --------------------------
(***************************************************************************)
(* What can be read back from the cache, for any build, any number of      *)
(* pages, and any restarts and failures of redis.                          *)
(***************************************************************************)
EXTENDS CacheCodec, TLAPS, WellFoundedInduction

Layers == [op: {"compressed", "encrypted", "base64"}, key: 0 .. MaxProcesses]
Errors == {"none", "CompressionError", "EncryptionError", "SerializationError",
           "Base64DecodingOrEncodingError", "MissingValue", "RedisError",
           "PoolExhaustionWithConnectionDropError"}
AllBytes == [page: [key: Keys, process: 0 .. MaxProcesses], layers: Seq(Layers), error: Errors]

-----------------------------------------------------------------------------
(* Layers.                                                                 *)

\* Putting a layer on and taking it off again gives the same bytes.
LEMMA UnwrapWrap ==
    ASSUME NEW b \in AllBytes, Ok(b), NEW l \in Layers, NEW e
    PROVE  /\ Wrap(b, l) \in AllBytes /\ Ok(Wrap(b, l))
           /\ Unwrap(Wrap(b, l), l, e) = b
<1>1. /\ b.layers \in Seq(Layers) /\ b.error = "none"
      /\ b = [page |-> b.page, layers |-> b.layers, error |-> b.error]
  BY DEF AllBytes, Ok
<1>2. /\ <<l>> \o b.layers \in Seq(Layers)
      /\ <<l>> \o b.layers # <<>>
      /\ (<<l>> \o b.layers)[1] = l
      /\ Tail(<<l>> \o b.layers) = b.layers
  BY <1>1
<1>3. Wrap(b, l) = [page |-> b.page, layers |-> <<l>> \o b.layers, error |-> "none"]
  BY <1>1 DEF Wrap, Bytes
<1>4. Wrap(b, l) \in AllBytes /\ Ok(Wrap(b, l))
  BY <1>1, <1>2, <1>3 DEF AllBytes, Ok
<1>5. Unwrap(Wrap(b, l), l, e) = [page |-> b.page, layers |-> b.layers, error |-> "none"]
  <2>1. /\ Wrap(b, l).layers # <<>> /\ Wrap(b, l).layers[1] = l
        /\ Tail(Wrap(b, l).layers) = b.layers
        /\ Wrap(b, l).page = b.page /\ Wrap(b, l).error = "none"
    BY <1>2, <1>3
  <2>2. QED
    BY <1>4, <2>1 DEF Unwrap, Bytes
<1>6. QED
  BY <1>1, <1>4, <1>5

\* Another layer than the outermost cannot be taken off.
LEMMA UnwrapOther ==
    ASSUME NEW b \in AllBytes, NEW l \in Layers, NEW m \in Layers, l # m,
           NEW e \in Errors \ {"none"}
    PROVE  ~Ok(Unwrap(Wrap(b, l), m, e))
<1>1. b.layers \in Seq(Layers)
  BY DEF AllBytes
<1>2. (<<l>> \o b.layers)[1] = l
  BY <1>1
<1>3. Wrap(b, l) = [page |-> b.page, layers |-> <<l>> \o b.layers, error |-> b.error]
  BY DEF Wrap, Bytes
<1>4. QED
  BY <1>2, <1>3 DEF Unwrap, Bytes, Ok, Errors

\* Taking a layer off, or failing to, changes no page and undoes no error.
LEMMA UnwrapType ==
    ASSUME NEW b \in AllBytes, NEW l \in Layers, NEW e \in Errors \ {"none"}
    PROVE  /\ Unwrap(b, l, e) \in AllBytes
           /\ Unwrap(b, l, e).page = b.page
           /\ ~Ok(b) => ~Ok(Unwrap(b, l, e))
<1>1. /\ b.layers \in Seq(Layers) /\ b.error \in Errors
      /\ b = [page |-> b.page, layers |-> b.layers, error |-> b.error]
  BY DEF AllBytes
<1>2. CASE ~Ok(b)
  BY <1>2 DEF Unwrap
<1>3. CASE Ok(b) /\ b.layers # <<>> /\ b.layers[1] = l
  <2>1. Unwrap(b, l, e) = [page |-> b.page, layers |-> Tail(b.layers), error |-> b.error]
    BY <1>3 DEF Unwrap, Bytes
  <2>2. Tail(b.layers) \in Seq(Layers)
    BY <1>1, <1>3
  <2>3. QED
    BY <1>1, <1>3, <2>1, <2>2 DEF AllBytes
<1>4. CASE Ok(b) /\ ~(b.layers # <<>> /\ b.layers[1] = l)
  <2>1. Unwrap(b, l, e) = [page |-> b.page, layers |-> b.layers, error |-> e]
    BY <1>4 DEF Unwrap, Bytes
  <2>2. QED
    BY <1>1, <1>4, <2>1 DEF AllBytes, Ok
<1>5. QED
  BY <1>2, <1>3, <1>4

Processes == 1 .. MaxProcesses

\* The layers there are.
LEMMA LayersApart ==
    ASSUME NEW p \in Processes, NEW q \in Processes
    PROVE  /\ Compressed \in Layers /\ Base64 \in Layers /\ Encrypted(p) \in Layers
           /\ Compressed # Encrypted(p)
           /\ p # q => Encrypted(p) # Encrypted(q)
  BY BoundsAssumption DEF Processes, Layers, Compressed, Base64, Encrypted

-----------------------------------------------------------------------------
(* pre_process_search_results and post_process_search_results.             *)

\* A page in the form in which the process q caches it.
Encoded(k, q) == pre_process_search_results(Page(k, q), q)

LEMMA PageType ==
    ASSUME NEW k \in Keys, NEW q \in Processes, NEW p \in Processes
    PROVE  /\ Bytes(Page(k, q), <<>>, "none") \in AllBytes
           /\ Ok(Bytes(Page(k, q), <<>>, "none"))
  BY BoundsAssumption DEF Bytes, Page, AllBytes, Errors, Ok, Processes

\* Encoding a page, also of another process's, keeps it and makes no error.
LEMMA EncodedType ==
    ASSUME NEW k \in Keys, NEW q \in Processes, NEW p \in Processes
    PROVE  /\ pre_process_search_results(Page(k, q), p) \in AllBytes
           /\ Ok(pre_process_search_results(Page(k, q), p))
           /\ pre_process_search_results(Page(k, q), p).page = Page(k, q)
<1> DEFINE bytes == Bytes(Page(k, q), <<>>, "none")
           Good(b) == b \in AllBytes /\ Ok(b) /\ b.page = Page(k, q)
<1>1. Good(bytes)
  BY PageType DEF Bytes
<1>2. ASSUME NEW b, Good(b), NEW l \in Layers
      PROVE  Good(Wrap(b, l))
  BY <1>2, UnwrapWrap DEF Wrap, Bytes
<1>3. Compressed \in Layers /\ Encrypted(p) \in Layers
  BY LayersApart
<1> HIDE DEF Good, bytes
<1>4. Good(IF On("compress") THEN compress_results(bytes) ELSE bytes)
  BY <1>1, <1>2, <1>3 DEF compress_results
<1> DEFINE compressed == IF On("compress") THEN compress_results(bytes) ELSE bytes
           encrypted == IF On("encrypt") THEN encrypt_results(compressed, p) ELSE compressed
<1> HIDE DEF compressed
<1>5. Good(compressed)
  BY <1>4 DEF compressed
<1>6. Good(encrypted)
  BY <1>2, <1>3, <1>5 DEF encrypt_results
<1> HIDE DEF encrypted
<1>7. Good(compress_encrypt_compress_results(encrypted, p))
  <2>1. Good(compress_results(encrypted))
    BY <1>2, <1>3, <1>6 DEF compress_results
  <2>2. Good(encrypt_results(compress_results(encrypted), p))
    BY <1>2, <1>3, <2>1 DEF encrypt_results
  <2>3. QED
    BY <1>2, <1>3, <2>2 DEF compress_encrypt_compress_results, compress_results
<1>8. Good(pre_process_search_results(Page(k, q), p))
  BY <1>6, <1>7 DEF pre_process_search_results, encrypted, compressed, bytes
<1>9. QED
  BY <1>8 DEF Good

\* Decoding changes no page, takes every layer off if it succeeds, and makes
\* nothing of what is an error already.
LEMMA DecodedType ==
    ASSUME NEW b \in AllBytes, NEW p \in Processes
    PROVE  LET read == post_process_search_results(b, p)
           IN  /\ Ok(read) => read.page = b.page /\ read.layers = <<>>
               /\ ~Ok(b) => ~Ok(read)
<1> DEFINE Good(x) == x \in AllBytes /\ x.page = b.page /\ (~Ok(b) => ~Ok(x))
           decompressed == IF On("compress") THEN decompress_results(b) ELSE b
           decrypted == IF On("encrypt") THEN decrypt_results(decompressed, p) ELSE decompressed
           twice == IF On("cec") THEN decompress_results(decrypted) ELSE decrypted
<1>1. ASSUME NEW x, Good(x), NEW l \in Layers, NEW e \in Errors \ {"none"}
      PROVE  Good(Unwrap(x, l, e))
  BY <1>1, UnwrapType
<1>2. /\ Compressed \in Layers /\ Encrypted(p) \in Layers
      /\ "CompressionError" \in Errors \ {"none"} /\ "EncryptionError" \in Errors \ {"none"}
  BY LayersApart DEF Errors
<1>3. Good(b)
  OBVIOUS
<1> HIDE DEF Good
<1>4. Good(decompressed)
  BY <1>1, <1>2, <1>3 DEF decompress_results, decompress_util
<1> HIDE DEF decompressed
<1>5. Good(decrypted)
  BY <1>1, <1>2, <1>4 DEF decrypt_results
<1> HIDE DEF decrypted
<1>6. Good(twice)
  BY <1>1, <1>2, <1>5 DEF decompress_results, decompress_util
<1> HIDE DEF twice
<1>7. post_process_search_results(b, p) = from_bytes(twice)
  BY DEF post_process_search_results, twice, decrypted, decompressed
<1>8. QED
  BY <1>6, <1>7 DEF Good, from_bytes, Bytes, Ok

\* The features of a build that compiles.
LEMMA BuildFeatures ==
    ASSUME build \in Builds
    PROVE  On("cec") => TwoFeatures
  BY BuildsAssumption DEF Compiles, On, TwoFeatures

\* Without both features, a process decodes what it has encoded.
LEMMA RoundTrip ==
    ASSUME build \in Builds, ~TwoFeatures,
           NEW k \in Keys, NEW q \in Processes, NEW p \in Processes
    PROVE  Ok(post_process_search_results(pre_process_search_results(Page(k, q), p), p))
<1> DEFINE bytes == Bytes(Page(k, q), <<>>, "none")
<1>1. bytes \in AllBytes /\ Ok(bytes) /\ bytes.layers = <<>>
  BY PageType DEF Bytes
<1> HIDE DEF bytes
<1>2. ~On("cec") /\ Compressed \in Layers /\ Encrypted(p) \in Layers
  BY BuildFeatures, LayersApart
<1>3. from_bytes(bytes) = bytes
  BY <1>1 DEF from_bytes
<1>4. CASE On("compress")
  <2>1. ~On("encrypt")
    BY <1>4 DEF TwoFeatures
  <2>2. pre_process_search_results(Page(k, q), p) = Wrap(bytes, Compressed)
    BY <1>2, <1>4, <2>1 DEF pre_process_search_results, bytes, compress_results
  <2>3. post_process_search_results(Wrap(bytes, Compressed), p)
          = from_bytes(Unwrap(Wrap(bytes, Compressed), Compressed, "CompressionError"))
    BY <1>2, <1>4, <2>1 DEF post_process_search_results, decompress_results, decompress_util
  <2>4. QED
    BY <1>1, <1>2, <1>3, <2>2, <2>3, UnwrapWrap
<1>5. CASE On("encrypt") /\ ~On("compress")
  <2>1. pre_process_search_results(Page(k, q), p) = Wrap(bytes, Encrypted(p))
    BY <1>2, <1>5 DEF pre_process_search_results, bytes, encrypt_results
  <2>2. post_process_search_results(Wrap(bytes, Encrypted(p)), p)
          = from_bytes(Unwrap(Wrap(bytes, Encrypted(p)), Encrypted(p), "EncryptionError"))
    BY <1>2, <1>5 DEF post_process_search_results, decrypt_results
  <2>3. QED
    BY <1>1, <1>2, <1>3, <2>1, <2>2, UnwrapWrap
<1>6. CASE ~On("encrypt") /\ ~On("compress")
  BY <1>1, <1>2, <1>3, <1>6 DEF pre_process_search_results, post_process_search_results, bytes
<1>7. QED
  BY <1>4, <1>5, <1>6

\* Another process decodes nothing that was encrypted, and with both features no
\* process decodes anything.
LEMMA NotDecoded ==
    ASSUME build \in Builds, NEW k \in Keys, NEW q \in Processes,
           NEW r \in Processes, NEW p \in Processes,
           TwoFeatures \/ (On("encrypt") /\ r # p)
    PROVE  ~Ok(post_process_search_results(pre_process_search_results(Page(k, q), r), p))
<1> DEFINE bytes == Bytes(Page(k, q), <<>>, "none")
           bad == "CompressionError"
<1>1. bytes \in AllBytes /\ Ok(bytes)
  BY PageType
<1> HIDE DEF bytes
<1>2. /\ Compressed \in Layers /\ Encrypted(p) \in Layers /\ Encrypted(r) \in Layers
      /\ Compressed # Encrypted(r) /\ (r # p => Encrypted(r) # Encrypted(p))
      /\ "CompressionError" \in Errors \ {"none"} /\ "EncryptionError" \in Errors \ {"none"}
  BY LayersApart DEF Errors
\* An error stays one.
<1>3. ASSUME NEW x \in AllBytes, ~Ok(x), NEW l \in Layers, NEW e \in Errors \ {"none"}
      PROVE  Unwrap(x, l, e) = x
  BY <1>3 DEF Unwrap
<1>4. ASSUME NEW x, ~Ok(x)
      PROVE  from_bytes(x) = x
  BY <1>4 DEF from_bytes
<1>5. CASE ~On("compress")
  <2>1. /\ On("encrypt") /\ r # p /\ ~On("cec")
    BY <1>5, BuildFeatures DEF TwoFeatures
  <2>2. pre_process_search_results(Page(k, q), r) = Wrap(bytes, Encrypted(r))
    BY <1>5, <2>1 DEF pre_process_search_results, bytes, encrypt_results
  <2>3. post_process_search_results(Wrap(bytes, Encrypted(r)), p)
          = from_bytes(Unwrap(Wrap(bytes, Encrypted(r)), Encrypted(p), "EncryptionError"))
    BY <1>5, <2>1 DEF post_process_search_results, decrypt_results
  <2>4. ~Ok(Unwrap(Wrap(bytes, Encrypted(r)), Encrypted(p), "EncryptionError"))
    BY <1>1, <1>2, <2>1, UnwrapOther
  <2>5. QED
    BY <1>4, <2>2, <2>3, <2>4
<1>6. CASE On("compress") /\ ~On("cec")
  <2>1. On("encrypt")
    BY DEF TwoFeatures
  <2> DEFINE inner == Wrap(bytes, Compressed)
             outer == Wrap(inner, Encrypted(r))
             read == Unwrap(outer, Compressed, bad)
  <2>2. pre_process_search_results(Page(k, q), r) = outer
    BY <1>6, <2>1 DEF pre_process_search_results, bytes, encrypt_results, compress_results
  <2>3. post_process_search_results(outer, p) = from_bytes(Unwrap(read, Encrypted(p), "EncryptionError"))
    BY <1>6, <2>1 DEF post_process_search_results, decrypt_results, decompress_results, decompress_util
  <2>4. inner \in AllBytes /\ Ok(inner) /\ outer \in AllBytes
    BY <1>1, <1>2, UnwrapWrap
  <2>5. ~Ok(read) /\ read \in AllBytes
    BY <1>2, <2>4, UnwrapOther, UnwrapType
  <2> HIDE DEF outer, read
  <2>6. QED
    BY <1>2, <1>3, <1>4, <2>2, <2>3, <2>5
<1>7. CASE On("cec")
  <2>1. On("compress") /\ On("encrypt")
    BY <1>7, BuildFeatures DEF TwoFeatures
  <2> DEFINE one == Wrap(bytes, Compressed)
             two == Wrap(one, Encrypted(r))
             three == Wrap(two, Compressed)
             four == Wrap(three, Encrypted(r))
             five == Wrap(four, Compressed)
             decrypted == Unwrap(four, Encrypted(p), "EncryptionError")
  <2>2. pre_process_search_results(Page(k, q), r) = five
    BY <1>7, <2>1 DEF pre_process_search_results, bytes, encrypt_results, compress_results,
                      compress_encrypt_compress_results
  <2>3. /\ one \in AllBytes /\ Ok(one) /\ two \in AllBytes /\ Ok(two)
    BY <1>1, <1>2, UnwrapWrap
  <2>4. /\ three \in AllBytes /\ Ok(three) /\ four \in AllBytes /\ Ok(four)
    BY <1>2, <2>3, UnwrapWrap
  <2>5. Unwrap(five, Compressed, bad) = four
    BY <1>2, <2>4, UnwrapWrap
  <2>6. post_process_search_results(five, p) = from_bytes(Unwrap(decrypted, Compressed, bad))
    <3>1. post_process_search_results(five, p)
            = from_bytes(Unwrap(Unwrap(Unwrap(five, Compressed, bad), Encrypted(p), "EncryptionError"),
                                Compressed, bad))
      BY <1>7, <2>1 DEF post_process_search_results, decrypt_results, decompress_results, decompress_util
    <3>2. QED
      BY <2>5, <3>1
  <2>7. CASE r # p
    <3>1. ~Ok(decrypted) /\ decrypted \in AllBytes
      BY <1>2, <2>4, <2>7, UnwrapOther, UnwrapType
    <3> HIDE DEF decrypted, five
    <3>2. QED
      BY <1>2, <1>3, <1>4, <2>2, <2>6, <3>1
  <2>8. CASE r = p
    <3>1. decrypted = three
      BY <1>2, <2>4, <2>8, UnwrapWrap
    <3>2. Unwrap(three, Compressed, bad) = two
      BY <1>2, <2>3, UnwrapWrap
    <3>3. two.layers # <<>>
      <4>1. one.layers \in Seq(Layers)
        BY <2>3 DEF AllBytes
      <4>2. <<Encrypted(r)>> \o one.layers # <<>>
        BY <1>2, <4>1
      <4>3. QED
        BY <4>2 DEF Wrap, Bytes
    <3> HIDE DEF two, three, five, decrypted
    <3>4. post_process_search_results(five, p) = from_bytes(two)
      BY <2>6, <3>1, <3>2
    <3>5. from_bytes(two).error = "SerializationError"
      BY <2>3, <3>3 DEF from_bytes, Bytes
    <3>6. QED
      BY <2>2, <3>4, <3>5 DEF Ok
  <2>9. QED
    BY <2>7, <2>8
<1>8. QED
  BY <1>5, <1>6, <1>7

-----------------------------------------------------------------------------
(* What the servers hold.                                                  *)

Slots == [bytes: AllBytes, left: Nat] \cup {Absent}

\* A page as the process q sends it to redis.
Stored(k, q) == base64_encode(Encoded(k, q))

\* The page that process p may answer for k, with its layers off.
Readable(k, q, p) == q \in 1 .. p /\ (On("encrypt") => q = p)

GoodRedis(table, p) ==
    /\ table \in [Keys -> Slots]
    /\ \A k \in Keys : Live(table, k) => \E q \in 1 .. p : table[k].bytes = Stored(k, q)

GoodMemory(table, p) ==
    /\ table \in [Keys -> Slots]
    /\ \A k \in Keys : Live(table, k) =>
          \E q \in 1 .. p : /\ Readable(k, q, p)
                            /\ table[k].bytes = pre_process_search_results(Page(k, q), p)

GoodPipeline(cmds, p) ==
    /\ cmds \in Seq([key: Keys, bytes: AllBytes])
    /\ \A i \in DOMAIN cmds : cmds[i].bytes = Stored(cmds[i].key, p)

\* Redis holds pages as this or an earlier process encoded them, memory pages that
\* this process encoded: of its own if they are encrypted, but without encryption
\* also pages it has read from redis; and the pipeline holds this process's.
CodecInvariant ==
    /\ build \in Builds /\ process \in Processes
    /\ GoodRedis(redis, process)
    /\ GoodMemory(memory, process)
    /\ GoodPipeline(pipeline, process)

LEMMA StoredType ==
    ASSUME NEW k \in Keys, NEW q \in Processes
    PROVE  /\ Encoded(k, q) \in AllBytes
           /\ Stored(k, q) \in AllBytes
           /\ Stored(k, q).page = Page(k, q)
           /\ base64_decode(Stored(k, q)) = Encoded(k, q)
<1>1. /\ Encoded(k, q) \in AllBytes /\ Ok(Encoded(k, q)) /\ Encoded(k, q).page = Page(k, q)
  BY EncodedType DEF Encoded
<1>2. Base64 \in Layers
  BY LayersApart
<1>3. Wrap(Encoded(k, q), Base64).page = Page(k, q)
  BY <1>1 DEF Wrap, Bytes
<1>4. QED
  BY <1>1, <1>2, <1>3, UnwrapWrap DEF Stored, base64_encode, base64_decode

\* What a read gets from redis.
LEMMA RedisRead ==
    ASSUME CodecInvariant, NEW k \in Keys
    PROVE  /\ Ok(InRedis(k)) =>
                /\ InRedis(k).layers = <<>>
                /\ \E q \in 1 .. process : Readable(k, q, process) /\ InRedis(k).page = Page(k, q)
           /\ ~Ok(InRedis(k)) /\ ~TwoFeatures /\ redis_up /\ Live(redis, k) =>
                On("encrypt") /\ redis[k].bytes.page.process < process
<1>1. CASE redis_up /\ Live(redis, k)
  <2>1. PICK q \in 1 .. process : redis[k].bytes = Stored(k, q)
    BY <1>1 DEF CodecInvariant, GoodRedis
  <2>2. q \in Processes /\ process \in Processes /\ build \in Builds
    BY BoundsAssumption DEF CodecInvariant, Processes
  <2>3. InRedis(k) = post_process_search_results(Encoded(k, q), process)
    BY <1>1, <2>1, <2>2, StoredType DEF InRedis
  <2>4. /\ Encoded(k, q) \in AllBytes /\ Encoded(k, q).page = Page(k, q)
        /\ redis[k].bytes.page = Page(k, q)
    BY <2>1, <2>2, StoredType, EncodedType DEF Encoded
  <2>5. Ok(InRedis(k)) => InRedis(k).layers = <<>> /\ InRedis(k).page = Page(k, q)
    BY <2>2, <2>3, <2>4, DecodedType
  <2>6. On("encrypt") /\ q # process => ~Ok(InRedis(k))
    BY <2>2, <2>3, NotDecoded DEF Encoded
  <2>7. ~TwoFeatures /\ (q = process \/ ~On("encrypt")) => Ok(InRedis(k))
    <3>1. CASE q = process /\ ~TwoFeatures
      BY <2>2, <2>3, <3>1, RoundTrip DEF Encoded
    <3>2. CASE ~On("encrypt")
      <4>1. Encoded(k, q) = pre_process_search_results(Page(k, q), process)
        BY <2>2, <3>2, BuildFeatures DEF Encoded, pre_process_search_results, TwoFeatures
      <4>2. ~TwoFeatures
        BY <3>2 DEF TwoFeatures
      <4>3. QED
        BY <2>2, <2>3, <4>1, <4>2, RoundTrip
    <3>3. QED
      BY <3>1, <3>2
  <2>8. redis[k].bytes.page.process = q
    BY <2>4 DEF Page
  <2>9. q \in Nat /\ process \in Nat /\ q <= process
    BY <2>2 DEF Processes
  <2>10. QED
    BY <2>5, <2>6, <2>7, <2>8, <2>9 DEF Readable
<1>2. CASE ~(redis_up /\ Live(redis, k))
  BY <1>2 DEF InRedis, Missing, Bytes, Ok
<1>3. QED
  BY <1>1, <1>2

\* What a read gets from memory.
LEMMA MemoryRead ==
    ASSUME CodecInvariant, NEW k \in Keys
    PROVE  /\ Ok(InMemory(k)) =>
                /\ InMemory(k).layers = <<>>
                /\ \E q \in 1 .. process : Readable(k, q, process) /\ InMemory(k).page = Page(k, q)
           /\ ~Ok(InMemory(k)) /\ ~TwoFeatures => ~Live(memory, k)
<1>1. CASE Live(memory, k)
  <2>1. PICK q \in 1 .. process :
          /\ Readable(k, q, process)
          /\ memory[k].bytes = pre_process_search_results(Page(k, q), process)
    BY <1>1 DEF CodecInvariant, GoodMemory
  <2>2. q \in Processes /\ process \in Processes /\ build \in Builds
    BY BoundsAssumption DEF CodecInvariant, Processes
  <2>3. InMemory(k) = post_process_search_results(memory[k].bytes, process)
    BY <1>1 DEF InMemory
  <2>4. memory[k].bytes \in AllBytes /\ memory[k].bytes.page = Page(k, q)
    BY <2>1, <2>2, EncodedType
  <2>5. Ok(InMemory(k)) => InMemory(k).layers = <<>> /\ InMemory(k).page = Page(k, q)
    BY <2>2, <2>3, <2>4, DecodedType
  <2>6. ~TwoFeatures => Ok(InMemory(k))
    BY <2>1, <2>2, <2>3, RoundTrip
  <2>7. QED
    BY <2>1, <2>5, <2>6
<1>2. CASE ~Live(memory, k)
  BY <1>2 DEF InMemory, Missing, Bytes, Ok
<1>3. QED
  BY <1>1, <1>2

-----------------------------------------------------------------------------
(* The steps.                                                              *)

\* The build decides what is encoded how, and does not change.
LEMMA SameBuild ==
    ASSUME build' = build, NEW k, NEW q, NEW p
    PROVE  /\ pre_process_search_results(Page(k, q), p)' = pre_process_search_results(Page(k, q), p)
           /\ Stored(k, q)' = Stored(k, q)
           /\ Readable(k, q, p)' <=> Readable(k, q, p)
  BY DEF pre_process_search_results, Stored, Encoded, Readable, On, base64_encode,
         compress_encrypt_compress_results, compress_results, encrypt_results, Wrap, Bytes, Page,
         Base64, Compressed, Encrypted

\* A set of naturals that is not empty has a least element.
LEMMA SmallestNat ==
    ASSUME NEW S \in SUBSET Nat, S # {}
    PROVE  \E i \in S : \A j \in S : i <= j
<1> DEFINE Less == OpToRel(<, Nat)
<1>1. IsWellFoundedOn(Less, Nat)
  BY NatLessThanWellFounded
<1>2. \A i, j \in Nat : i < j => <<i, j>> \in Less
  BY DEF OpToRel
<1> HIDE DEF Less
<1>3. \E i \in S : \A j \in S : ~ (<<j, i>> \in Less)
  BY <1>1, WFMin
<1>4. PICK i \in S : \A j \in S : ~ (<<j, i>> \in Less)
  BY <1>3
<1>5. \A j \in S : i \in Nat /\ j \in Nat /\ ~(j < i)
  BY <1>2, <1>4
<1>6. \A j \in S : i <= j
  BY <1>5
<1>7. QED
  BY <1>6

\* The type of an element of a sequence.
LEMMA ElementType ==
    ASSUME NEW T, NEW s \in Seq(T), NEW i \in DOMAIN s
    PROVE  s[i] \in T
  OBVIOUS

\* A pipeline leaves good entries in redis.
LEMMA SetsKeepRedis ==
    ASSUME CodecInvariant, NEW cmds, GoodPipeline(cmds, process)
    PROVE  GoodRedis(AfterSets(cmds), process)
<1> DEFINE table == AfterSets(cmds)
<1>1. ASSUME NEW k \in Keys
      PROVE  table[k] \in Slots /\ (Live(table, k) => \E q \in 1 .. process : table[k].bytes = Stored(k, q))
  <2>1. CASE Live(redis, k) \/ Sets(cmds, k) = {}
    <3>1. table[k] = redis[k]
      BY <2>1 DEF AfterSets
    <3>2. QED
      BY <3>1 DEF CodecInvariant, GoodRedis, Live
  <2>2. CASE ~(Live(redis, k) \/ Sets(cmds, k) = {})
    <3>1. PICK i \in Sets(cmds, k) : \A j \in Sets(cmds, k) : i <= j
      <4>1. Sets(cmds, k) \subseteq Nat /\ Sets(cmds, k) # {}
        BY <2>2 DEF Sets, GoodPipeline
      <4>2. QED
        BY <4>1, SmallestNat
    <3>2. (CHOOSE i_1 \in Sets(cmds, k) : \A j \in Sets(cmds, k) : i_1 <= j) \in Sets(cmds, k)
      BY <3>1
    <3>3. PICK n \in Sets(cmds, k) : table[k] = Fresh(cmds[n].bytes)
      BY <2>2, <3>2 DEF AfterSets
    <3>4. n \in DOMAIN cmds /\ cmds[n].key = k /\ cmds[n].bytes \in AllBytes
      <4>1. n \in DOMAIN cmds /\ cmds[n].key = k
        BY <3>3 DEF Sets
      <4>2. cmds[n] \in [key: Keys, bytes: AllBytes]
        <5>1. cmds \in Seq([key: Keys, bytes: AllBytes])
          BY DEF GoodPipeline
        <5>2. QED
          BY <4>1, <5>1, ElementType
      <4>3. QED
        BY <4>1, <4>2
    <3>5. cmds[n].bytes = Stored(k, process)
      BY <3>4 DEF GoodPipeline
    <3>6. table[k] \in Slots /\ table[k].bytes = Stored(k, process)
      BY <3>3, <3>4, <3>5, TTLAssumption DEF Fresh, Slots
    <3>7. process \in 1 .. process
      BY BoundsAssumption DEF CodecInvariant, Processes
    <3>8. QED
      BY <3>6, <3>7
  <2>3. QED
    BY <2>1, <2>2
<1>2. table \in [Keys -> Slots]
  BY <1>1 DEF AfterSets
<1>3. QED
  BY <1>1, <1>2 DEF GoodRedis

LEMMA AppendType ==
    ASSUME NEW T, NEW s, s \in Seq(T), NEW e
    PROVE  /\ e \in T => Append(s, e) \in Seq(T)
           /\ \A i \in DOMAIN Append(s, e) :
                Append(s, e)[i] = IF i \in DOMAIN s THEN s[i] ELSE e
  OBVIOUS

\* An entry that lives after a tick lived before it, with the same bytes.
LEMMA OlderEntry ==
    ASSUME NEW table \in [Keys -> Slots], NEW k \in Keys
    PROVE  /\ Older(table)[k] \in Slots
           /\ Live(Older(table), k) => Live(table, k) /\ Older(table)[k].bytes = table[k].bytes
<1>1. CASE table[k].left <= 1
  BY <1>1 DEF Older, Live, Absent, Slots
<1>2. CASE ~(table[k].left <= 1)
  <2>1. table[k] \in [bytes: AllBytes, left: Nat]
    BY <1>2 DEF Slots, Absent
  <2>2. PICK b \in AllBytes, n \in Nat : table[k] = [bytes |-> b, left |-> n]
    BY <2>1
  <2>3. Older(table)[k] = [bytes |-> b, left |-> n - 1] /\ n > 1
    BY <1>2, <2>2 DEF Older
  <2>4. QED
    BY <2>2, <2>3 DEF Live, Slots
<1>3. QED
  BY <1>1, <1>2

\* A tick leaves good entries.
LEMMA OlderKeepsRedis ==
    ASSUME NEW table, NEW p, GoodRedis(table, p)
    PROVE  GoodRedis(Older(table), p)
<1>1. ASSUME NEW k \in Keys
      PROVE  /\ Older(table)[k] \in Slots
             /\ Live(Older(table), k) => Live(table, k) /\ Older(table)[k].bytes = table[k].bytes
  BY OlderEntry DEF GoodRedis
<1>2. Older(table) \in [Keys -> Slots]
  BY <1>1 DEF Older
<1>3. QED
  BY <1>1, <1>2 DEF GoodRedis

LEMMA OlderKeepsMemory ==
    ASSUME NEW table, NEW p, GoodMemory(table, p)
    PROVE  GoodMemory(Older(table), p)
<1>1. ASSUME NEW k \in Keys
      PROVE  /\ Older(table)[k] \in Slots
             /\ Live(Older(table), k) => Live(table, k) /\ Older(table)[k].bytes = table[k].bytes
  BY OlderEntry DEF GoodMemory
<1>2. Older(table) \in [Keys -> Slots]
  BY <1>1 DEF Older
<1>3. QED
  BY <1>1, <1>2 DEF GoodMemory

\* A page that has been cached or read goes into memory as this process encodes it.
LEMMA FreshKeepsMemory ==
    ASSUME CodecInvariant, NEW k \in Keys, NEW q \in 1 .. process,
           Readable(k, q, process)
    PROVE  GoodMemory([memory EXCEPT ![k] =
                         Fresh(pre_process_search_results(Page(k, q), process))], process)
<1> DEFINE bytes == pre_process_search_results(Page(k, q), process)
           table == [memory EXCEPT ![k] = Fresh(bytes)]
<1>1. process \in Processes /\ q \in Processes
  BY BoundsAssumption DEF CodecInvariant, Processes
<1>2. bytes \in AllBytes
  BY <1>1, EncodedType DEF CodecInvariant
<1>3. memory \in [Keys -> Slots]
  BY DEF CodecInvariant, GoodMemory
<1> HIDE DEF bytes
<1>4. Fresh(bytes) \in Slots /\ Fresh(bytes).bytes = bytes
  BY <1>2, TTLAssumption DEF Fresh, Slots
<1>5. table \in [Keys -> Slots]
  BY <1>3, <1>4
<1>6. ASSUME NEW x \in Keys, Live(table, x)
      PROVE  \E r \in 1 .. process : /\ Readable(x, r, process)
                                     /\ table[x].bytes = pre_process_search_results(Page(x, r), process)
  <2>1. CASE x = k
    BY <1>3, <1>4, <2>1 DEF bytes
  <2>2. CASE x # k
    BY <1>3, <1>6, <2>2 DEF CodecInvariant, GoodMemory, Live
  <2>3. QED
    BY <2>1, <2>2
<1>7. QED
  BY <1>5, <1>6 DEF GoodMemory, bytes

\* A call of cache_results appends a good command.
LEMMA AppendKeepsPipeline ==
    ASSUME CodecInvariant, NEW k \in Keys
    PROVE  GoodPipeline(Append(pipeline, Command(k, base64_encode(
             pre_process_search_results(Page(k, process), process)))), process)
<1> DEFINE command == Command(k, Stored(k, process))
           cmds == Append(pipeline, command)
<1>1. process \in Processes
  BY DEF CodecInvariant
<1>2. command \in [key: Keys, bytes: AllBytes] /\ command.key = k /\ command.bytes = Stored(k, process)
  BY <1>1, StoredType DEF Command
<1>3. pipeline \in Seq([key: Keys, bytes: AllBytes])
  BY DEF CodecInvariant, GoodPipeline
<1>4. command = Command(k, base64_encode(pre_process_search_results(Page(k, process), process)))
  BY DEF Stored, Encoded
<1> HIDE DEF command
<1>5. cmds \in Seq([key: Keys, bytes: AllBytes])
  BY <1>2, <1>3, AppendType
<1>6. ASSUME NEW i \in DOMAIN cmds
      PROVE  cmds[i].bytes = Stored(cmds[i].key, process)
  <2>1. CASE i \in DOMAIN pipeline
    <3>1. cmds[i] = pipeline[i]
      BY <1>3, <2>1, AppendType
    <3>2. QED
      BY <2>1, <3>1 DEF CodecInvariant, GoodPipeline
  <2>2. CASE i \notin DOMAIN pipeline
    <3>1. cmds[i] = command
      BY <1>3, <2>2, AppendType
    <3>2. QED
      BY <1>2, <3>1
  <2>3. QED
    BY <2>1, <2>2
<1>7. QED
  BY <1>4, <1>5, <1>6 DEF GoodPipeline

\* The invariant in the next state, with the build carried over.
LEMMA NextInvariant ==
    ASSUME CodecInvariant, build' = build, process' \in Processes,
           GoodRedis(redis', process'), GoodMemory(memory', process'),
           GoodPipeline(pipeline', process')
    PROVE  CodecInvariant'
<1>1. GoodRedis(redis, process)'
  BY SameBuild DEF GoodRedis, Live
<1>2. GoodMemory(memory, process)'
  BY SameBuild DEF GoodMemory, Live
<1>3. GoodPipeline(pipeline, process)'
  BY SameBuild DEF GoodPipeline
<1>4. QED
  BY <1>1, <1>2, <1>3 DEF CodecInvariant

\* What a caller is answered, and what an answer in error says of the servers.
Answers == ReadsAreThePage /\ OwnEntriesReadBack

\* A step that reads nothing answers no page.
LEMMA NoRead ==
    ASSUME reply'.kind # "read"
    PROVE  Answers'
  BY DEF Answers, ReadsAreThePage, OwnEntriesReadBack, WasRead

\* A read that got the page as RedisRead and MemoryRead promise answers it.
LEMMA ReadAnswers ==
    ASSUME NEW k \in Keys, NEW bytes, reply' = Read(k, bytes),
           build' = build, process' = process,
           Ok(bytes) =>
             /\ bytes.layers = <<>>
             /\ \E q \in 1 .. process : Readable(k, q, process) /\ bytes.page = Page(k, q)
    PROVE  ReadsAreThePage'
<1>1. reply'.kind = "read" /\ reply'.key = k /\ reply'.bytes = bytes
  BY DEF Read
<1>2. CASE Ok(bytes)
  <2>1. PICK q \in 1 .. process : Readable(k, q, process) /\ bytes.page = Page(k, q)
    BY <1>2
  <2>2. bytes.page.key = k /\ bytes.page.process = q
    BY <2>1 DEF Page
  <2>3. On("encrypt")' => q = process'
    BY <2>1 DEF On, Readable
  <2>4. QED
    BY <1>1, <1>2, <2>2, <2>3 DEF ReadsAreThePage
<1>3. CASE ~Ok(bytes)
  BY <1>1, <1>3 DEF ReadsAreThePage, WasRead, Ok
<1>4. QED
  BY <1>2, <1>3

LEMMA ReadStep ==
    ASSUME CodecInvariant, NEW k \in Keys, cached_results(k)
    PROVE  CodecInvariant' /\ Answers'
<1> USE DEF CodecInvariant
<1>1. /\ build' = build /\ process' = process /\ redis' = redis /\ redis_up' = redis_up
      /\ pipeline' = pipeline
  BY DEF cached_results
<1>2. CASE Ok(InMemory(k)) \/ ~RedisBuild \/ ~Ok(InRedis(k))
  <2>1. reply' = Read(k, InMemory(k)) /\ memory' = memory
    BY <1>2 DEF cached_results
  <2>2. CodecInvariant'
    BY <1>1, <2>1, NextInvariant
  <2>3. ReadsAreThePage'
    BY <1>1, <2>1, MemoryRead, ReadAnswers
  <2>4. ASSUME ~Ok(InMemory(k)), ~TwoFeatures
        PROVE  /\ ~Live(memory, k)
               /\ RedisBuild /\ redis_up /\ Live(redis, k) =>
                    On("encrypt") /\ redis[k].bytes.page.process < process
    BY <1>2, <2>4, MemoryRead, RedisRead
  <2>5. OwnEntriesReadBack'
    BY <1>1, <2>1, <2>4 DEF OwnEntriesReadBack, Read, Ok, On, Live, TwoFeatures, RedisBuild
  <2>6. QED
    BY <2>2, <2>3, <2>5 DEF Answers
<1>3. CASE ~(Ok(InMemory(k)) \/ ~RedisBuild \/ ~Ok(InRedis(k)))
  <2>1. reply' = Read(k, InRedis(k))
    BY <1>3 DEF cached_results
  <2>2. ReadsAreThePage'
    BY <1>1, <2>1, RedisRead, ReadAnswers
  <2>3. PICK q \in 1 .. process : Readable(k, q, process) /\ InRedis(k).page = Page(k, q)
    BY <1>3, RedisRead
  <2>4. memory' = [memory EXCEPT ![k] =
                     Fresh(pre_process_search_results(Page(k, q), process))]
    BY <1>3, <2>3 DEF cached_results
  <2>5. GoodMemory(memory', process)
    BY <2>3, <2>4, FreshKeepsMemory
  <2>6. CodecInvariant'
    BY <1>1, <2>5, NextInvariant
  <2>7. OwnEntriesReadBack'
    BY <1>1, <1>3, <2>1 DEF OwnEntriesReadBack, Read, Ok
  <2>8. QED
    BY <2>2, <2>6, <2>7 DEF Answers
<1>4. QED
  BY <1>2, <1>3

LEMMA ExistsStep ==
    ASSUME CodecInvariant, NEW k \in Keys, cached_results_exists(k)
    PROVE  CodecInvariant' /\ Answers'
<1>1. build' = build /\ process' = process /\ memory' = memory /\ pipeline' = pipeline
  BY DEF cached_results_exists
<1>2. redis' = AfterSets(pipeline) \/ redis' = redis
  BY DEF cached_results_exists
<1>3. GoodRedis(redis', process)
  BY <1>2, SetsKeepRedis DEF CodecInvariant
<1>4. CodecInvariant'
  BY <1>1, <1>3, NextInvariant DEF CodecInvariant
<1>5. reply'.kind # "read"
  BY DEF cached_results_exists
<1>6. QED
  BY <1>4, <1>5, NoRead

LEMMA CacheStep ==
    ASSUME CodecInvariant, NEW k \in Keys, cache_results(k)
    PROVE  CodecInvariant' /\ Answers'
<1> DEFINE bytes == pre_process_search_results(Page(k, process), process)
           cmds == Append(pipeline, Command(k, base64_encode(bytes)))
<1>1. GoodPipeline(cmds, process)
  BY AppendKeepsPipeline
<1>2. GoodRedis(AfterSets(cmds), process)
  BY <1>1, SetsKeepRedis
<1>3. process \in 1 .. process /\ Readable(k, process, process)
  BY BoundsAssumption DEF CodecInvariant, Processes, Readable
<1>4. GoodMemory([memory EXCEPT ![k] = Fresh(bytes)], process)
  BY <1>3, FreshKeepsMemory
<1> HIDE DEF cmds, bytes
<1>5. /\ redis' = AfterSets(cmds) \/ redis' = redis
      /\ memory' = [memory EXCEPT ![k] = Fresh(bytes)] \/ memory' = memory
      /\ pipeline' = cmds \/ pipeline' = pipeline
      /\ build' = build /\ process' = process /\ reply' = NoReply
  BY DEF cache_results, cmds, bytes, Silent
<1>6. CodecInvariant'
  BY <1>1, <1>2, <1>4, <1>5, NextInvariant DEF CodecInvariant
<1>7. Answers'
  BY <1>5, NoRead DEF NoReply
<1>8. QED
  BY <1>6, <1>7

LEMMA TickStep ==
    ASSUME CodecInvariant, Tick
    PROVE  CodecInvariant' /\ Answers'
<1>1. GoodRedis(redis', process) /\ GoodMemory(memory', process)
  BY OlderKeepsRedis, OlderKeepsMemory DEF CodecInvariant, Tick
<1>2. CodecInvariant'
  BY <1>1, NextInvariant DEF CodecInvariant, Tick
<1>3. QED
  BY <1>2, NoRead DEF Tick, Silent, NoReply

LEMMA OutageStep ==
    ASSUME CodecInvariant, RedisFails \/ RedisRecovers
    PROVE  CodecInvariant' /\ Answers'
<1>1. CodecInvariant'
  BY NextInvariant DEF CodecInvariant, RedisFails, RedisRecovers
<1>2. QED
  BY <1>1, NoRead DEF RedisFails, RedisRecovers, Silent, NoReply

\* What an earlier process left in redis stays there.
LEMMA RestartStep ==
    ASSUME CodecInvariant, Restart
    PROVE  CodecInvariant' /\ Answers'
<1>1. /\ process' = process + 1 /\ process' \in Processes /\ 1 .. process \subseteq 1 .. process'
      /\ build' = build /\ redis' = redis /\ pipeline' = <<>>
      /\ memory' = [k \in Keys |-> Absent]
  BY BoundsAssumption DEF CodecInvariant, Restart, Processes
<1>2. GoodRedis(redis', process')
  BY <1>1 DEF CodecInvariant, GoodRedis
<1>3. GoodMemory(memory', process')
  BY <1>1 DEF GoodMemory, Slots, Live, Absent
<1>4. GoodPipeline(pipeline', process')
  BY <1>1 DEF GoodPipeline
<1>5. CodecInvariant'
  BY <1>1, <1>2, <1>3, <1>4, NextInvariant
<1>6. QED
  BY <1>5, NoRead DEF Restart, Silent, NoReply

\* A step of the program keeps the invariant and answers as promised.
LEMMA CodecStep ==
    ASSUME CodecInvariant, Answers, [Next]_vars
    PROVE  CodecInvariant' /\ Answers'
<1>1. CASE Call
  BY <1>1, ReadStep, ExistsStep, CacheStep DEF Call
<1>2. CASE Tick
  BY <1>2, TickStep
<1>3. CASE RedisFails \/ RedisRecovers
  BY <1>3, OutageStep
<1>4. CASE Restart
  BY <1>4, RestartStep
<1>5. CASE UNCHANGED vars
  <2>1. CodecInvariant'
    BY <1>5, NextInvariant DEF vars, CodecInvariant
  <2>2. Answers'
    BY <1>5 DEF vars, Answers, ReadsAreThePage, OwnEntriesReadBack, WasRead, Ok, On, Live,
                TwoFeatures, RedisBuild
  <2>3. QED
    BY <2>1, <2>2
<1>6. QED
  BY <1>1, <1>2, <1>3, <1>4, <1>5 DEF Next

LEMMA CodecInit ==
    ASSUME Init
    PROVE  CodecInvariant /\ Answers
<1>1. GoodRedis(redis, process) /\ GoodMemory(memory, process) /\ GoodPipeline(pipeline, process)
  BY DEF Init, GoodRedis, GoodMemory, GoodPipeline, Slots, Live, Absent
<1>2. CodecInvariant
  BY <1>1, BoundsAssumption DEF Init, CodecInvariant, Processes
<1>3. QED
  BY <1>2 DEF Init, Answers, ReadsAreThePage, OwnEntriesReadBack, WasRead, NoReply

LEMMA CodecAlways == Spec => [](CodecInvariant /\ Answers)
<1>1. Init => CodecInvariant /\ Answers
  BY CodecInit
<1>2. (CodecInvariant /\ Answers) /\ [Next]_vars => (CodecInvariant /\ Answers)'
  BY CodecStep
<1>3. QED
  BY <1>1, <1>2, PTL DEF Spec

\* For every number of keys, builds and restarts: a value read from the cache is the
\* page that was asked for, and with encryption one this very process has cached.
THEOREM CodecReadsThePage == Spec => []ReadsAreThePage
<1>1. Answers => ReadsAreThePage
  BY DEF Answers
<1>2. QED
  BY <1>1, CodecAlways, PTL

\* For every number of keys, builds and restarts: without both features, a read errs
\* only when the reachable servers hold nothing this process could have written.
THEOREM CodecReadsBack == Spec => []OwnEntriesReadBack
<1>1. Answers => OwnEntriesReadBack
  BY DEF Answers
<1>2. QED
  BY <1>1, CodecAlways, PTL

\* A true flag that has just been answered is that of a page a server still holds.
FlagIsOfEntry ==
    reply.kind = "exists" /\ reply.exists =>
        /\ reply.key \in Keys
        /\ (RedisBuild /\ redis_up /\ Live(redis, reply.key)) \/ Live(memory, reply.key)

LEMMA ExistsFlag ==
    ASSUME NEW k \in Keys, cached_results_exists(k)
    PROVE  FlagIsOfEntry'
<1> DEFINE flags(table) == [kind |-> "exists", key |-> k, exists |-> Live(table, k)]
<1>1. build' = build /\ redis_up' = redis_up /\ memory' = memory
  BY DEF cached_results_exists
<1>2. CASE RedisBuild /\ redis_up /\ ~SomeSetFindsValue(pipeline)
  <2>1. reply' = flags(redis')
    BY <1>2 DEF cached_results_exists
  <2>2. reply'.key = k /\ (reply'.exists => Live(redis', k))
    BY <2>1
  <2>3. QED
    BY <1>1, <1>2, <2>2 DEF FlagIsOfEntry, RedisBuild, Live
<1>3. CASE ~(RedisBuild /\ redis_up /\ ~SomeSetFindsValue(pipeline))
  <2>1. reply' = flags(memory)
    BY <1>3 DEF cached_results_exists
  <2>2. reply'.key = k /\ (reply'.exists => Live(memory, k))
    BY <2>1
  <2>3. QED
    BY <1>1, <2>2 DEF FlagIsOfEntry, Live
<1>4. QED
  BY <1>2, <1>3

LEMMA FlagStep ==
    ASSUME FlagIsOfEntry, [Next]_vars
    PROVE  FlagIsOfEntry'
<1>1. CASE \E k \in Keys : cached_results_exists(k)
  BY <1>1, ExistsFlag
<1>2. CASE (\E k \in Keys : cached_results(k) \/ cache_results(k))
           \/ Tick \/ RedisFails \/ RedisRecovers \/ Restart
  <2>1. reply'.kind # "exists"
    BY <1>2 DEF cached_results, cache_results, Tick, RedisFails, RedisRecovers, Restart,
                Read, Silent, NoReply
  <2>2. QED
    BY <2>1 DEF FlagIsOfEntry
<1>3. CASE UNCHANGED vars
  BY <1>3 DEF vars, FlagIsOfEntry, RedisBuild, Live
<1>4. QED
  BY <1>1, <1>2, <1>3 DEF Next, Call

\* For every number of keys, builds and failovers: in a build with at most one of the
\* two features, and until a restart changes the key, a true flag of
\* cached_results_exists is of results that cached_results can read.
THEOREM FlagsAreReadable == Spec => []ExistsIsReadable
<1>1. Init => FlagIsOfEntry
  BY DEF Init, NoReply, FlagIsOfEntry
<1>2. FlagIsOfEntry /\ [Next]_vars => FlagIsOfEntry'
  BY FlagStep
<1>3. CodecInvariant /\ FlagIsOfEntry => ExistsIsReadable
  <2> SUFFICES ASSUME CodecInvariant, FlagIsOfEntry,
                      reply.kind = "exists" /\ reply.exists, ~TwoFeatures,
                      On("encrypt") => process = 1
               PROVE  Ok(InMemory(reply.key)) \/ Ok(InRedis(reply.key))
    BY DEF ExistsIsReadable
  <2> DEFINE k == reply.key
  <2>1. k \in Keys
    BY DEF FlagIsOfEntry
  <2>2. CASE Live(memory, k)
    BY <2>1, <2>2, MemoryRead
  <2>3. CASE RedisBuild /\ redis_up /\ Live(redis, k)
    <3>1. PICK q \in 1 .. process : redis[k].bytes = Stored(k, q)
      BY <2>1, <2>3 DEF CodecInvariant, GoodRedis
    <3>2. q \in Processes /\ process \in Processes
      BY BoundsAssumption DEF CodecInvariant, Processes
    <3>3. redis[k].bytes.page.process = q
      <4>1. Stored(k, q).page = Page(k, q)
        BY <2>1, <3>2, StoredType
      <4>2. QED
        BY <3>1, <4>1 DEF Page
    <3>4. process = 1 => ~(q < process)
      BY <3>2, BoundsAssumption DEF Processes
    <3>5. QED
      BY <2>1, <2>3, <3>3, <3>4, RedisRead
  <2>4. QED
    BY <2>2, <2>3 DEF FlagIsOfEntry
<1>4. QED
  BY <1>1, <1>2, <1>3, CodecAlways, PTL DEF Spec

=============================================================================
