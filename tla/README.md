# castella: TLA+ models, checks and proofs

castella (`src/`) is a storage gateway. It encrypts uploaded byte streams in
1 MiB chunks with XChaCha20-Poly1305. It stores the ciphertext as files in a
pool of Google shared drives that grows on demand, and keeps a PostgreSQL row
for each file. A ranged GET is served by fetching only the ciphertext chunks
that cover the range and decrypting them on the fly. This directory holds the
TLA+ modules that model the system, the TLC configurations that check them,
and TLAPS proofs.

## 1. Inventory of the system

| Component | Source | State it keeps | Operations | Interacts with |
|---|---|---|---|---|
| Store (request logic) | `store.rs` 44-300 | `file_alloc_mutex` (the allocation gate) | `allocate_file`, `upload`, `get`, `get_info`, `delete` | Db, Drive, stream adapters |
| Database | `db.rs` | tables `drives`, `files` (serial keys), `config` | `migrate`, `add_drive`, `get_drive_by_least_files`, `add_file`, `get_file_by_key`, `delete_file_by_key`; each runs in its own transaction | Store |
| Remote drive client | `drive.rs` | remote shared drives and file objects | `create_drive`, `create_file` (multipart upload), `get_file` (ranged, with a response-range check), `delete_file` | Authenticator, request limiter, BandwidthLimiter |
| Stream adapters | `stream.rs` 27-151 | per-stream `State` of a `try_unfold` | `slice_stream`, `chunk_stream` (StreamReader + `read_exact`) | Store pipelines |
| Chunk cipher | `store.rs` 303-474 | key, base nonce | `get_chunk_nonce` (base + id, wrapping u32), `encrypt`/`decrypt`, `encrypt_stream`, `decrypt_stream` | pipelines |
| BandwidthLimiter | `stream.rs` 153-233 | atomic `leftover`, governor limiter | `throttle` (CAS loop, `until_n_ready`), `throttle_stream` | upload pipeline |
| Request limiter | `rate_limit.rs`, governor | GCRA state | `until_ready` before every remote request | Drive client |
| Authenticator | `auth.rs` | `Mutex<Option<(token, expiry)>>` | `access_token` (refresh when expired), `header` | Drive client |
| Range header parser | `header.rs` | none | `parse_single_range_header` | HTTP server |
| HTTP server | `server.rs` | none | `GET /{key}`, `HEAD`, `POST /`, `DELETE /{key}`, `handle_result` | Store |
| CLI and config | `main.rs`, `http.rs` | none after start-up | argument parsing, client construction | all |

These behaviours are hard to test:

* Concurrent requests interleave at every `.await`. Uploads contend for the
  allocation gate, and the drive chosen under the gate is used after it is
  released.
* Any awaited step can fail, or the request future can be dropped. Such a
  failure leaves orphan drives or objects behind.
* Delete removes the row first and the remote object second.
* A ranged read goes through four chained pull streams. The network splits
  the body at arbitrary points.
* The provider may answer a wider range or the whole file.
* Chunk nonces are computed from the chunk index, so a ranged read has to
  start decrypting at the right nonce.
* The decrypt stream yields plaintext chunk by chunk, before later chunks
  have been authenticated.
* Concurrent uploads share the bandwidth limiter's sub-unit residual through
  a compare-and-swap loop, and await the bucket after committing to it.
* The access token is checked and refreshed under a Mutex, with the expiry
  computed from an instant read before the token request.

The hazards are listed with their source lines in `PROJECT.json`
(`hazards`).

## 2. Modules

### `Store.tla`: request-level behaviour of Store over the database and the remote drive

The model's state is:

* `drives`: drive ids with a row.
* `files`: rows `[key, id, drive]`.
* `remote`: ids of the remote objects that exist.
* `fileSeq`, `remoteSeq`, `driveSeq`: the values drawn from the `files` key
  serial by inserts so far, and the two id counters.
* `gate`: the holder of `file_alloc_mutex`, or `NoProc`.
* Per task: the position `pc`, plus the locals `drv`, `rid`, `req` and `row`.

Each request task (`Procs`) runs one of three operations:

* **`upload`**:
  * `StartUpload`
  * `Lock`: `file_alloc_mutex.lock()`
  * `AllocQuery`: `get_drive_by_least_files`. Either a drive is found and the guard is dropped, or none is found.
  * `CreateDrive`
  * `AddDrive`: releases the gate.
  * `CreateFile`
  * `AddFile`: `Db::add_file` begins a transaction and inserts the row. The
    insert draws `fileSeq + 1` from the serial and holds the row, uncommitted
    and invisible to other tasks, in `row`.
  * `Commit`: the commit makes the row visible in `files`. Commits of two
    tasks land in either order, so rows can appear out of key order.
* **`get`**: `StartGet`, `GetRow` (`update ... returning`), `GetRemote`.
* **`delete`**: `StartDelete`, `DeleteRow` (`delete ... returning`), `DeleteRemote`.

`UploadFail`, `GetFail` and `DeleteFail` model a `?` error or a dropped
future at any awaited step. An upload that fails between the insert and the
commit is rolled back: the row is gone, but the serial value it drew is
spent, as Postgres sequences are not transactional. `Finish` ends a request: the task's locals go out
of scope and the guard is dropped. `LeastFilesDrives` is the SQL query
(`coalesce(count,0) <= max_files order by count limit 1`, ties arbitrary).

Data is abstracted to ids. Secrets, sizes and content types are left out,
because no property here depends on them.

### `Download.tla`: one ranged read

**Planning.**

* `Request` covers `Store::get` after the row is found: `ResolveRange` and
  `Plan` (chunk range, encrypted range, `ContentRange`).
* `RangeInputs` is what `parse_single_range_header` can produce: no range, or
  two bounds, each `Unbounded` or `Included(v)`.

**Fetching.** `Fetch` is `Drive::get_file`. It has three outcomes:

* The response covers the request. `Answers` lists what the provider can
  send. Its range is the 206 `Content-Range` or the 200 `0..Content-Length`,
  and the body is the stored ciphertext in that range. The last element is
  the fallback `unwrap_or(range.clone())`: a 200 without `Content-Length` is
  taken for the requested range, while its body is the whole file from byte
  0. In every case one byte of the body may be altered.
* The range is too narrow, which gives `FileRangeResponseInvalid`.
* The request fails.

**Streaming.** The chain is a pull chain: exactly one stage runs at a time.

* `active` is the running stage. `msg` is what it was handed: `Call` (it was
  polled) or the `Item`, `End` or `Err` its upstream returned.
* The stages are `Network` (`bytes_stream`: items of 1..`MaxNet` bytes, end,
  or a transport error), `SliceResponse`, `Chunk`, `Decrypt`, `SliceContent`
  and `Consume`.
* `Consume` is hyper sending `wrap_stream(content)` under the
  `Content-Length` of `b - a` that `get_file` declares (`server.rs:150-157`).
  hyper's length encoder cuts the item that reaches that length, sends the
  response and drops the stream unpolled. A stream that ends, or fails,
  before then aborts the response (`status = "err"`). `out` is what the
  stream yielded; `Sent` is its first `b - a` bytes, what the client gets.
* The pure operators `SlicePoll`, `ChunkPoll` and `DecryptPoll` give one run
  of each `try_unfold` closure. Each returns its new `State` and its answer,
  or `Call` when it awaits `stream.next()`.
* `ChunkPoll` keeps the StreamReader's leftover bytes in `buf`.
* `Done` returns the task to idle for the next request.

**Bytes.**

* Plaintext byte `i` is the number `i`.
* Its ciphertext under nonce `n` is `<<"c", n, i>>`.
* A tag byte is `<<"t", n, m>>`.
* An altered byte is `<<"x">>`.
* `Opens(n, c)` holds exactly when `c = Seal(n, m)` for some `m`. This is an
  ideal AEAD: a chunk authenticates only under the nonce it was sealed with,
  and only unaltered.
* `Nonce(cid) = (NonceBase + cid) % NonceModulus` is `get_chunk_nonce`'s
  wrapping add.

`Download` takes its codec operators (`Nonce`, `Seal`, `Opens`,
`Ciphertext`, `EncryptedSize`, `ChunkPoll`) from `ChunkCodec`.

### `ChunkCodec.tla`: the chunked ciphertext format shared by upload and download

It holds the constants `ChunkSize`, `TagSize`, `NonceBase` and
`NonceModulus`, the ideal AEAD above, `Ciphertext(s)` (chunk j of the
plaintext of size s sealed under `Nonce(j)`), `EncryptedSize` (the formula of
`store.rs:132`, with `size.saturating_sub(1)`), and `chunk_stream`'s poll
function `ChunkPoll` with its `read_exact` framing over a state
`[buf, remaining, chunkSize]`. Upload frames at `ChunkSize`, Download at
`EncChunkSize`.

### `Upload.tla`: the body of one upload

`Store::upload` chains the client body, `chunk_stream(size, .., CHUNK_SIZE)`,
`encrypt_stream(.., 0)` and `create_file`'s hyper body, which runs under the
content-length `encrypted_size(size)`. The pull chain is modelled as in
Download (`active`, `msg`):

* `Start`: the chain is built for a declared size in `UploadSizes`.
* `ClientBody`: warp's body stream yields items of 1..`MaxItem` bytes, ends,
  or fails (`fault`) when the connection breaks.
* `Chunk` (`ChunkPoll`) and `Encrypt` (`EncryptPoll`: seal under
  `Nonce(chunk_id)` and advance `chunk_id`).
* `Send`: hyper appends the item, fails on a body longer than the
  content-length, completes on an end at exactly that length (the provider
  keeps `stored`), fails on an early end (`mismatch`) or on an error.
* `Done`: ready for the next upload.

The multipart prefix and suffix add equal counts to body and content-length
and are left out. `throttle_stream` passes items unchanged; it is modelled in
`BandwidthLimiter`.

### `BandwidthLimiter.tla`: `throttle` under concurrent uploads

Each task (`Tasks`) runs one `throttle_stream`. The shared state is the
atomic `leftover` and the governor bucket, abstracted to `tokens` cells (at
most `Burst`). Per task: `pc`, the locals `old`, `len`, `consume`, and the
buffers left in its body. Actions:

* `Fetch`: the next buffer and `leftover.load`.
* `EndOfStream`: the body ends or fails.
* `CasCommit`: `compare_exchange_weak` succeeds (guard `leftover = old`);
  `consume = (old + len) / unit`; with 0 the `NonZeroU32` conversion fails
  and the buffer is yielded at once.
* `CasRetry`: the exchange fails and `old` becomes the current value.
* `Reject`: `until_n_ready(consume)` with `consume > burst` returns
  `InsufficientCapacity`, which `let _ =` drops; the buffer passes.
* `Acquire`: the bucket holds `consume` cells; they are taken.
* `Cancel`: the stream is dropped during the await.
* `Refill`: time gives a cell back (up to `MaxRefill` times).

The history counters `accounted`, `charged`, `rejected`, `cancelled`,
`passed` and `refilled` exist only for the properties.

### `TokenCache.tla`: the access-token cache of `Authenticator`

State: `clock`, the cache `[tok, exp]` (`tok = 0` is `None`), the Mutex
`holder`, per task `pc`, request()'s `now` and the response in flight
`pending`, and `issued`, the real expiry of every token the provider gave.

* `Call` (`header()`), `Lock`, `LockAbandon` (a dropped waiter).
* `CacheHit`: `expires > now`, the token is returned and the guard dropped.
* `CacheMiss`: request() starts and reads `now`.
* `Issue`: the provider answers with `expires_in \in ExpiresIn`, token k
  really expiring at `clock + expires_in`.
* `Receive`: the cache becomes `now + TrustedFor(expires_in)` where
  `TrustedFor(e) = max(e - Margin, Margin)` (saturating), and the guard drops.
* `RequestFail`: a `?` error or a dropped future; the old value stays.
* `Tick`: time passes, up to `MaxTime`.

The 10 s margin is the constant `Margin`.

### `TokenCacheSpec.tla`: what the token cache promises

Three variables: `clock`, `cache` (`[tok, exp]`: the index of the cached
token and the expiry it is trusted to) and `issued` (`issued[k]` is the real
expiry of the k-th token granted). `Grant` appends a token valid no earlier
than now. `Refresh` happens only when the cache is empty or expired; it
installs the newest grant, trusted to an expiry within the provider's.
`Elapse` advances time. Tasks, the Mutex, the POST and its failures are
hidden. `TokenCache` maps to it through `Abstract` (`TokenCache.tla`):
`Issue` is a `Grant`, `Receive` a `Refresh`, `Tick` an `Elapse`, and every
other step a stutter.

### `StoreProofs.tla`, `StoreGateProofs.tla`, `TokenCacheProofs.tla`, `DownloadProofs.tla`

The TLAPS proofs (section 4). Each one EXTENDS the module it proves things
about, plus `TLAPS`.

## 3. Runs

| Run | Checks | Expect | Shows |
|---|---|---|---|
| `store_safety` (`MCStore.cfg`) | `RowHasRemote`, `NoRedundantDrive` | pass | With 2 tasks, failures at every step and any interleaving, no row ever names a missing object, and a drive is never created while an existing drive had room (the gate works). |
| `store_drive_capacity` (`MCStoreCapacity.cfg`) | `DriveWithinLimit` | violation | A drive ends up with more than `DRIVE_MAX_FILE_LIMIT` files. |
| `download_pipeline` (`MCDownload.cfg`) | `TypeOK`, `DeliversWindow` | pass | For every range input, provider answer, body split, transport error and altered byte, the stream yields file bytes in order from the range start, and a response hyper completes carries exactly the requested window. |
| `download_stream_within_range` (`MCDownloadStreamWithinRange.cfg`) | `StreamWithinRange` | violation | The content stream yields more than `b - a` bytes for a range starting inside a chunk (spec §4.3). |
| `download_no_length` (`MCDownloadNoLength.cfg`) | `ErrorsOnlyOnFault` | violation | A 200 without `Content-Length` makes a download fail with no fault anywhere. |
| `download_tamper` (`MCDownloadNoPlaintextOnTamper.cfg`) | `NoPlaintextOnTamper` | violation | Tamper detection "emits no plaintext" (spec §8.4) fails. |
| `store_liveness` (`MCStoreLiveness.cfg`) | `GateEventuallyGranted` | pass | Under `FairSpec`, a task waiting for `file_alloc_mutex` gets it or gives up (119,029 states). |
| `upload_pipeline` (`MCUpload.cfg`) | `SendsCiphertext`, `UploadErrorsOnlyOnFault` | pass | Whatever the client's item boundaries and break point, hyper sends a prefix of `Ciphertext(size)`, a completed upload stores exactly it, and only a broken body fails the request. |
| `bandwidth_conservation` (`MCBandwidthLimiter.cfg`) | `Conservation` | pass | Two concurrent throttles never lose or invent a byte of the residual: every byte folded in is a whole unit charged, rejected, cancelled or owed, or in `leftover`. |
| `bandwidth_burst_bound` (`MCBandwidthLimiterBound.cfg`) | `BandwidthBound` | violation | A buffer needing more cells than the burst passes uncharged, so the bytes sent exceed what the bucket admitted. |
| `token_cache` (`MCTokenCache.cfg`) | `RefreshSerialised`, `CachedExpiryWithinReal`, `TokenCacheRefinesSpec` | pass | Two callers with slow, failing and abandoned refreshes never refresh over each other, and the cache never trusts a token past its real expiry. Every step is a `Grant`, `Refresh`, `Elapse` or stutter of `TokenCacheSpec`. |
| `token_cache_short_ttl` (`MCTokenCacheShortTTL.cfg`) | `CachedExpiryWithinReal` | violation | A token granted for less than the margin is trusted for the margin. |

**Bounds.**

* `MCStore`:
  * 2 tasks. This is the least number for every race on the gate and for stale counts.
  * `DriveMaxFileLimit = 1`, so a drive fills after one upload.
  * At most 3 remote objects and 2 drives.
  * The model has 67,617 distinct states and takes about 1 s. Tasks are symmetric.
* `MCDownload`:
  * `ChunkSize = 2`, `TagSize = 1`.
  * File sizes 3 and 4. That gives a full chunk and a partial chunk, and two full chunks.
  * Body items of 1 or 2 bytes. Since 2 is less than a 3-byte ciphertext chunk, items split chunks at every offset.
  * `NonceBase = 1`, `NonceModulus = 2`, so the nonce wraps between chunk 0 and chunk 1.
  * Every range input over the file is enumerated: all bounds in `0..size` and unbounded.
  * Every response range within the ciphertext is enumerated.
  * Every position of an altered byte is enumerated.

* `MCUpload`: the codec constants of `MCDownload`, sizes 3, 4 and 5 (one
  partial last chunk, a size that is a multiple of `ChunkSize`, three chunks)
  and client items of 1..3 bytes, so items cross chunk boundaries every way.
* `MCBandwidthLimiter`: 2 tasks, `Unit = 4`, `Burst = 1`, buffer sizes 1 and
  5 (a buffer below a unit, one completing one unit, and one completing two
  from a non-zero residual), 3 buffers per task, 3 refills. Every
  interleaving of the loads and CAS attempts of two tasks occurs
  (`CasRetry` fires); 10,359 states. Deadlock is not checked: every stream
  is finite and ends.
* `MCTokenCache`: 2 tasks, `Margin = 2`, `expires_in` 2 or 4, clock to 7,
  3 tokens: a token expires, is refreshed, and a slow response arrives after
  time passed; 136,334 states. `MCTokenCacheShortTTL` adds `expires_in = 1`.

**Fairness.** Only `store_liveness` assumes fairness (`FairSpec`): weak
fairness of every step a task takes after it holds the gate or outside it
(`Progress`: each is an await that completes or fails), and strong fairness
of `Lock`. Strong fairness is justified by tokio's `Mutex`, which queues
waiters FIFO: a waiter that stays waiting is granted the lock after the
tasks ahead of it. Weak fairness of `Lock` is not enough (TLC finds a
behaviour where the other task re-takes the gate each time it is free), and
that is the starvation the FIFO queue rules out. Weak fairness of the remote
awaits (`create_drive`, `create_file`, `delete_file`) is an assumption about
the environment, not something the code enforces: the reqwest client is
built without a timeout, so a provider that never answers keeps a task in
`create_drive` holding the gate forever, and every other upload waits. Every other property is a
safety property and no fairness is assumed for it.

**Mutants.** Each property of a passing run is broken by one plausible bug
(`PROJECT.json`, `mutants`):

* a `create_file` whose status is not checked breaks `RowHasRemote`;
* an allocation that skips the gate breaks `NoRedundantDrive`;
* a slice that takes a whole item past its limit breaks `TypeOK` (the u64 underflow);
* a `content_range` that subtracts the first chunk's index unscaled breaks `DeliversWindow`;
* an upload failure that keeps the gate breaks `GateEventuallyGranted`;
* a residual updated by a plain store instead of the CAS breaks `Conservation`;
* a token check entered without the lock breaks `RefreshSerialised`;
* an expiry computed from the response's arrival instead of `now` breaks `CachedExpiryWithinReal`;
* an `encrypt_stream` that does not advance `chunk_id` breaks `SendsCiphertext`;
* `encrypted_size` without `saturating_sub(1)` breaks `UploadErrorsOnlyOnFault`.

### Findings

1. **`slice_stream` ignores the limit after a mid-item offset** (`stream.rs:59-69`).
   * When the offset ends inside an item, the closure returns
     `chunk.split_off(offset)` whole and leaves `limit` unchanged.
   * In the download pipeline the outer slice's offset is
     `a - chunk_start·CHUNK_SIZE`, which is non-zero for any range not starting
     on a chunk boundary. The content stream therefore yields the rest of the
     first chunk and then up to `b - a` more bytes.
   * The trace: `bytes=1-2` of a 4-byte file; the stream yields `1, 2, 3`.
   * The client still receives exactly `1, 2`: `get_file` declares
     `Content-Length: b - a` and hyper stops the body there (`DeliversWindow`
     holds). The bug is latent; it shows wherever the stream is used without
     that length, and spec §4.3 says slice emits at most `hi - lo` bytes.
2. **A 200 without `Content-Length` breaks ranged reads** (`drive.rs:267`).
   * `get_file` falls back to `unwrap_or(range.clone())`: the body is taken
     to start at the requested offset, although a 200 carries the whole file.
   * `slice_stream` then skips nothing, and a read starting past chunk 0
     decrypts chunk 0's bytes under a later nonce and fails. Nothing failed in
     the network or at the provider. Spec §4.6 says a 200 is the full file.
3. **Plaintext before a tampered chunk is streamed** (`store.rs:273`).
   * `decrypt_stream` yields each chunk once it authenticates.
   * If chunk 1 is altered, chunk 0's plaintext reaches the client before the
     error. Spec §8.4 says no plaintext is emitted.
4. **A drive can exceed `DRIVE_MAX_FILE_LIMIT`** (`db.rs:284`, `store.rs:87-101`).
   * The query admits a drive with `count <= limit`. The comment says "less
     than the limit".
   * Also, the gate is released before the row is inserted, so several uploads
     can choose one drive on the same count.

5. **Oversized buffers bypass the bandwidth limit** (`stream.rs:196`).
   * `until_n_ready(consume)` returns `Err(InsufficientCapacity)` when
     `consume` exceeds the burst; `let _ =` drops it and the buffer is yielded
     without any cell taken.
   * With a burst of one unit, a buffer that completes two units passes free.
     `Conservation` still holds: the bytes are accounted as `rejected`.
6. **Tokens shorter than the margin are over-trusted** (`auth.rs:104`).
   * `max(expires_in - 10, 10)` caches a token granted for under 10 s for
     10 s. Spec §5 calls the clamp intentional; it does not say that such a
     token is handed out after it expired.

## 4. Proofs (TLAPS)

`StoreProofs.tla` proves the following for every set of tasks and every bound
(`StoreAssumption`):

* `TypeCorrect`: `Spec => []TypeOK`.
  * `TypeInit` and `TypeStep` are proved with one step per action.
  * `DeleteRow` is split into its found and not-found cases.
* `RowsPointToRemote`: `Spec => []RowHasRemote`, the property `store_safety`
  checks.
  * `RowHasRemote` is not inductive by itself. A remote delete could remove an
    object that a row still names, and a pending insert could name a deleted
    object.
  * The inductive invariant `IInv` adds four facts:
    * `RemoteIdsIssued`: every remote id is at most `remoteSeq`.
    * `UniqueRowIds`: no two rows share an id.
    * `PendingInsertFresh`: a task at `add_file` or `commit` holds an existing id that no
      row and no other pending insert names.
    * `PendingDeleteUnnamed`: a task at `delete_remote` holds the id of the row
      it removed, which nothing names any more.
  * The proof shows `Init => IInv` and `IInv /\ [Next]_vars => IInv'`, with one
    step per action and the `DeleteRow` case split by `PICK`. The theorem then
    follows by `PTL`.

`TokenCacheProofs.tla` proves, for every set of tasks and all constants
satisfying `TokenCacheAssumption`:

* `SerialisedRefresh`: `Spec => []RefreshSerialised`. The inductive invariant
  `SInv` adds `Exclusion` (a task between its check and the end of request()
  holds the Mutex) and `NowPast` (its `now` is not ahead of the clock).
* `CacheTrust`: under the hypothesis `LongTTL` (every `expires_in` is at
  least the margin), `Spec => []CachedExpiryWithinReal`. The invariant `CInv`
  adds `PendingWithinReal`: a response in flight carries a token whose real
  expiry is at least `now + expires_in`, because the provider answered no
  earlier than `now`. The lemma `TrustedWithin` (`TrustedFor(e) <= e` when
  `e >= Margin`) closes the `Receive` step. Run `token_cache_short_ttl`
  shows the hypothesis is needed.
* `CacheRefinement`: under `LongTTL`, `Spec => TokenCacheRefinesSpec`, the
  property `token_cache` checks. `CRefInit` maps the initial
  state. `CRefStep` maps each step under the invariant `RInv`, which is
  `CInv` plus `PendingNewest`: a response in flight carries the newest token
  granted (`Len(issued)`). Without it, `Receive` could install an older
  token and not map to `Refresh`. It holds because only the task holding
  the lock issues a request (`Exclusion`), so no other grant happens between
  a task's `Issue` and its `Receive`. `Receive` then maps to `Refresh`: the
  cache was empty or expired (`RefreshSerialised`, `NowPast`), and the
  trusted expiry is within the provider's (`TrustedWithin`,
  `PendingWithinReal`). `LongTTL` is needed for that last fact, as run
  `token_cache_short_ttl` shows.

`StoreGateProofs.tla` proves `GateInvariant`: `Spec => []NoRedundantDrive`,
the property `store_safety` checks, for every set of tasks, drive limit and
bound.

* `NoRedundantDrive` is not inductive. The step that can break it is
  `AddDrive`: it inserts a new drive, so every existing drive must then be
  over the limit.
* The invariant `GInv` adds five facts:
  * `DrivesIssued` and `KeysIssued`: drive and file serials are fresh, and
    the keys of the committed rows and of the uncommitted inserts are
    distinct and at most `fileSeq`. `fileSeq` counts every value drawn,
    including those of rows deleted or rolled back, so the bound holds
    whatever order the commits land in.
  * `RowsInDrives`: every row, and every pending insert, names an existing
    drive.
  * `GateHeld`: a task between the query and the drive insert holds
    `file_alloc_mutex`.
  * `PendingDriveJustified`: a task about to create a drive saw every drive
    over the limit. So `|drives| * (DriveMaxFileLimit + 1) <= fileSeq`.
* The argument counts rows. `KeyedRowsBound` says that rows with distinct
  keys in `1..k` number at most `k`. `RowsPerDriveBound` says that if every
  drive in `D` holds at least `n` rows, there are at least `|D| * n` rows.
  It is proved by an injection from `D \X 1..n` into the rows.
  `LeastExists` gives a least-loaded drive. It comes from `WFMin` on `Nat`,
  which needs no operator parameter. From these, `NoneMeansFull` says the
  query returning `None` means every drive is over the limit.

`DownloadProofs.tla` proves `DownloadTypeCorrect`: `Spec => []TypeOK`, the
type invariant `download_pipeline` checks. It holds for every set of sizes,
every `ChunkSize`, `TagSize` and `MaxNet`, every Range header, and every way
the provider splits, cuts short or alters the body.

* The content is that no u64 subtraction in the read path goes below zero:
  * `range.end - range.start` in `slice_stream` (`stream.rs:45`);
  * `offset -= size` and `limit -= take` (`stream.rs:60`, `82`);
  * `remaining - read` in `chunk_stream` (`stream.rs:145`).
* The invariant `DInv` adds two facts:
  * `PlanOrdered`: `encrypted_range` and `content_range` are never reversed.
  * `StreamsShaped`: every byte string in the chain is a function on
    `1..n`, and `chunker` keeps its three fields.
* The lemmas:
  * `ResolveRangeWithin`: `resolve_range` with its fallback gives
    `lo < hi <= size`.
  * `PlanWellFormed`: the first chunk's ciphertext offset
    `cs * ENCRYPTED_CHUNK_SIZE` is at most `encrypted_size`, because
    `cs <= (size-1) / CHUNK_SIZE`. So the clamp `end.min(encrypted_size)`
    at `store.rs:234` never makes the range reversed.
  * `SlicePollTyped`, `ChunkPollTyped`, `DecryptPollTyped`: one run of each
    adapter's closure keeps its state typed and hands on a byte string.
  * The sequence-shape lemmas (`SubSeqShaped`, `ConcatShaped`, ...).

These stay with TLC only:

* `DeliversWindow` (Download), `SendsCiphertext`,
  `UploadErrorsOnlyOnFault` (Upload). They speak of the contents of
  `Ciphertext(size)`, a `FlattenSeq` of the sealed chunks. What that fold
  yields for every size is induction over data, which the provers cannot do
  here: the library's induction theorems take an operator parameter.
* `Conservation` (BandwidthLimiter). It sums over tasks with
  `MapThenSumSet`. The `FiniteSetsExt` facts about that fold are stated with
  an operator parameter, so the provers cannot use them. A fold of our own
  would need the unfolding of its recursive function over `SUBSET S`, and
  that too is proved only through a theorem with an operator parameter.
* Liveness (`GateEventuallyGranted`). It needs fairness and `ENABLED`, which
  the provers do not handle.

## 5. Not modelled

* **governor's GCRA**: third-party code. `BandwidthLimiter` abstracts it to a
  bucket of at most `Burst` cells refilled one at a time; the request
  limiter's `until_ready` before each remote call only delays, and is left out.
* **The rate-limit parser, header formatting, CLI and config**: no state
  beyond start-up.
* **Database migration** (`db.rs` `migrate`): runs once at start-up, in one
  transaction, before any request; nothing interleaves with it.
* **The multipart request body**: encoding only.
* **The caller's use of a token** after `access_token` returns: a token
  fetched by a response slower than its lifetime is handed out expired; the
  model does not follow the token to the provider (hazard at `auth.rs:60`).
