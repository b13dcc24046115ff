--------------------------- MODULE ChunkGeometry ---------------------------
(***************************************************************************)
(* How the capture engine presents a frame to the bus driver               *)
(* (src/photonic/capture/pool.c, pump.c): in one buffer or, when it is     *)
(* larger than what the host's DMA takes, as a chain of chunks of whole    *)
(* packets, one isochronous descriptor each.  "dma" is MaxDmaBufferSize, 0 *)
(* when the query failed.                                                  *)
(***************************************************************************)
EXTENDS Integers

CONSTANTS
  PageSize,       \* PAGE_SIZE
  FallbackChunk,  \* PHOTONIC_CAPTURE_MAX_CHUNK_BYTES
  MaxChunks       \* PHOTONIC_CAPTURE_MAX_CHUNKS

ASSUME ChunkAssumption ==
  PageSize \in Nat \ {0} /\ FallbackChunk \in Nat \ {0} /\ MaxChunks \in Nat \ {0}

(* The bus driver counts the page a buffer spans when it starts mid-page.    *)
BufferLimit(dma) ==
  IF dma = 0 THEN FallbackChunk ELSE IF dma > PageSize THEN dma - PageSize ELSE dma

ChunkBytes(frame, packet, dma) ==
  IF frame > BufferLimit(dma) THEN (BufferLimit(dma) \div packet) * packet ELSE frame

(* The chunks of a frame, as many as it takes to cover it; 0 when the start  *)
(* is refused, for a packet over the limit or a chain over the maximum.      *)
CoveringFloor(frame, bytes) == frame \div bytes             \* mutant: remainder lost
Covering(frame, bytes) == (frame + bytes - 1) \div bytes
ChunkCount(frame, packet, dma) ==
  LET bytes == ChunkBytes(frame, packet, dma)
  IN  IF bytes = 0 THEN 0
      ELSE IF Covering(frame, bytes) > MaxChunks THEN 0 ELSE Covering(frame, bytes)

(* Chunk k of the chain PhotonicCapturePumpPrime builds, the first being 0:  *)
(* every chunk before it is full.                                           *)
ChunkOffset(bytes, k) == k * bytes
ChunkLength(frame, bytes, k) ==
  IF frame - ChunkOffset(bytes, k) > bytes THEN bytes ELSE frame - ChunkOffset(bytes, k)

(* A chain that is built covers the frame without gap or overlap, in chunks  *)
(* of whole packets within the host's limit (pool.c                         *)
(* PhotonicCapturePoolSetupChunks, pump.c PhotonicCapturePumpPrime).        *)
ChainWhole(frame, packet, dma) ==
  LET bytes == ChunkBytes(frame, packet, dma)
      n == ChunkCount(frame, packet, dma)
  IN  \A k \in 0..(n - 1) :
        /\ ChunkLength(frame, bytes, k) \in 1..BufferLimit(dma)
        /\ ChunkLength(frame, bytes, k) % packet = 0
        /\ ChunkOffset(bytes, k) + ChunkLength(frame, bytes, k) =
             IF k = n - 1 THEN frame ELSE ChunkOffset(bytes, k + 1)
=============================================================================
