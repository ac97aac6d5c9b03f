\* Idle, D, which sleeps, and E and F with SIMD registers; the general registers
\* of D and E are followed.
SPECIFICATION ContextSpec
CONSTANTS
  Task = {idle, d, e, f}
  Idle = idle
  SimdTask = {e, f}
  Value = {zero, v1}
  Zero = zero
  Sleeper = {d}
  Computing = {d, e}
  Word = {kernel, first}
  Kernel = kernel
  First = first
INVARIANTS Safe ContextSafe
PROPERTIES RegistersPrivate RegistersKept
