CONSTANTS
  KMaxImages = 3
  MaxDriverImages = 4
SPECIFICATION Spec
INVARIANTS
  TypeOK HandlesLive ParentsOutlive SurfaceOutlivesUse NothingLeaks WithinReservation
  LoopIsEquipped
